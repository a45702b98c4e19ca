-------------------------- MODULE MCRequestParsing --------------------------
(* The values of RequestParsing for TLC: each field has another.           *)
EXTENDS RequestParsing

FieldValues == <<"v1", "v2", "v3">>

=============================================================================
