---- MODULE MCHeaderMap ----
EXTENDS HeaderMap

(* The hashes of three names: two that are equal or differ only in larger  *)
(* tables, two whose homes are the last bucket and the first, so that      *)
(* searches wrap and items are displaced.                                  *)
MCNames         == 1 .. 3
MCHashFunctions == {<<0, 3, 7>>, <<3, 7, 7>>, <<7, 7, 0>>}
====
