------------------------------ MODULE Response ------------------------------
(***************************************************************************)
(* generateResponse and sendBody (lib/response.c) and the compression of   *)
(* files (lib/fileutil.c): one HttpResponse object, reset and used again,  *)
(* answers one request after another from a file system that others change.*)
(* Each step makes one look at the file system, so that a change may fall  *)
(* between the looks of one response.                                      *)
(***************************************************************************)
EXTENDS Integers, Sequences, FiniteSets

CONSTANTS
  Sizes,              (* The lengths of files.                           *)
  MaxResponses,       (* Bound: responses.                               *)
  FaultSets           (* Which of these happen together: "change", the   *)
                      (* files change during a response; "unreadable",   *)
                      (* some may not be opened; "diskFull", a write     *)
                      (* fails.                                          *)

ASSUME ResponseAssumption ==
  /\ Sizes \subseteq Nat \ {0} /\ Sizes # {}
  /\ MaxResponses \in Nat
  /\ FaultSets \subseteq SUBSET {"change", "unreadable", "diskFull"}

VARIABLES
  fs,                 (* what is at each path                            *)
  browsing,           (* cfg->directory_browsing                         *)
  faults,             (* one of FaultSets                                *)
  garbage,            (* what malloc left in specialBodyUsed             *)
  pc,                 (* the step of the response that comes next        *)
  responses,          (* how many responses were begun                   *)
  target, acceptEncoding,                   (* of the request            *)
  fileName, pathToFile, specialBody, specialBodyUsed, encoding,
  statusCode,         (* fields of the HttpResponse                      *)
  fields,             (* the header fields sent                          *)
  sentBody            (* the body sent                                   *)

setting      == <<browsing, faults, garbage>>
requestVars  == <<target, acceptEncoding, responses>>
nameVars     == <<fileName, pathToFile>>
specialVars  == <<specialBody, specialBodyUsed>>
vars == <<fs, setting, pc, requestVars, nameVars, specialVars, encoding, statusCode,
          fields, sentBody>>

(* "/b.png" stands for the files of a type that is not compressed.         *)
Names   == {"/index.html", "/b.png", "/404.html"}
Targets == {"/", "/index.html", "/b.png"}

SiteFile(name) == <<"site_root", name>>
GzInPlace(path) == path            (* A variant with a bug: no new name. *)
Gz(path)       == path \o <<".gz">>
Root404        == <<"/404.html">>   (* at the root of the file system, not of the site *)
NoPath         == <<>>

Paths == {SiteFile(name) : name \in Names} \cup {Gz(SiteFile(name)) : name \in Names}
           \cup {Root404}

(* A file is known by its length; gz: it is a gzip stream; whole: of all   *)
(* of its input.                                                           *)
Absent     == [kind |-> "absent", length |-> 0, gz |-> FALSE, whole |-> TRUE]
Nothing    == Absent
Dir(k)     == [kind |-> k, length |-> 0, gz |-> FALSE, whole |-> TRUE]
File(k, s) == [kind |-> k, length |-> s, gz |-> FALSE, whole |-> TRUE]

Compressed(file, w) ==
  [kind |-> "file", length |-> file.length + 1, gz |-> TRUE, whole |-> w]

SomeSize == CHOOSE s \in Sizes : TRUE

Plain ==
  {Absent, Dir("dir")} \cup {File("file", s) : s \in Sizes}
    \cup IF "unreadable" \in faults
         THEN {Dir("lockedDir"), File("lockedFile", SomeSize)}
         ELSE {}

(* stat(), then S_ISDIR; fopen(path, "rb").                                *)
IsDirectory(path) == fs[path].kind \in {"dir", "lockedDir"}
FileExists(path)  == fs[path].kind # "absent"
CanOpen(path)     == fs[path].kind \in {"dir", "file"}
FileSize(path)    == IF FileExists(path) THEN fs[path].length ELSE -1

(* generateContentType and fileTypeShouldBeCompressed go by the extension. *)
GenerateContentType(name) == IF name = "/b.png" THEN "image/png" ELSE "text/html"
ShouldBeCompressed(name)  == name # "/b.png"

----------------------------------------------------------------------------

Init ==
  /\ faults \in FaultSets
  /\ \E site \in [Names -> Plain], page \in {Absent, File("file", SomeSize)} :
       fs = [path \in Paths |-> IF Len(path) = 2 THEN site[path[2]]
                               ELSE IF path = Root404 THEN page ELSE Absent]
  /\ browsing \in BOOLEAN
  /\ garbage \in BOOLEAN
  /\ pc = "idle"
  /\ responses = 0
  /\ target = "/" /\ acceptEncoding = "none"
  /\ fileName = "" /\ pathToFile = NoPath
  /\ specialBody = <<>> /\ specialBodyUsed = garbage
  /\ encoding = "none"
  /\ statusCode = 0
  /\ fields = [type |-> "", length |-> 0, encoding |-> "none"]
  /\ sentBody = Nothing

(* main() calls generateResponse for a request.                            *)
Request ==
  /\ pc = "idle"
  /\ responses < MaxResponses
  /\ responses' = responses + 1
  /\ target' \in Targets
  /\ acceptEncoding' \in {"gzip", "other", "none"}
  /\ fileName' = target'
  /\ pc' = "load"
  /\ UNCHANGED <<fs, setting, pathToFile, specialVars, encoding, statusCode, fields, sentBody>>

(* loadFileFromSiteRoot, up to isDirectory.  The terminator of pathToFile  *)
(* is written one past its end, which is the first byte of specialBody.    *)
LoadFile ==
  /\ pc = "load"
  /\ fileName' = IF fileName = "/" THEN "/index.html" ELSE fileName
  /\ pathToFile' = SiteFile(fileName')
  /\ specialBody' = <<>>
  /\ pc' = IF IsDirectory(pathToFile')
           THEN IF browsing THEN "list" ELSE "make404"
           ELSE IF ShouldBeCompressed(fileName') THEN "compress" ELSE "exists"
  /\ UNCHANGED <<fs, setting, requestVars, specialBodyUsed, encoding, statusCode, fields, sentBody>>

Crash ==
  /\ pc' = "crashed"
  /\ UNCHANGED <<fs, setting, requestVars, nameVars, specialVars, encoding, statusCode,
                 fields, sentBody>>

(* generateDirectoryListing appends to specialBody.  readdir() is given    *)
(* whatever opendir() returned, NULL included.  The terminator of fileName *)
(* is written one past its end, which is the first byte of pathToFile.     *)
ListDirectory ==
  /\ pc = "list"
  /\ IF fs[pathToFile].kind # "dir"
     THEN Crash
     ELSE /\ specialBody' = Append(specialBody, "listing")
          /\ specialBodyUsed' = TRUE
          /\ fileName' = "/directory.html"
          /\ pathToFile' = NoPath
          /\ statusCode' = 200
          /\ pc' = "headers"
          /\ UNCHANGED <<fs, setting, requestVars, encoding, fields, sentBody>>

(* compressFile overwrites the .gz file.  gzwrite() returns 0, not a       *)
(* negative number, when it cannot write, and what gzclose() returns is    *)
(* not looked at: a short file counts as a success.                        *)
CompressFile ==
  /\ pc = "compress"
  /\ IF acceptEncoding = "none"
     THEN Crash
     ELSE /\ pc' = "exists"
          /\ IF acceptEncoding = "gzip" /\ CanOpen(pathToFile)
             THEN /\ \E w \in {TRUE} \cup {"diskFull" \notin faults} :
                       fs' = [fs EXCEPT ![Gz(pathToFile)] = Compressed(fs[pathToFile], w)]
                  /\ pathToFile' = Gz(pathToFile)
                  /\ encoding' = "gzip"
             ELSE UNCHANGED <<fs, pathToFile, encoding>>
          /\ UNCHANGED <<setting, requestVars, fileName, specialVars, statusCode, fields, sentBody>>

(* gzopen() cannot create the .gz file: the file itself is sent.           *)
GzopenFails ==
  /\ pc = "compress"
  /\ "diskFull" \in faults
  /\ acceptEncoding = "gzip" /\ CanOpen(pathToFile)
  /\ pc' = "exists"
  /\ UNCHANGED <<fs, setting, requestVars, nameVars, specialVars, encoding, statusCode,
                 fields, sentBody>>

(* The end of loadFileFromSiteRoot.                                        *)
CheckExists ==
  /\ pc = "exists"
  /\ IF FileExists(pathToFile)
     THEN pc' = "headers" /\ statusCode' = 200
     ELSE pc' = "make404" /\ UNCHANGED statusCode
  /\ UNCHANGED <<fs, setting, requestVars, nameVars, specialVars, encoding, fields, sentBody>>

(* generate404PageInMemory reads the site's page over specialBody.         *)
Page404 ==
  LET page == SiteFile("/404.html") IN
  IF ~CanOpen(page) THEN <<"not found">>
  ELSE IF fs[page].kind = "file" THEN <<"page">> ELSE <<>>

(* make404Response; fileName stays what it was.                            *)
Make404Response ==
  /\ pc = "make404"
  /\ statusCode' = 404
  /\ pathToFile' = Root404
  /\ IF FileExists(Root404)
     THEN UNCHANGED specialVars
     ELSE specialBodyUsed' = TRUE /\ specialBody' = Page404
  /\ pc' = "headers"
  /\ UNCHANGED <<fs, setting, requestVars, fileName, encoding, fields, sentBody>>

(* A variant with a bug: the length of the file before compression.        *)
GenerateResponseHeadersEarly ==
  /\ pc = "headers"
  /\ fields' = [type |-> GenerateContentType(fileName),
                length |-> IF specialBodyUsed THEN Len(specialBody) ELSE FileSize(SiteFile(fileName)),
                encoding |-> encoding]
  /\ pc' = "body"
  /\ UNCHANGED <<fs, setting, requestVars, nameVars, specialVars, encoding, statusCode, sentBody>>

(* generateResponseHeaders.                                                *)
GenerateResponseHeaders ==
  /\ pc = "headers"
  /\ fields' = [type |-> GenerateContentType(fileName),
                length |-> IF specialBodyUsed THEN Len(specialBody) ELSE FileSize(pathToFile),
                encoding |-> encoding]
  /\ pc' = "body"
  /\ UNCHANGED <<fs, setting, requestVars, nameVars, specialVars, encoding, statusCode, sentBody>>

(* sendBody: the file is opened again, and read to its end.                *)
SendBody ==
  /\ pc = "body"
  /\ sentBody' = IF specialBodyUsed
                 THEN [kind |-> "special", length |-> Len(specialBody), gz |-> FALSE, whole |-> TRUE]
                 ELSE IF CanOpen(pathToFile) THEN fs[pathToFile] ELSE Nothing
  /\ pc' = "sent"
  /\ UNCHANGED <<fs, setting, requestVars, nameVars, specialVars, encoding, statusCode, fields>>

(* Variants with a bug: one thing or another is not reset.                 *)
ResetResponseKeepsEncoding ==
  /\ pc = "sent"
  /\ specialBodyUsed' = FALSE
  /\ specialBody' = <<>>
  /\ fileName' = ""
  /\ statusCode' = 0
  /\ fields' = [type |-> "", length |-> 0, encoding |-> "none"]
  /\ sentBody' = Nothing
  /\ pc' = "idle"
  /\ UNCHANGED <<fs, setting, requestVars, pathToFile, encoding>>

ResetResponseKeepsFlag ==
  /\ pc = "sent"
  /\ encoding' = "none"
  /\ specialBody' = <<>>
  /\ fileName' = ""
  /\ statusCode' = 0
  /\ fields' = [type |-> "", length |-> 0, encoding |-> "none"]
  /\ sentBody' = Nothing
  /\ pc' = "idle"
  /\ UNCHANGED <<fs, setting, requestVars, pathToFile, specialBodyUsed>>

(* resetResponse; pathToFile keeps its value.                              *)
ResetResponse ==
  /\ pc = "sent"
  /\ encoding' = "none"
  /\ specialBodyUsed' = FALSE
  /\ specialBody' = <<>>
  /\ fileName' = ""
  /\ statusCode' = 0
  /\ fields' = [type |-> "", length |-> 0, encoding |-> "none"]
  /\ sentBody' = Nothing
  /\ pc' = "idle"
  /\ UNCHANGED <<fs, setting, requestVars, pathToFile>>

(* Somebody changes, adds or removes a file of the site.                   *)
ChangeFile ==
  /\ pc = "idle" \/ "change" \in faults
  /\ pc # "crashed"
  /\ \E path \in Paths, object \in Plain :
       /\ Len(path) = 2 \/ object = Absent
       /\ fs' = [fs EXCEPT ![path] = object]
  /\ UNCHANGED <<setting, pc, requestVars, nameVars, specialVars, encoding, statusCode,
                 fields, sentBody>>

Next ==
  \/ Request \/ LoadFile \/ ListDirectory \/ CompressFile \/ GzopenFails \/ CheckExists
  \/ Make404Response \/ GenerateResponseHeaders \/ SendBody \/ ResetResponse
  \/ ChangeFile

Spec == Init /\ [][Next]_vars

----------------------------------------------------------------------------

Objects ==
  Plain \cup {Compressed(File("file", s), w) : s \in Sizes \cup {0}, w \in BOOLEAN}

TypeOK ==
  /\ fs \in [Paths -> Objects]
  /\ pc \in {"idle", "load", "list", "compress", "exists", "make404", "headers",
             "body", "sent", "crashed"}
  /\ statusCode \in {0, 200, 404}
  /\ specialBodyUsed \in BOOLEAN
  /\ encoding \in {"none", "gzip"}

(* What is at the place the target names.                                  *)
Asked == SiteFile(IF target = "/" THEN "/index.html" ELSE target)
Named == fs[Asked]

(* Nothing changes during the response, and every file may be read and     *)
(* written; specialBodyUsed was set, by resetResponse or by good luck.     *)
Calm     == faults = {}
FlagIsSet == responses > 1 \/ ~garbage

(* When nothing changes meanwhile, the Content-Length announced before the *)
(* body (response.c:203-221) is the length of the body then sent (129-148).*)
LengthMatchesBody == pc = "sent" /\ Calm => fields.length = sentBody.length

(* When nothing changes meanwhile, a target is answered 200 exactly when it*)
(* names a file or a directory that may be listed, and the body is that    *)
(* file, or a gzip stream of the whole of it just when the header says so  *)
(* (response.c:280-338, fileutil.c:89-131).                                *)
BodyIsTarget ==
  pc = "sent" /\ Calm =>
    /\ statusCode = 200 <=> Named.kind = "file" \/ (Named.kind = "dir" /\ browsing)
    /\ statusCode = 200 /\ Named.kind = "dir" => sentBody.kind = "special"
    /\ statusCode = 200 /\ Named.kind = "file" /\ FlagIsSet =>
         sentBody = IF fields.encoding = "gzip" THEN Compressed(Named, TRUE) ELSE Named
    /\ statusCode = 404 => fields.encoding = "none"

(* Whatever changes or fails meanwhile, nothing of an earlier response     *)
(* reaches a later one (response.c:22-35): the body made in memory holds   *)
(* one listing or page only, used for a directory or a 404, and gzip is    *)
(* announced only to a client that accepts it.                             *)
NothingCarriedOver ==
  pc = "sent" =>
    /\ specialBodyUsed /\ FlagIsSet => statusCode = 404 \/ fileName = "/directory.html"
    /\ specialBodyUsed => Len(specialBody) <= 1
    /\ statusCode = 404 /\ specialBodyUsed => specialBody # <<"listing">>
    /\ fields.encoding = "gzip" => acceptEncoding = "gzip"

(* What makes them inductive.  Compressed files are found only where       *)
(* compressFile puts them; a response starts with nothing of the last one. *)
SiteInv ==
  /\ \A name \in Names : fs[SiteFile(name)] \in Plain
  /\ fs[Root404] \in Plain

RequestInv ==
  /\ target \in Targets /\ responses \in Nat /\ garbage \in BOOLEAN
  /\ pc = "idle" => encoding = "none" /\ (specialBodyUsed => responses = 0 /\ garbage)
  /\ pc = "load" => fileName = target
  /\ encoding = "gzip" => acceptEncoding = "gzip"

BeforeLooking == {"load", "list", "compress"}
BeforeHeaders == BeforeLooking \cup {"exists", "make404"}
Answered      == {"headers", "body", "sent"}

AtTarget == pathToFile = IF encoding = "gzip" THEN Gz(Asked) ELSE Asked
Streamed == encoding = "gzip" => fs[Gz(Asked)] = Compressed(Named, TRUE)
Listed   == Named.kind = "dir" /\ browsing

(* The path is that of the target or of its gzip stream until an answer is *)
(* chosen, and nothing was made in memory before.                          *)
PathInv ==
  /\ pc \in BeforeLooking => encoding = "none"
  /\ pc \in BeforeHeaders \ {"load"} => AtTarget
  /\ pc \in BeforeHeaders \ {"load"} => specialBody = <<>>
  /\ pc \in BeforeHeaders => (FlagIsSet => ~specialBodyUsed)

SpecialInv ==
  pc \in Answered =>
    /\ specialBody \in {<<>>, <<"listing">>, <<"page">>, <<"not found">>}
    /\ statusCode \in {200, 404}
    /\ statusCode = 404 => specialBody # <<"listing">>
    /\ specialBodyUsed /\ FlagIsSet => statusCode = 404 \/ fileName = "/directory.html"

(* While nothing changes, each choice made is still the right one.         *)
ChoiceInv ==
  /\ pc = "list" => Listed
  /\ pc = "compress" => Named.kind \in {"absent", "file"}
  /\ pc = "exists" =>
       Named.kind \in {"absent", "file"} /\ (encoding = "gzip" => Named.kind = "file") /\ Streamed
  /\ pc = "make404" => encoding = "none" /\ Named.kind # "file" /\ ~Listed

AnswerInv ==
  pc \in Answered =>
    /\ statusCode = 200 <=> Named.kind = "file" \/ Listed
    /\ statusCode = 404 => encoding = "none"
    /\ statusCode = 200 /\ Named.kind = "dir" => specialBodyUsed
    /\ statusCode = 200 /\ Named.kind = "file" =>
         (FlagIsSet => ~specialBodyUsed) /\ AtTarget /\ Streamed
    /\ ~specialBodyUsed => FileExists(pathToFile) /\ CanOpen(pathToFile)

CalmInv == Calm => ChoiceInv /\ AnswerInv

(* What was announced and sent is what the response said then.             *)
SentInv ==
  /\ pc \in {"body", "sent"} => fields.encoding = encoding
  /\ pc \in {"body", "sent"} /\ Calm =>
       fields.length = IF specialBodyUsed THEN Len(specialBody) ELSE FileSize(pathToFile)
  /\ pc = "sent" /\ Calm =>
       sentBody = IF specialBodyUsed
                  THEN [kind |-> "special", length |-> Len(specialBody), gz |-> FALSE, whole |-> TRUE]
                  ELSE fs[pathToFile]

ResponseInv ==
  TypeOK /\ SiteInv /\ RequestInv /\ PathInv /\ SpecialInv /\ CalmInv /\ SentInv

(* "return still uncompressed file if we fail to create compressed version"*)
(* (fileutil.c:121): no truncated gzip stream is sent.                     *)
FailedCompressionSendsPlain == pc = "sent" => sentBody.whole

=============================================================================
