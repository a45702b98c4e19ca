---------------------------- MODULE ResponseProofs ----------------------------
(***************************************************************************)
(* What a response announces is what it sends, and nothing of it is left   *)
(* for the next one: for files of any size, any number of responses, and   *)
(* any combination of the faults.                                          *)
(***************************************************************************)
EXTENDS Response, SequenceTheorems, TLAPS

USE ResponseAssumption

(* The places of the site: a page, the stream made of it, and the page at  *)
(* the root of the file system are never the same one.                     *)
LEMMA PathLength ==
  /\ \A name \in Names : Len(SiteFile(name)) = 2 /\ SiteFile(name)[2] = name
  /\ \A name \in Names : Len(Gz(SiteFile(name))) = 3
  /\ Len(Root404) = 1
<1> DEFINE S == Names \cup {"site_root", ".gz"}
<1>1. \A name \in Names : SiteFile(name) \in Seq(S) /\ Len(SiteFile(name)) = 2
  <2> SUFFICES ASSUME NEW name \in Names
               PROVE  SiteFile(name) \in Seq(S) /\ Len(SiteFile(name)) = 2
    OBVIOUS
  <2>1. name \in S /\ "site_root" \in S
    OBVIOUS
  <2> HIDE DEF S
  <2> QED BY <2>1 DEF SiteFile
<1>2. <<".gz">> \in Seq(S) /\ Len(<<".gz">>) = 1
  <2>1. ".gz" \in S
    OBVIOUS
  <2> HIDE DEF S
  <2> QED BY <2>1
<1> HIDE DEF S
<1>3. \A name \in Names : Len(Gz(SiteFile(name))) = 3
  <2> SUFFICES ASSUME NEW name \in Names PROVE Len(Gz(SiteFile(name))) = 3
    OBVIOUS
  <2>1. SiteFile(name) \in Seq(S) /\ Len(SiteFile(name)) = 2
    BY <1>1
  <2>2. Len(SiteFile(name) \o <<".gz">>) = 2 + 1
    <3> DEFINE path   == SiteFile(name)
               suffix == <<".gz">>
    <3>1. path \in Seq(S) /\ suffix \in Seq(S) /\ Len(path) = 2 /\ Len(suffix) = 1
      BY <1>2, <2>1
    <3> HIDE DEF path, suffix
    <3>2. Len(path \o suffix) = Len(path) + Len(suffix)
      BY <3>1, ConcatProperties
    <3>3. Len(path \o suffix) = 2 + 1
      BY ONLY <3>1, <3>2
    <3> QED BY <3>3 DEF path, suffix
  <2> QED BY <2>2 DEF Gz
<1>4. Len(Root404) = 1
  BY DEF Root404
<1>5. \A name \in Names : SiteFile(name)[2] = name
  BY DEF SiteFile
<1> QED BY <1>1, <1>3, <1>4, <1>5

LEMMA PathsApart ==
  /\ \A name \in Names : SiteFile(name) \in Paths /\ Gz(SiteFile(name)) \in Paths
  /\ Root404 \in Paths
  /\ \A name, other \in Names : SiteFile(name) # Gz(SiteFile(other))
  /\ \A name \in Names : Root404 # Gz(SiteFile(name))
  BY PathLength DEF Paths

(* What the paths of the site hold is a file, a directory or nothing, and  *)
(* only the permissions taken away make one that cannot be opened.         *)
LEMMA PlainObjects ==
  ASSUME NEW object \in Plain
  PROVE  /\ object.kind \in {"absent", "dir", "file", "lockedDir", "lockedFile"}
         /\ Calm => object.kind \in {"absent", "dir", "file"}
         /\ object.kind \in {"dir", "file"} => object.length \in Sizes \cup {0}
         /\ object \in Objects
<1>1. object \in Objects
  BY DEF Objects
<1> QED BY <1>1 DEF Plain, Calm, Absent, Dir, File

LEMMA PlainMade ==
  /\ Absent \in Plain /\ \A s \in Sizes : File("file", s) \in Plain
  /\ SomeSize \in Sizes
  BY DEF Plain, SomeSize, ResponseAssumption

(* A stream made of one of them is one of the objects of the file system.  *)
LEMMA CompressedObject ==
  ASSUME NEW object \in Plain, object.kind \in {"dir", "file"}, NEW w \in BOOLEAN
  PROVE  Compressed(object, w) \in Objects
<1>1. object.length \in Sizes \cup {0}
  BY PlainObjects
<1>2. Compressed(object, w) = Compressed(File("file", object.length), w)
  BY DEF Compressed, File
<1> QED BY <1>1, <1>2 DEF Objects

LEMMA AskedIsThere ==
  ASSUME target \in Targets
  PROVE  /\ \E name \in Names : Asked = SiteFile(name)
         /\ Asked \in Paths /\ Gz(Asked) \in Paths /\ Asked # Gz(Asked)
<1>1. \E name \in Names : Asked = SiteFile(name)
  BY DEF Asked, Targets, Names
<1> QED BY <1>1, PathsApart

(* Of the setting and the request nothing changes during a response.       *)
LEMMA SettingStays ==
  ASSUME UNCHANGED <<setting, requestVars>>
  PROVE  /\ UNCHANGED <<browsing, faults, garbage, target, acceptEncoding, responses>>
         /\ Calm' = Calm /\ FlagIsSet' = FlagIsSet /\ Asked' = Asked
         /\ Plain' = Plain /\ Objects' = Objects
  BY DEF setting, requestVars, Calm, FlagIsSet, Asked, Plain, Objects

LEMMA NamedStays ==
  ASSUME UNCHANGED <<setting, requestVars, fs>>
  PROVE  /\ Named' = Named /\ Listed' = Listed
         /\ encoding' = encoding => Streamed' = Streamed
         /\ UNCHANGED <<encoding, pathToFile>> => AtTarget' = AtTarget
         /\ pathToFile' = pathToFile =>
              /\ FileExists(pathToFile)' = FileExists(pathToFile)
              /\ CanOpen(pathToFile)' = CanOpen(pathToFile)
              /\ FileSize(pathToFile)' = FileSize(pathToFile)
<1>1. Named' = Named /\ Asked' = Asked
  BY SettingStays DEF Named
<1>2. encoding' = encoding => Streamed' = Streamed
  BY <1>1 DEF Streamed, Compressed
<1> QED BY <1>1, <1>2, SettingStays DEF Listed, AtTarget, FileExists, CanOpen, FileSize

LEMMA SiteStays ==
  ASSUME SiteInv, UNCHANGED <<setting, requestVars, fs>>
  PROVE  SiteInv'
  BY SettingStays DEF SiteInv

----------------------------------------------------------------------------

LEMMA InitResponseInv == Init => ResponseInv
<1> SUFFICES ASSUME Init PROVE ResponseInv
  OBVIOUS
<1>1. PICK site \in [Names -> Plain], page \in {Absent, File("file", SomeSize)} :
        fs = [path \in Paths |-> IF Len(path) = 2 THEN site[path[2]]
                                ELSE IF path = Root404 THEN page ELSE Absent]
  BY DEF Init
<1>2. page \in Plain /\ Absent \in Plain
  BY PlainMade
<1>3. \A path \in Paths : Len(path) = 2 => path[2] \in Names
  BY PathLength DEF Paths
<1>4. \A path \in Paths : fs[path] \in Plain
  BY <1>1, <1>2, <1>3
<1>5. fs \in [Paths -> Objects]
  BY <1>1, <1>4, PlainObjects
<1>6. SiteInv
  BY <1>4, PathsApart DEF SiteInv
<1> QED BY <1>5, <1>6
        DEF Init, ResponseInv, TypeOK, RequestInv, PathInv, SpecialInv, CalmInv, ChoiceInv, AnswerInv,
            SentInv, BeforeHeaders, BeforeLooking, Answered, Targets

LEMMA RequestKeepsInv ==
  ASSUME ResponseInv, Request
  PROVE  ResponseInv'
<1>1. /\ pc = "idle" /\ pc' = "load" /\ target' \in Targets /\ fileName' = target'
      /\ responses' = responses + 1
      /\ UNCHANGED <<fs, setting, pathToFile, specialVars, encoding, statusCode, fields, sentBody>>
  BY DEF Request
<1>2. UNCHANGED <<browsing, faults, garbage, specialBody, specialBodyUsed>>
  BY <1>1 DEF setting, specialVars
<1>3. Plain' = Plain /\ Objects' = Objects
  BY <1>2 DEF Plain, Objects
<1>4. TypeOK' /\ SiteInv'
  BY <1>1, <1>2, <1>3 DEF ResponseInv, TypeOK, SiteInv
<1>5. RequestInv'
  BY <1>1, <1>2 DEF ResponseInv, RequestInv
<1>6. PathInv'
  BY <1>1, <1>2 DEF ResponseInv, RequestInv, PathInv, FlagIsSet, BeforeHeaders, BeforeLooking
<1> QED BY <1>1, <1>4, <1>5, <1>6
        DEF ResponseInv, SpecialInv, CalmInv, ChoiceInv, AnswerInv, SentInv, Answered

LEMMA LoadFileKeepsInv ==
  ASSUME ResponseInv, LoadFile
  PROVE  ResponseInv'
<1>1. /\ pc = "load" /\ specialBody' = <<>> /\ pathToFile' = SiteFile(fileName')
      /\ fileName' = IF fileName = "/" THEN "/index.html" ELSE fileName
      /\ pc' = IF IsDirectory(pathToFile')
               THEN IF browsing THEN "list" ELSE "make404"
               ELSE IF ShouldBeCompressed(fileName') THEN "compress" ELSE "exists"
      /\ UNCHANGED <<fs, setting, requestVars, specialBodyUsed, encoding, statusCode, fields, sentBody>>
  BY DEF LoadFile
<1>2. pc' \in {"list", "make404", "compress", "exists"}
  BY <1>1
<1>3. pathToFile' = Asked /\ encoding = "none"
  BY <1>1 DEF ResponseInv, RequestInv, PathInv, Asked, BeforeLooking
<1>4. TypeOK'
  BY <1>1, <1>2, SettingStays DEF ResponseInv, TypeOK
<1>5. RequestInv'
  BY <1>1, <1>2, SettingStays DEF ResponseInv, RequestInv
<1>6. PathInv'
  BY <1>1, <1>2, <1>3, SettingStays
     DEF ResponseInv, PathInv, AtTarget, BeforeHeaders, BeforeLooking
<1>7. CalmInv'
  <2>1. Named \in Plain
    BY AskedIsThere DEF ResponseInv, SiteInv, RequestInv, Named
  <2>2. Calm => Named.kind \in {"absent", "dir", "file"}
    BY <2>1, PlainObjects
  <2>3. IsDirectory(pathToFile') <=> Named.kind \in {"dir", "lockedDir"}
    BY <1>3 DEF IsDirectory, Named
  <2> QED BY <1>1, <1>2, <1>3, <2>2, <2>3, SettingStays, NamedStays
          DEF CalmInv, ChoiceInv, AnswerInv, Listed, Streamed, Answered
<1> QED BY <1>1, <1>2, <1>4, <1>5, <1>6, <1>7, SiteStays
        DEF ResponseInv, SpecialInv, SentInv, Answered

LEMMA CrashKeepsInv ==
  ASSUME ResponseInv, Crash
  PROVE  ResponseInv'
<1>1. /\ pc' = "crashed"
      /\ UNCHANGED <<fs, setting, requestVars, nameVars, specialVars, encoding, statusCode,
                     fields, sentBody>>
  BY DEF Crash
<1>2. TypeOK'
  BY <1>1, SettingStays DEF ResponseInv, TypeOK, specialVars
<1>3. RequestInv'
  BY <1>1, SettingStays DEF ResponseInv, RequestInv
<1> QED BY <1>1, <1>2, <1>3, SiteStays
        DEF ResponseInv, PathInv, SpecialInv, CalmInv, ChoiceInv, AnswerInv, SentInv,
            BeforeHeaders, BeforeLooking, Answered

LEMMA ListDirectoryKeepsInv ==
  ASSUME ResponseInv, ListDirectory
  PROVE  ResponseInv'
<1>1. CASE fs[pathToFile].kind # "dir"
  BY <1>1, CrashKeepsInv DEF ListDirectory
<1>2. CASE fs[pathToFile].kind = "dir"
  <2>1. /\ pc = "list" /\ pc' = "headers" /\ statusCode' = 200 /\ specialBodyUsed' = TRUE
        /\ specialBody' = Append(specialBody, "listing") /\ fileName' = "/directory.html"
        /\ UNCHANGED <<fs, setting, requestVars, encoding, fields, sentBody>>
    BY <1>2 DEF ListDirectory
  <2>2. encoding = "none" /\ specialBody' = <<"listing">>
    BY <2>1 DEF ResponseInv, PathInv, BeforeHeaders, BeforeLooking
  <2>3. TypeOK'
    BY <2>1, SettingStays DEF ResponseInv, TypeOK
  <2>4. RequestInv'
    BY <2>1, SettingStays DEF ResponseInv, RequestInv
  <2>5. CalmInv'
    <3>1. Calm => Listed
      BY <2>1 DEF ResponseInv, CalmInv, ChoiceInv
    <3>2. ChoiceInv'
      BY <2>1 DEF ChoiceInv
    <3>3. Calm => AnswerInv'
      BY <2>1, <2>2, <3>1, NamedStays DEF AnswerInv, Listed
    <3> QED BY <2>1, <3>2, <3>3, SettingStays DEF CalmInv
  <2>6. PathInv' /\ SentInv'
    BY <2>1 DEF PathInv, SentInv, BeforeHeaders, BeforeLooking
  <2>7. SpecialInv'
    <3>1. specialBody' \in {<<>>, <<"listing">>, <<"page">>, <<"not found">>}
      BY <2>2, Zenon
    <3>2. statusCode' \in {200, 404} /\ statusCode' # 404
      BY <2>1
    <3> QED BY <2>1, <3>1, <3>2, Zenon DEF SpecialInv
  <2> QED BY <2>1, <2>3, <2>4, <2>5, <2>6, <2>7, SiteStays DEF ResponseInv
<1> QED BY <1>1, <1>2

(* The stream takes the place of an earlier one only.                      *)
LEMMA CompressFileKeepsInv ==
  ASSUME ResponseInv, CompressFile
  PROVE  ResponseInv'
<1>1. pc = "compress" /\ pathToFile = Asked /\ encoding = "none"
  BY DEF CompressFile, ResponseInv, PathInv, AtTarget, BeforeHeaders, BeforeLooking
<1>2. CASE acceptEncoding = "none"
  BY <1>2, CrashKeepsInv DEF CompressFile
<1>3. CASE acceptEncoding = "gzip" /\ CanOpen(pathToFile)
  <2>1. PICK w \in {TRUE} \cup {"diskFull" \notin faults} :
          fs' = [fs EXCEPT ![Gz(pathToFile)] = Compressed(fs[pathToFile], w)]
    BY <1>3 DEF CompressFile
  <2>2. /\ pc' = "exists" /\ pathToFile' = Gz(Asked) /\ encoding' = "gzip"
        /\ UNCHANGED <<setting, requestVars, fileName, specialVars, statusCode, fields, sentBody>>
        /\ UNCHANGED <<specialBody, specialBodyUsed>>
    BY <1>1, <1>3 DEF CompressFile, specialVars
  <2>3. fs \in [Paths -> Objects] /\ target \in Targets
    BY DEF ResponseInv, TypeOK, RequestInv
  <2>4. Asked \in Paths /\ Gz(Asked) \in Paths /\ Asked # Gz(Asked)
    BY <2>3, AskedIsThere
  <2>5. Named \in Plain /\ Named.kind \in {"dir", "file"}
    BY <1>1, <1>3, <2>3, AskedIsThere DEF ResponseInv, SiteInv, Named, CanOpen
  <2>6. /\ fs' = [fs EXCEPT ![Gz(Asked)] = Compressed(Named, w)]
        /\ Compressed(Named, w) \in Objects
    BY <1>1, <2>1, <2>5, CompressedObject DEF Named
  <2>7. fs' \in [Paths -> Objects] /\ fs'[Gz(Asked)] = Compressed(Named, w) /\ fs'[Asked] = fs[Asked]
    BY <2>3, <2>4, <2>6
  <2>8. SiteInv'
    <3>1. PICK name \in Names : Asked = SiteFile(name)
      BY <2>3, AskedIsThere
    <3>2. \A other \in Names : fs'[SiteFile(other)] = fs[SiteFile(other)]
      BY <2>3, <2>6, <3>1, PathsApart
    <3>3. fs'[Root404] = fs[Root404]
      BY <2>3, <2>6, <3>1, PathsApart
    <3> QED BY <2>2, <3>2, <3>3, SettingStays DEF ResponseInv, SiteInv
  <2>9. TypeOK'
    BY <2>2, <2>7, SettingStays DEF ResponseInv, TypeOK
  <2>10. RequestInv'
    BY <1>3, <2>2, SettingStays DEF ResponseInv, RequestInv
  <2>11. PathInv'
    BY <1>1, <2>2, SettingStays DEF ResponseInv, PathInv, AtTarget, BeforeHeaders, BeforeLooking
  <2>12. CalmInv'
    <3>1. Named' = Named
      BY <2>2, <2>7, SettingStays DEF Named
    <3>2. Calm => w = TRUE
      BY <2>1 DEF Calm
    <3>3. Calm => Named.kind = "file"
      BY <1>1, <2>5 DEF ResponseInv, CalmInv, ChoiceInv
    <3>4. Calm => Streamed'
      BY <2>2, <2>7, <3>1, <3>2, SettingStays DEF Streamed, Compressed
    <3> QED BY <2>2, <3>1, <3>3, <3>4, SettingStays DEF CalmInv, ChoiceInv, AnswerInv, Answered
  <2> QED BY <2>2, <2>8, <2>9, <2>10, <2>11, <2>12 DEF ResponseInv, SpecialInv, SentInv, Answered
<1>4. CASE acceptEncoding # "none" /\ ~(acceptEncoding = "gzip" /\ CanOpen(pathToFile))
  <2>1. /\ pc' = "exists"
        /\ UNCHANGED <<fs, setting, requestVars, nameVars, specialVars, encoding, statusCode,
                       fields, sentBody>>
        /\ UNCHANGED <<pathToFile, specialBody, specialBodyUsed>>
    BY <1>4 DEF CompressFile, nameVars, specialVars
  <2>2. TypeOK'
    BY <2>1, SettingStays DEF ResponseInv, TypeOK
  <2>3. RequestInv'
    BY <2>1, SettingStays DEF ResponseInv, RequestInv
  <2>4. PathInv'
    BY <1>1, <2>1, SettingStays, NamedStays DEF ResponseInv, PathInv, BeforeHeaders, BeforeLooking
  <2>5. CalmInv'
    BY <1>1, <2>1, SettingStays, NamedStays
       DEF ResponseInv, CalmInv, ChoiceInv, AnswerInv, Streamed, Answered
  <2> QED BY <2>1, <2>2, <2>3, <2>4, <2>5, SiteStays
          DEF ResponseInv, SpecialInv, SentInv, Answered
<1> QED BY <1>2, <1>3, <1>4

LEMMA GzopenFailsKeepsInv ==
  ASSUME ResponseInv, GzopenFails
  PROVE  ResponseInv'
<1>1. /\ pc = "compress" /\ pc' = "exists"
      /\ UNCHANGED <<fs, setting, requestVars, nameVars, specialVars, encoding, statusCode,
                     fields, sentBody>>
      /\ UNCHANGED <<pathToFile, specialBody, specialBodyUsed>>
  BY DEF GzopenFails, nameVars, specialVars
<1>2. ~Calm
  BY DEF GzopenFails, Calm
<1>3. TypeOK'
  BY <1>1, SettingStays DEF ResponseInv, TypeOK
<1>4. RequestInv'
  BY <1>1, SettingStays DEF ResponseInv, RequestInv
<1>5. PathInv'
  BY <1>1, SettingStays, NamedStays DEF ResponseInv, PathInv, BeforeHeaders, BeforeLooking
<1>6. SpecialInv' /\ CalmInv' /\ SentInv'
  BY <1>1, <1>2, SettingStays DEF SpecialInv, CalmInv, SentInv, Answered
<1> QED BY <1>1, <1>3, <1>4, <1>5, <1>6, SiteStays DEF ResponseInv

LEMMA CheckExistsKeepsInv ==
  ASSUME ResponseInv, CheckExists
  PROVE  ResponseInv'
<1>1. /\ pc = "exists"
      /\ UNCHANGED <<fs, setting, requestVars, nameVars, specialVars, encoding, fields, sentBody>>
      /\ UNCHANGED <<fileName, pathToFile, specialBody, specialBodyUsed>>
  BY DEF CheckExists, nameVars, specialVars
<1>2. /\ pathToFile = IF encoding = "gzip" THEN Gz(Asked) ELSE Asked
      /\ specialBody = <<>> /\ (FlagIsSet => ~specialBodyUsed)
  BY <1>1 DEF ResponseInv, PathInv, AtTarget, BeforeHeaders, BeforeLooking
<1>3. RequestInv'
  <2>1. pc' \in {"headers", "make404"}
    BY DEF CheckExists
  <2> QED BY <1>1, <2>1, SettingStays DEF ResponseInv, RequestInv
<1>4. Calm => FileExists(pathToFile) <=> Named.kind = "file"
  <2>1. Calm /\ encoding = "gzip" => FileExists(pathToFile) /\ Named.kind = "file"
    BY <1>1, <1>2 DEF ResponseInv, CalmInv, ChoiceInv, Streamed, FileExists, Compressed
  <2>2. Calm /\ encoding # "gzip" => (FileExists(pathToFile) <=> Named.kind = "file")
    BY <1>1, <1>2 DEF ResponseInv, CalmInv, ChoiceInv, FileExists, Named
  <2> QED BY <2>1, <2>2
<1>5. CASE FileExists(pathToFile)
  <2>1. pc' = "headers" /\ statusCode' = 200
    BY <1>5 DEF CheckExists
  <2>2. TypeOK'
    BY <1>1, <2>1, SettingStays DEF ResponseInv, TypeOK
  <2>3. Calm => CanOpen(pathToFile)
    BY <1>1, <1>2, <1>4, <1>5
       DEF ResponseInv, CalmInv, ChoiceInv, Streamed, CanOpen, Named, Compressed
  <2>4. CalmInv'
    <3>1. Calm => Streamed /\ AtTarget /\ Named.kind = "file"
      BY <1>1, <1>2, <1>4, <1>5 DEF ResponseInv, CalmInv, ChoiceInv, AtTarget
    <3>2. ChoiceInv'
      BY <2>1 DEF ChoiceInv
    <3>3. Calm => AnswerInv'
      BY <1>1, <1>2, <1>5, <2>1, <2>3, <3>1, SettingStays, NamedStays DEF AnswerInv
    <3> QED BY <1>1, <3>2, <3>3, SettingStays DEF CalmInv
  <2> QED BY <1>1, <1>2, <1>3, <2>1, <2>2, <2>4, SiteStays, SettingStays
          DEF ResponseInv, PathInv, SpecialInv, SentInv, BeforeHeaders, BeforeLooking, Answered
<1>6. CASE ~FileExists(pathToFile)
  <2>1. pc' = "make404" /\ statusCode' = statusCode
    BY <1>6 DEF CheckExists
  <2>2. TypeOK'
    BY <1>1, <2>1, SettingStays DEF ResponseInv, TypeOK
  <2>3. PathInv'
    BY <1>1, <1>2, <2>1, SettingStays DEF PathInv, AtTarget, BeforeHeaders, BeforeLooking
  <2>4. CalmInv'
    <3>1. Calm => encoding = "none" /\ Named.kind = "absent"
      BY <1>1, <1>4, <1>6 DEF ResponseInv, TypeOK, CalmInv, ChoiceInv
    <3> QED BY <1>1, <2>1, <3>1, SettingStays, NamedStays
            DEF CalmInv, ChoiceInv, AnswerInv, Listed, Answered
  <2> QED BY <1>1, <1>3, <2>1, <2>2, <2>3, <2>4, SiteStays
          DEF ResponseInv, SpecialInv, SentInv, Answered
<1> QED BY <1>5, <1>6

LEMMA Make404ResponseKeepsInv ==
  ASSUME ResponseInv, Make404Response
  PROVE  ResponseInv'
<1>1. /\ pc = "make404" /\ pc' = "headers" /\ statusCode' = 404 /\ pathToFile' = Root404
      /\ UNCHANGED <<fs, setting, requestVars, fileName, encoding, fields, sentBody>>
      /\ IF FileExists(Root404)
         THEN UNCHANGED <<specialBody, specialBodyUsed>>
         ELSE specialBodyUsed' = TRUE /\ specialBody' = Page404
  BY DEF Make404Response, specialVars
<1>2. specialBody = <<>>
  BY <1>1 DEF ResponseInv, PathInv, BeforeHeaders, BeforeLooking
<1>3. specialBody' \in {<<>>, <<"page">>, <<"not found">>}
  BY <1>1, <1>2 DEF Page404
<1>4. TypeOK'
  BY <1>1, SettingStays DEF ResponseInv, TypeOK
<1>5. RequestInv'
  BY <1>1, SettingStays DEF ResponseInv, RequestInv
<1>6. SpecialInv'
  <2>1. <<"listing">> \notin {<<>>, <<"page">>, <<"not found">>}
    OBVIOUS
  <2> QED BY <1>1, <1>3, <2>1 DEF SpecialInv
<1>7. CalmInv'
  <2>1. Calm /\ ~specialBodyUsed' => FileExists(Root404) /\ CanOpen(Root404)
    <3>1. fs[Root404] \in Plain
      BY DEF ResponseInv, SiteInv
    <3> QED BY <1>1, <3>1, PlainObjects DEF FileExists, CanOpen
  <2>2. Calm /\ ~specialBodyUsed' => FileExists(pathToFile)' /\ CanOpen(pathToFile)'
    BY <1>1, <2>1 DEF FileExists, CanOpen
  <2>3. Calm => encoding = "none" /\ Named.kind # "file" /\ ~Listed
    BY <1>1 DEF ResponseInv, CalmInv, ChoiceInv
  <2>4. ChoiceInv'
    BY <1>1 DEF ChoiceInv
  <2>5. Calm => AnswerInv'
    BY <1>1, <2>2, <2>3, NamedStays DEF AnswerInv
  <2> QED BY <1>1, <2>4, <2>5, SettingStays DEF CalmInv
<1> QED BY <1>1, <1>4, <1>5, <1>6, <1>7, SiteStays
        DEF ResponseInv, PathInv, SentInv, BeforeHeaders, BeforeLooking

(* The answer chosen does not change while it is announced and sent.       *)
LEMMA AnswerStays ==
  ASSUME ResponseInv, pc \in Answered, pc' \in Answered,
         UNCHANGED <<fs, setting, requestVars, nameVars, specialVars, encoding, statusCode>>
  PROVE  /\ TypeOK' /\ SiteInv' /\ RequestInv' /\ PathInv' /\ SpecialInv' /\ CalmInv'
         /\ UNCHANGED <<fileName, pathToFile, specialBody, specialBodyUsed>>
         /\ FileSize(pathToFile)' = FileSize(pathToFile)
         /\ CanOpen(pathToFile)' = CanOpen(pathToFile)
<1>1. UNCHANGED <<fileName, pathToFile, specialBody, specialBodyUsed>>
  BY DEF nameVars, specialVars
<1>2. TypeOK'
  BY <1>1, SettingStays DEF ResponseInv, TypeOK, Answered
<1>3. RequestInv'
  BY <1>1, SettingStays DEF ResponseInv, RequestInv, Answered
<1>4. PathInv'
  BY DEF PathInv, BeforeHeaders, BeforeLooking, Answered
<1>5. SpecialInv'
  BY <1>1, SettingStays DEF ResponseInv, SpecialInv
<1>6. ChoiceInv'
  BY DEF ChoiceInv, Answered
<1>7. CalmInv'
  <2>1. AnswerInv => AnswerInv'
    BY <1>1, SettingStays, NamedStays DEF AnswerInv
  <2> QED BY <1>6, <2>1, SettingStays DEF ResponseInv, CalmInv
<1> QED BY <1>1, <1>2, <1>3, <1>4, <1>5, <1>7, SiteStays, NamedStays DEF ResponseInv

LEMMA GenerateResponseHeadersKeepsInv ==
  ASSUME ResponseInv, GenerateResponseHeaders
  PROVE  ResponseInv'
<1>1. /\ pc = "headers" /\ pc' = "body"
      /\ fields' = [type |-> GenerateContentType(fileName),
                    length |-> IF specialBodyUsed THEN Len(specialBody) ELSE FileSize(pathToFile),
                    encoding |-> encoding]
      /\ UNCHANGED <<fs, setting, requestVars, nameVars, specialVars, encoding, statusCode, sentBody>>
  BY DEF GenerateResponseHeaders
<1>2. /\ TypeOK' /\ SiteInv' /\ RequestInv' /\ PathInv' /\ SpecialInv' /\ CalmInv'
      /\ UNCHANGED <<fileName, pathToFile, specialBody, specialBodyUsed>>
      /\ FileSize(pathToFile)' = FileSize(pathToFile)
  BY <1>1, AnswerStays DEF Answered
<1>3. SentInv'
  BY <1>1, <1>2 DEF SentInv
<1> QED BY <1>2, <1>3 DEF ResponseInv

LEMMA SendBodyKeepsInv ==
  ASSUME ResponseInv, SendBody
  PROVE  ResponseInv'
<1>1. /\ pc = "body" /\ pc' = "sent"
      /\ sentBody' = IF specialBodyUsed
                     THEN [kind |-> "special", length |-> Len(specialBody), gz |-> FALSE, whole |-> TRUE]
                     ELSE IF CanOpen(pathToFile) THEN fs[pathToFile] ELSE Nothing
      /\ UNCHANGED <<fs, setting, requestVars, nameVars, specialVars, encoding, statusCode, fields>>
  BY DEF SendBody
<1>2. /\ TypeOK' /\ SiteInv' /\ RequestInv' /\ PathInv' /\ SpecialInv' /\ CalmInv'
      /\ UNCHANGED <<fileName, pathToFile, specialBody, specialBodyUsed>>
      /\ FileSize(pathToFile)' = FileSize(pathToFile)
  BY <1>1, AnswerStays DEF Answered
<1>3. Calm /\ ~specialBodyUsed => CanOpen(pathToFile)
  BY <1>1 DEF ResponseInv, CalmInv, AnswerInv, Answered
<1>4. SentInv'
  BY <1>1, <1>2, <1>3, SettingStays DEF ResponseInv, SentInv
<1> QED BY <1>2, <1>4 DEF ResponseInv

LEMMA ResetResponseKeepsInv ==
  ASSUME ResponseInv, ResetResponse
  PROVE  ResponseInv'
<1>1. /\ pc = "sent" /\ pc' = "idle" /\ encoding' = "none" /\ specialBodyUsed' = FALSE
      /\ statusCode' = 0
      /\ UNCHANGED <<fs, setting, requestVars, pathToFile>>
  BY DEF ResetResponse
<1>2. TypeOK'
  BY <1>1, SettingStays DEF ResponseInv, TypeOK
<1>3. RequestInv'
  BY <1>1, SettingStays DEF ResponseInv, RequestInv
<1> QED BY <1>1, <1>2, <1>3, SiteStays
        DEF ResponseInv, PathInv, SpecialInv, CalmInv, ChoiceInv, AnswerInv, SentInv,
            BeforeHeaders, BeforeLooking, Answered

LEMMA ChangeFileKeepsInv ==
  ASSUME ResponseInv, ChangeFile
  PROVE  ResponseInv'
<1>1. PICK path \in Paths, object \in Plain : fs' = [fs EXCEPT ![path] = object]
  BY DEF ChangeFile
<1>2. /\ pc = "idle" \/ ~Calm
      /\ UNCHANGED <<setting, pc, requestVars, nameVars, specialVars, encoding, statusCode,
                     fields, sentBody>>
      /\ UNCHANGED <<fileName, pathToFile, specialBody, specialBodyUsed>>
  BY DEF ChangeFile, Calm, nameVars, specialVars
<1>3. fs \in [Paths -> Objects] /\ object \in Objects
  BY PlainObjects DEF ResponseInv, TypeOK
<1>4. fs' \in [Paths -> Objects]
  BY <1>1, <1>3
<1>5. TypeOK'
  BY <1>2, <1>4, SettingStays DEF ResponseInv, TypeOK
<1>6. SiteInv'
  BY <1>1, <1>2, <1>3, PathsApart, SettingStays DEF ResponseInv, SiteInv
<1>7. RequestInv'
  BY <1>2, SettingStays DEF ResponseInv, RequestInv
<1>8. PathInv'
  BY <1>2, SettingStays DEF ResponseInv, PathInv, AtTarget
<1>9. SpecialInv'
  BY <1>2, SettingStays DEF ResponseInv, SpecialInv
<1>10. CalmInv'
  BY <1>2, SettingStays DEF CalmInv, ChoiceInv, AnswerInv, Answered
<1>11. SentInv'
  BY <1>2, SettingStays DEF ResponseInv, SentInv
<1> QED BY <1>5, <1>6, <1>7, <1>8, <1>9, <1>10, <1>11 DEF ResponseInv

LEMMA StutterKeepsInv ==
  ASSUME ResponseInv, UNCHANGED vars
  PROVE  ResponseInv'
<1>1. /\ UNCHANGED <<fs, setting, requestVars, nameVars, specialVars, encoding, statusCode, pc,
                     fields, sentBody>>
      /\ UNCHANGED <<fileName, pathToFile, specialBody, specialBodyUsed>>
  BY DEF vars, nameVars, specialVars
<1>2. TypeOK'
  BY <1>1, SettingStays DEF ResponseInv, TypeOK
<1>3. RequestInv'
  BY <1>1, SettingStays DEF ResponseInv, RequestInv
<1>4. PathInv'
  BY <1>1, SettingStays, NamedStays DEF ResponseInv, PathInv
<1>5. SpecialInv'
  BY <1>1, SettingStays DEF ResponseInv, SpecialInv
<1>6. CalmInv'
  <2>1. ChoiceInv => ChoiceInv'
    BY <1>1, NamedStays DEF ChoiceInv
  <2>2. AnswerInv => AnswerInv'
    BY <1>1, SettingStays, NamedStays DEF AnswerInv
  <2> QED BY <1>1, <2>1, <2>2, SettingStays DEF ResponseInv, CalmInv
<1>7. SentInv'
  BY <1>1, SettingStays DEF ResponseInv, SentInv, FileSize, FileExists
<1> QED BY <1>1, <1>2, <1>3, <1>4, <1>5, <1>6, <1>7, SiteStays DEF ResponseInv

----------------------------------------------------------------------------

(* Each step of generateResponse, sendBody and resetResponse leaves the    *)
(* response in agreement with the file system it has looked at             *)
(* (response.c:22-338, fileutil.c:89-131).                                 *)
THEOREM ResponseInvariant == Spec => []ResponseInv
<1>1. ResponseInv /\ [Next]_vars => ResponseInv'
  BY RequestKeepsInv, LoadFileKeepsInv, ListDirectoryKeepsInv, CompressFileKeepsInv,
     GzopenFailsKeepsInv, CheckExistsKeepsInv, Make404ResponseKeepsInv,
     GenerateResponseHeadersKeepsInv, SendBodyKeepsInv, ResetResponseKeepsInv,
     ChangeFileKeepsInv, StutterKeepsInv DEF Next
<1> QED BY InitResponseInv, <1>1, PTL DEF Spec

(* Whatever is served, the file system holds files, directories and        *)
(* streams of a length that some file had (fileutil.c:89-131).             *)
THEOREM ResponseTypeCorrect == Spec => []TypeOK
<1>1. ResponseInv => TypeOK
  BY DEF ResponseInv
<1> QED BY ResponseInvariant, <1>1, PTL

(* Content-Length is the length of the body when nothing changes meanwhile *)
(* (response.c:129-148, 203-221).                                          *)
THEOREM ResponseLengthMatchesBody == Spec => []LengthMatchesBody
<1>1. ResponseInv => LengthMatchesBody
  <2> SUFFICES ASSUME ResponseInv, pc = "sent", Calm PROVE fields.length = sentBody.length
    BY DEF LengthMatchesBody
  <2>1. CASE specialBodyUsed
    BY <2>1 DEF ResponseInv, SentInv
  <2>2. CASE ~specialBodyUsed
    <3>1. FileExists(pathToFile)
      BY <2>2 DEF ResponseInv, CalmInv, AnswerInv, Answered
    <3>2. fields.length = FileSize(pathToFile) /\ sentBody = fs[pathToFile]
      BY <2>2 DEF ResponseInv, SentInv
    <3> QED BY <3>1, <3>2 DEF FileSize
  <2> QED BY <2>1, <2>2
<1> QED BY ResponseInvariant, <1>1, PTL

(* A target that is there is answered 200 with what it names, whole, and   *)
(* gzipped just when the header says so (response.c:280-338).              *)
THEOREM ResponseBodyIsTarget == Spec => []BodyIsTarget
<1>1. ResponseInv => BodyIsTarget
  <2> SUFFICES ASSUME ResponseInv, pc = "sent", Calm PROVE BodyIsTarget
    BY DEF BodyIsTarget
  <2>1. /\ statusCode = 200 <=> Named.kind = "file" \/ Listed
        /\ statusCode = 404 => encoding = "none"
        /\ statusCode = 200 /\ Named.kind = "dir" => specialBodyUsed
        /\ statusCode = 200 /\ Named.kind = "file" =>
             (FlagIsSet => ~specialBodyUsed) /\ AtTarget /\ Streamed
    BY DEF ResponseInv, CalmInv, AnswerInv, Answered
  <2>2. fields.encoding = encoding
    BY DEF ResponseInv, SentInv
  <2>3. sentBody = IF specialBodyUsed
                   THEN [kind |-> "special", length |-> Len(specialBody), gz |-> FALSE, whole |-> TRUE]
                   ELSE fs[pathToFile]
    BY DEF ResponseInv, SentInv
  <2>4. statusCode = 200 /\ Named.kind = "dir" => sentBody.kind = "special"
    BY <2>1, <2>3
  <2>5. statusCode = 200 /\ Named.kind = "file" /\ FlagIsSet =>
          sentBody = IF fields.encoding = "gzip" THEN Compressed(Named, TRUE) ELSE Named
    <3> SUFFICES ASSUME statusCode = 200, Named.kind = "file", FlagIsSet
                 PROVE  sentBody = IF encoding = "gzip" THEN Compressed(Named, TRUE) ELSE Named
      BY <2>2
    <3>1. sentBody = fs[pathToFile] /\ AtTarget /\ Streamed
      BY <2>1, <2>3
    <3>2. CASE encoding = "gzip"
      <4>1. sentBody = fs[Gz(Asked)]
        BY <3>1, <3>2 DEF AtTarget
      <4>2. fs[Gz(Asked)] = Compressed(Named, TRUE)
        BY <3>1, <3>2 DEF Streamed
      <4> QED BY <3>2, <4>1, <4>2
    <3>3. CASE encoding # "gzip"
      BY <3>1, <3>3 DEF AtTarget, Named
    <3> QED BY <3>2, <3>3
  <2> QED BY <2>1, <2>2, <2>4, <2>5 DEF BodyIsTarget, Listed
<1> QED BY ResponseInvariant, <1>1, PTL

(* Whatever changes or fails, nothing of one response reaches the next     *)
(* (response.c:22-35).                                                     *)
THEOREM ResponseNothingCarriedOver == Spec => []NothingCarriedOver
<1>1. ResponseInv => NothingCarriedOver
  <2> SUFFICES ASSUME ResponseInv, pc = "sent" PROVE NothingCarriedOver
    BY DEF NothingCarriedOver
  <2>1. Len(specialBody) <= 1
    <3>1. /\ Len(<<>>) = 0 /\ Len(<<"listing">>) = 1
          /\ Len(<<"page">>) = 1 /\ Len(<<"not found">>) = 1
      OBVIOUS
    <3>2. \/ specialBody = <<>> \/ specialBody = <<"listing">>
          \/ specialBody = <<"page">> \/ specialBody = <<"not found">>
      BY DEF ResponseInv, SpecialInv, Answered
    <3> DEFINE n == Len(specialBody)
    <3>3. n = 0 \/ n = 1
      BY <3>1, <3>2, Zenon
    <3> HIDE DEF n
    <3>4. n <= 1
      BY <3>3
    <3> QED BY <3>4 DEF n
  <2>2. fields.encoding = "gzip" => acceptEncoding = "gzip"
    BY DEF ResponseInv, RequestInv, SentInv
  <2> QED BY <2>1, <2>2 DEF ResponseInv, SpecialInv, Answered, NothingCarriedOver
<1> QED BY ResponseInvariant, <1>1, PTL

=============================================================================
