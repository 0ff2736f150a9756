------------------------ MODULE ModelDownloadsProofs -------------------------
(***************************************************************************)
(* Proofs about ModelDownloads: for any models and any number of calls,    *)
(* whatever is cancelled, deleted, refused, asked again or fails, and      *)
(* wherever the process ends, what a download receives is whole, and what  *)
(* it reports is what it received or skipped, if nobody else had a hand on *)
(* it.                                                                     *)
(***************************************************************************)
EXTENDS ModelDownloads, TLAPS

-----------------------------------------------------------------------------
(* The inductive invariant *)

\* What the file of a Whisper model is while somebody writes to it.
Written == [1..2 -> {"empty", "right", "wrong"}]

\* What the variables of a download are.
WhisperShape ==
    /\ DOMAIN status = Models
    /\ file \in [Models -> Written \cup {Absent}]
    /\ pc \in [Calls -> Whisper!CallPCs]
    /\ model \in [Calls -> Models \cup {NoModel}]
    /\ got \in [Calls -> 0..2]
    /\ sound \in [Calls -> BOOLEAN]
    /\ attached \in [Calls -> BOOLEAN]

\* A call that is out has a model, receives only while it streams, and writes
\* to the directory only while there is a file.
OutForAModel(c) ==
    /\ pc[c] # "idle" => model[c] \in Models
    /\ pc[c] # "streaming" => got[c] = 0
    /\ attached[c] => pc[c] = "streaming" /\ file[model[c]] \in Written

\* The file of a call that nobody disturbed is the one in the directory and
\* holds what the call received.
HoldsWhatItGot(c) ==
    /\ attached[c]
    /\ sound[c] =>
         \A h \in 1..2 : h <= got[c] => file[model[c]][h] = "right"

WhisperCall(c) ==
    /\ OutForAModel(c)
    /\ pc[c] = "streaming" /\ c \notin disturbed => HoldsWhatItGot(c)

WhisperCalls == \A c \in Calls : WhisperCall(c)

WhisperInv == WhisperShape /\ WhisperCalls

\* What may be in a file of a Parakeet model.
Contents == SUBSET (0..4)

ParakeetShape ==
    /\ dir \in BOOLEAN
    /\ pFile \in [Parakeet!Files -> Contents]
    /\ pPc \in [Calls -> Parakeet!CallPCs]
    /\ at \in [Calls -> 1..3]
    /\ pGot \in [Calls -> 0..3]
    /\ append \in [Calls -> BOOLEAN]
    /\ pAttached \in [Calls -> BOOLEAN]
    /\ DOMAIN pScan = Parakeet!Tasks

\* What a call that has passed f leaves of it, and what it may find after.
Passed(c) ==
    \A f \in Parakeet!Files :
        /\ f < at[c] => pFile[f] \in {1..Parakeet!Enough, Parakeet!Parts}
        /\ f >= at[c] => pFile[f] \in Parakeet!Beginnings

\* The file that a call is at, from the request to its last bytes.
Beginning(c) ==
    /\ pPc[c] \in {"next", "sending"} => ~ append[c]
    /\ pPc[c] = "sending" =>
         pGot[c] = Parakeet!Size(at[c]) /\ pGot[c] < 2
    /\ pPc[c] = "opening" =>
         IF append[c] THEN pFile[at[c]] = {1} /\ pGot[c] = 1 ELSE pGot[c] = 0
    /\ pPc[c] = "streaming" =>
         pAttached[c] /\ pFile[at[c]] = {k \in Parakeet!Parts : k <= pGot[c]}

Downloading == {"next", "sending", "opening", "streaming"}

\* The directory of a call that nobody disturbed holds the files it has passed
\* and beginnings of the others.
OnItsWay(c) ==
    pPc[c] \in Downloading /\ c \notin pDisturbed => Passed(c) /\ Beginning(c)

\* A call appends and asks for bytes only where there is a file to download,
\* and waits for what it lists.
AtAFile(c) ==
    /\ pPc[c] \in {"sending", "opening", "streaming"} =>
         at[c] \in Parakeet!Files
    /\ pPc[c] \notin Downloading \cup {"leaving"} => ~ append[c]
    /\ pScan[c] # Parakeet!NotScanning => pPc[c] = "listing"

ParakeetCalls == \A c \in Calls : OnItsWay(c) /\ AtAFile(c)

ParakeetInv == ParakeetShape /\ ParakeetCalls

DownloadsInv ==
    /\ component \in {"whisper", "parakeet"}
    /\ component = "whisper" => WhisperInv
    /\ component = "parakeet" => ParakeetInv

-----------------------------------------------------------------------------
(* Whisper *)

\* Every step leaves the variables what they are.
LEMMA WhisperShapeKeeps ==
  ASSUME WhisperInv, Whisper!Next
  PROVE  WhisperShape'
  <1> USE DownloadsAssumption DEF WhisperInv, WhisperShape, Whisper!CallPCs,
        Whisper!SetStatus, Whisper!catalogVars, Whisper!callVars,
        Whisper!userVars, Whisper!Moves, Whisper!Ends, Whisper!Fails,
        Whisper!FailsCleanly, Whisper!RemoveFile, Whisper!Fault
  <1>1. ASSUME NEW c \in Calls, NEW m \in Models, Whisper!Download(c, m)
        PROVE  WhisperShape'
    BY <1>1 DEF Whisper!Download
  <1>2. ASSUME NEW c \in Calls, Whisper!EnterActive(c)
        PROVE  WhisperShape'
    BY <1>2 DEF Whisper!EnterActive
  <1>3. ASSUME NEW c \in Calls, Whisper!ClearFlag(c)
        PROVE  WhisperShape'
    BY <1>3 DEF Whisper!ClearFlag
  <1>4. ASSUME NEW c \in Calls, Whisper!SendRequest(c)
        PROVE  WhisperShape'
    <2>1. CASE Whisper!Moves(c, "opening")
      BY <1>4, <2>1 DEF Whisper!SendRequest
    <2>2. CASE Whisper!Ends(c)
      BY <1>4, <2>2 DEF Whisper!SendRequest
    <2> QED
      BY <1>4, <2>1, <2>2 DEF Whisper!SendRequest
  <1>5. ASSUME NEW c \in Calls, Whisper!CreateFile(c)
        PROVE  WhisperShape'
    <2>1. Whisper!Fresh \in Written
      BY DEF Whisper!Fresh, Written
    <2> QED
      BY <1>5, <2>1 DEF Whisper!CreateFile
  <1>6. ASSUME NEW c \in Calls, Whisper!Abandon(c)
        PROVE  WhisperShape'
    BY <1>6 DEF Whisper!Abandon
  <1>7. ASSUME NEW c \in Calls, Whisper!BreakOff(c)
        PROVE  WhisperShape'
    BY <1>7 DEF Whisper!BreakOff
  <1>8. ASSUME NEW c \in Calls, NEW right \in BOOLEAN,
               Whisper!ReceiveHalf(c, right)
        PROVE  WhisperShape'
    <2>1. /\ got[c] + 1 \in 1..2
          /\ got' = [got EXCEPT ![c] = got[c] + 1]
          /\ sound' = [sound EXCEPT ![c] = sound[c] /\ right]
          /\ DOMAIN status' = Models
          /\ pc' = pc /\ model' = model /\ attached' = attached
      BY <1>8 DEF Whisper!ReceiveHalf
    <2>2. sound' \in [Calls -> BOOLEAN] /\ got' \in [Calls -> 0..2]
      BY <2>1
    <2>3. file' \in [Models -> Written \cup {Absent}]
      <3>1. CASE ~ attached[c]
        BY <1>8, <3>1 DEF Whisper!ReceiveHalf
      <3>2. CASE attached[c]
        <4>1. file' = [file EXCEPT ![model[c]] =
                         [@ EXCEPT ![got[c] + 1] =
                            IF right THEN "right" ELSE "wrong"]]
          BY <1>8, <3>2 DEF Whisper!ReceiveHalf
        <4>2. model[c] \in Models /\ file[model[c]] \in Written
          BY <1>8, <3>2 DEF Whisper!ReceiveHalf, WhisperCalls, WhisperCall,
               OutForAModel
        <4>3. [file[model[c]] EXCEPT ![got[c] + 1] =
                 IF right THEN "right" ELSE "wrong"] \in Written
          BY <2>1, <4>2 DEF Written
        <4> QED
          BY <4>1, <4>2, <4>3
      <3> QED
        BY <3>1, <3>2
    <2> QED
      BY <2>1, <2>2, <2>3
  <1>9. ASSUME NEW c \in Calls, Whisper!Complete(c)
        PROVE  WhisperShape'
    <2>1. /\ Whisper!Ends(c)
          /\ DOMAIN status' = Models
      BY <1>9 DEF Whisper!Complete
    <2>2. /\ pc' \in [Calls -> Whisper!CallPCs]
          /\ model' \in [Calls -> Models \cup {NoModel}]
          /\ got' \in [Calls -> 0..2] /\ sound' \in [Calls -> BOOLEAN]
      BY <2>1
    <2>3. /\ file' \in [Models -> Written \cup {Absent}]
          /\ attached' \in [Calls -> BOOLEAN]
      BY <1>9 DEF Whisper!Complete
    <2> QED
      BY <2>1, <2>2, <2>3
  <1>10. ASSUME NEW m \in Models, Whisper!CancelDownload(m)
         PROVE  WhisperShape'
    BY <1>10 DEF Whisper!CancelDownload
  <1>11. ASSUME NEW m \in Models, Whisper!ForgetDownload(m)
         PROVE  WhisperShape'
    BY <1>11 DEF Whisper!ForgetDownload
  <1>12. ASSUME NEW m \in Models, Whisper!RemoveCancelled(m)
         PROVE  WhisperShape'
    BY <1>12 DEF Whisper!RemoveCancelled
  <1>13. ASSUME NEW m \in Models, Whisper!DeleteFile(m)
         PROVE  WhisperShape'
    BY <1>13 DEF Whisper!DeleteFile
  <1>14. ASSUME NEW m \in Models, Whisper!DeleteStatus(m)
         PROVE  WhisperShape'
    BY <1>14 DEF Whisper!DeleteStatus
  <1>15. ASSUME NEW m \in Models, Whisper!ScanModel(m)
         PROVE  WhisperShape'
    BY <1>15 DEF Whisper!ScanModel
  <1>16. CASE Whisper!PublishScan
    BY <1>16 DEF Whisper!PublishScan
  <1>17. CASE Whisper!Restart
    BY <1>17 DEF Whisper!Restart
  <1> QED
    BY <1>1, <1>2, <1>3, <1>4, <1>5, <1>6, <1>7, <1>8, <1>9, <1>10, <1>11,
       <1>12, <1>13, <1>14, <1>15, <1>16, <1>17
    DEF Whisper!Next, Whisper!CallStep, Whisper!CancelCommand,
        Whisper!DeleteCommand, Whisper!ListModels


\* What a step does to the others: a call it leaves where it was is disturbed,
\* or its file is as it was.
LEMMA WhisperCallsKeep ==
  ASSUME WhisperInv, Whisper!Next
  PROVE  WhisperCalls'
  <1> SUFFICES ASSUME NEW d \in Calls
               PROVE  WhisperCall(d)'
    BY DEF WhisperCalls
  <1>d. WhisperCall(d)
    BY DEF WhisperInv, WhisperCalls
  <1> DEFINE Kept == WhisperCall(d)'
  <1> USE <1>d, DownloadsAssumption DEF WhisperInv, WhisperShape,
        Whisper!CallPCs, Whisper!SetStatus, Whisper!catalogVars,
        Whisper!callVars, Whisper!userVars, Whisper!Moves, Whisper!Ends,
        Whisper!Fails, Whisper!FailsCleanly, Whisper!RemoveFile,
        Whisper!Fault, WhisperCall, OutForAModel, HoldsWhatItGot
  <1>1. ASSUME NEW c \in Calls, NEW m \in Models, Whisper!Download(c, m)
        PROVE  Kept
    BY <1>1 DEF Whisper!Download
  <1>2. ASSUME NEW c \in Calls, Whisper!EnterActive(c)
        PROVE  Kept
    BY <1>2 DEF Whisper!EnterActive
  <1>3. ASSUME NEW c \in Calls, Whisper!ClearFlag(c)
        PROVE  Kept
    BY <1>3 DEF Whisper!ClearFlag
  <1>4. ASSUME NEW c \in Calls, Whisper!SendRequest(c)
        PROVE  Kept
    <2>1. CASE Whisper!Moves(c, "opening")
      BY <1>4, <2>1 DEF Whisper!SendRequest
    <2>2. CASE Whisper!Ends(c)
      BY <1>4, <2>2 DEF Whisper!SendRequest
    <2> QED
      BY <1>4, <2>1, <2>2 DEF Whisper!SendRequest
  <1>5. ASSUME NEW c \in Calls, Whisper!CreateFile(c)
        PROVE  Kept
    <2>1. Whisper!Fresh \in Written
      BY DEF Whisper!Fresh, Written
    <2> QED
      BY <1>5, <2>1 DEF Whisper!CreateFile, Whisper!Surprised, Whisper!Holders
  <1>6. ASSUME NEW c \in Calls, Whisper!Abandon(c)
        PROVE  Kept
    BY <1>6 DEF Whisper!Abandon
  <1>7. ASSUME NEW c \in Calls, Whisper!BreakOff(c)
        PROVE  Kept
    BY <1>7 DEF Whisper!BreakOff
  <1>8. ASSUME NEW c \in Calls, NEW right \in BOOLEAN,
               Whisper!ReceiveHalf(c, right)
        PROVE  Kept
    BY <1>8 DEF Whisper!ReceiveHalf, Written, Whisper!Surprised, Whisper!Holders
  <1>9. ASSUME NEW c \in Calls, Whisper!Complete(c)
        PROVE  Kept
    <2>1. CASE Whisper!DigestMatches(c)
      BY <1>9, <2>1 DEF Whisper!Complete
    <2>2. CASE ~ Whisper!DigestMatches(c)
      BY <1>9, <2>2 DEF Whisper!Complete, Whisper!Surprised, Whisper!Holders
    <2> QED
      BY <2>1, <2>2
  <1>10. ASSUME NEW m \in Models, Whisper!CancelDownload(m)
         PROVE  Kept
    BY <1>10 DEF Whisper!CancelDownload
  <1>11. ASSUME NEW m \in Models, Whisper!ForgetDownload(m)
         PROVE  Kept
    BY <1>11 DEF Whisper!ForgetDownload
  <1>12. ASSUME NEW m \in Models, Whisper!RemoveCancelled(m)
         PROVE  Kept
    BY <1>12 DEF Whisper!RemoveCancelled, Whisper!Surprised, Whisper!Holders
  <1>13. ASSUME NEW m \in Models, Whisper!DeleteFile(m)
         PROVE  Kept
    BY <1>13 DEF Whisper!DeleteFile, Whisper!Surprised, Whisper!Holders
  <1>14. ASSUME NEW m \in Models, Whisper!DeleteStatus(m)
         PROVE  Kept
    BY <1>14 DEF Whisper!DeleteStatus
  <1>15. ASSUME NEW m \in Models, Whisper!ScanModel(m)
         PROVE  Kept
    BY <1>15 DEF Whisper!ScanModel, Whisper!Scanning
  <1>16. ASSUME Whisper!PublishScan
         PROVE  Kept
    BY <1>16 DEF Whisper!PublishScan
  <1>17. ASSUME Whisper!Restart
         PROVE  Kept
    BY <1>17 DEF Whisper!Restart
  <1> HIDE <1>d, DownloadsAssumption DEF WhisperInv, WhisperShape,
        Whisper!CallPCs, Whisper!SetStatus, Whisper!catalogVars,
        Whisper!callVars, Whisper!userVars, Whisper!Moves, Whisper!Ends,
        Whisper!Fails, Whisper!FailsCleanly, Whisper!RemoveFile,
        Whisper!Fault, OutForAModel, HoldsWhatItGot, Kept
  <1> QED
    <2>1. Kept
      <3>1. CASE \E c \in Calls : Whisper!CallStep(c)
        BY <1>2, <1>3, <1>4, <1>5, <1>6, <1>7, <1>8, <1>9, <3>1, Zenon
        DEF Whisper!CallStep
      <3>2. CASE \E m \in Models :
                   \/ Whisper!CancelCommand(m) \/ Whisper!DeleteCommand(m)
                   \/ Whisper!ScanModel(m)
        BY <1>10, <1>11, <1>12, <1>13, <1>14, <1>15, <3>2
        DEF Whisper!CancelCommand, Whisper!DeleteCommand
      <3>3. CASE \E c \in Calls, m \in Models : Whisper!Download(c, m)
        BY <1>1, <3>3, Zenon
      <3>4. \/ \E c \in Calls : Whisper!CallStep(c)
            \/ \E c \in Calls, m \in Models : Whisper!Download(c, m)
            \/ \E m \in Models :
                 \/ Whisper!CancelCommand(m) \/ Whisper!DeleteCommand(m)
                 \/ Whisper!ScanModel(m)
            \/ Whisper!PublishScan
            \/ Whisper!Restart
        BY Zenon DEF Whisper!Next, Whisper!ListModels
      <3> QED
        BY <1>16, <1>17, <3>1, <3>2, <3>3, <3>4, Zenon
    <2> QED
      BY <2>1 DEF Kept

\* Success is reported only of a download whose bytes are all there, and right.
LEMMA WhisperCompletesWhole ==
  ASSUME WhisperInv, NEW c \in Calls, Whisper!Complete(c),
         status'[model[c]] = "available", c \notin disturbed
  PROVE  Whisper!Whole(file[model[c]])
  <1>1. pc[c] = "streaming" /\ model[c] \in Models /\ got[c] = 2
    BY DEF Whisper!Complete, WhisperInv, WhisperShape, WhisperCalls,
           WhisperCall, OutForAModel
  <1>2. Whisper!DigestMatches(c)
    BY <1>1 DEF Whisper!Complete, Whisper!SetStatus, WhisperInv, WhisperShape
  <1>3. /\ file[model[c]] \in Written
        /\ \A h \in 1..2 : file[model[c]][h] = "right"
    BY <1>1, <1>2 DEF Whisper!DigestMatches, WhisperInv, WhisperShape,
         WhisperCalls, WhisperCall, OutForAModel, HoldsWhatItGot
  <1> QED
    BY <1>3 DEF Whisper!Whole, Written

\* What does not move stays as it was.
LEMMA WhisperStays ==
  ASSUME WhisperInv, UNCHANGED whisperVars
  PROVE  WhisperInv'
  BY DEF WhisperInv, WhisperShape, WhisperCalls, WhisperCall, OutForAModel,
         HoldsWhatItGot, whisperVars

\* Nothing runs at first.
LEMMA WhisperBegins == Whisper!Init => WhisperInv
  BY DEF Whisper!Init, WhisperInv, WhisperShape, WhisperCalls, WhisperCall,
         OutForAModel, HoldsWhatItGot, Whisper!CallPCs

-----------------------------------------------------------------------------
(* Parakeet *)

\* The sizes of the beginnings of a file.
LEMMA SizeOfBeginning ==
  ASSUME NEW f, pFile[f] \in Parakeet!Beginnings
  PROVE  /\ pFile[f] = Parakeet!NoFile => Parakeet!Size(f) = 0
         /\ pFile[f] = {} => Parakeet!Size(f) = 0
         /\ pFile[f] = {1} => Parakeet!Size(f) = 1
         /\ pFile[f] = {1, 2} => Parakeet!Size(f) = 2
         /\ pFile[f] = Parakeet!Parts => Parakeet!Size(f) = 3
  <1>1. CASE pFile[f] \in {Parakeet!NoFile, {}}
    BY <1>1 DEF Parakeet!Size, Parakeet!NoFile, Parakeet!Parts
  <1>2. CASE pFile[f] = {1}
    BY <1>2 DEF Parakeet!Size, Parakeet!NoFile, Parakeet!Parts
  <1>3. CASE pFile[f] = {1, 2}
    <2>1. \A n \in {1, 2} : (\A k \in {1, 2} : k <= n) <=> n = 2
      OBVIOUS
    <2> QED
      BY <1>3, <2>1 DEF Parakeet!Size, Parakeet!NoFile, Parakeet!Parts
  <1>4. CASE pFile[f] = Parakeet!Parts
    <2>1. \A n \in 1..3 : (\A k \in 1..3 : k <= n) <=> n = 3
      OBVIOUS
    <2>2. 1..3 # {} /\ 1..3 # {0} /\ 3 \in 1..3
      OBVIOUS
    <2> QED
      BY <1>4, <2>1, <2>2 DEF Parakeet!Size, Parakeet!NoFile, Parakeet!Parts
  <1>5. {1, 2} # Parakeet!Parts /\ {1} # Parakeet!Parts
    <2>1. 3 \in Parakeet!Parts /\ 3 \notin {1, 2} /\ 3 \notin {1}
      BY DEF Parakeet!Parts
    <2> QED
      BY <2>1
  <1> QED
    BY <1>1, <1>2, <1>3, <1>4, <1>5 DEF Parakeet!Beginnings

\* A file is no longer than what was written past its end.
LEMMA SizeType ==
  ASSUME ParakeetShape, NEW f \in Parakeet!Files
  PROVE  Parakeet!Size(f) \in 0..4
  <1>1. CASE pFile[f] \in {Parakeet!NoFile, {}}
    BY <1>1 DEF Parakeet!Size
  <1>2. CASE pFile[f] \notin {Parakeet!NoFile, {}}
    <2>1. pFile[f] \subseteq 0..4 /\ pFile[f] # {}
      BY <1>2 DEF ParakeetShape, Contents
    <2>2. \E n \in pFile[f] : \A k \in pFile[f] : k <= n
      BY <2>1
    <2> QED
      BY <1>2, <2>1, <2>2 DEF Parakeet!Size
  <1> QED
    BY <1>1, <1>2

\* What the steps do to the contents of a file.
LEMMA ContentsChange ==
  /\ {} \in Contents /\ Parakeet!NoFile \in Contents
  /\ \A x \in Contents, k \in 0..4 : x \cup {k} \in Contents
  <1>1. {} \in Contents /\ Parakeet!NoFile \in Contents
    BY DEF Contents, Parakeet!NoFile
  <1>2. ASSUME NEW x \in Contents, NEW k \in 0..4
        PROVE  x \cup {k} \in Contents
    BY DEF Contents
  <1> QED
    BY <1>1, <1>2

\* Every step leaves the variables what they are.
LEMMA ParakeetShapeKeeps ==
  ASSUME ParakeetInv, Parakeet!Next
  PROVE  ParakeetShape'
  <1>a. \A f \in Parakeet!Files : Parakeet!Size(f) \in 0..4
    BY SizeType DEF ParakeetInv
  <1>b. \A c \in Calls : AtAFile(c)
    BY DEF ParakeetInv, ParakeetCalls
  <1> USE ContentsChange DEF ParakeetInv, ParakeetShape, Parakeet!CallPCs,
        Parakeet!Files,
        Parakeet!catalogVars, Parakeet!diskVars, Parakeet!callVars,
        Parakeet!userVars, Parakeet!bounds, Parakeet!Moves
  <1>1. ASSUME NEW c \in Calls, Parakeet!ForgetActive(c)
        PROVE  ParakeetShape'
    BY <1>1 DEF Parakeet!ForgetActive
  <1>2. ASSUME NEW c \in Calls, Parakeet!ForceMissing(c)
        PROVE  ParakeetShape'
    BY <1>2 DEF Parakeet!ForceMissing
  <1>3. ASSUME NEW c \in Calls, Parakeet!CheckActive(c)
        PROVE  ParakeetShape'
    BY <1>3 DEF Parakeet!CheckActive
  <1>4. ASSUME NEW c \in Calls, Parakeet!EnterActive(c)
        PROVE  ParakeetShape'
    BY <1>4 DEF Parakeet!EnterActive
  <1>5. ASSUME NEW c \in Calls, Parakeet!ClearFlag(c)
        PROVE  ParakeetShape'
    BY <1>5 DEF Parakeet!ClearFlag
  <1>6. ASSUME NEW c \in Calls, Parakeet!CleanDirectory(c)
        PROVE  ParakeetShape'
    <2>1. PICK kept \in SUBSET Parakeet!Files :
            /\ \/ pFile' = pFile /\ pAttached' = pAttached
               \/ /\ pFile' = [f \in Parakeet!Files |->
                               IF f \in kept THEN pFile[f]
                                             ELSE Parakeet!NoFile]
                  /\ pAttached' = [d \in Calls |->
                                     pAttached[d] /\ at[d] \in kept]
      BY <1>6 DEF Parakeet!CleanDirectory
    <2>2. /\ pFile' \in [Parakeet!Files -> Contents]
          /\ pAttached' \in [Calls -> BOOLEAN]
      BY <2>1
    <2>3. /\ dir' = TRUE /\ pGot' = pGot /\ append' = append
          /\ at' = [at EXCEPT ![c] = 1] /\ pPc' = [pPc EXCEPT ![c] = "next"]
          /\ pScan' = pScan
      BY <1>6 DEF Parakeet!CleanDirectory
    <2>4. at' \in [Calls -> 1..3]
      BY <2>3
    <2> QED
      BY <2>2, <2>3, <2>4
  <1>7. ASSUME NEW c \in Calls, Parakeet!NextFile(c)
        PROVE  ParakeetShape'
    <2>1. at[c] \in Parakeet!Files /\ Parakeet!Size(at[c]) \in 0..4
      BY <1>a, <1>7 DEF Parakeet!NextFile
    <2>2. PICK n \in 0..4 : n = Parakeet!Size(at[c])
      BY <2>1
    <2> USE DEF Parakeet!Enough
    <2>3. at[c] + 1 \in 1..3
      BY <2>1
    <2>4. CASE n >= 2
      <3>1. at' = [at EXCEPT ![c] = at[c] + 1] /\ pPc' = pPc /\ pGot' = pGot
        BY <1>7, <2>2, <2>4 DEF Parakeet!NextFile
      <3> QED
        BY <1>7, <2>3, <3>1 DEF Parakeet!NextFile
    <2>5. CASE n < 2
      <3>1. /\ at' = at /\ pPc' = [pPc EXCEPT ![c] = "sending"]
            /\ pGot' = [pGot EXCEPT ![c] = n]
        BY <1>7, <2>2, <2>5 DEF Parakeet!NextFile
      <3> QED
        BY <1>7, <2>5, <3>1 DEF Parakeet!NextFile
    <2> QED
      BY <2>4, <2>5
  <1>8. ASSUME NEW c \in Calls, Parakeet!SendRequest(c)
        PROVE  ParakeetShape'
    <2>1. CASE Parakeet!Fails(c) \/ Parakeet!FailsCleanly(c)
      <3>1. /\ dir' = dir /\ pPc' = [pPc EXCEPT ![c] = "idle"]
            /\ pGot' = [pGot EXCEPT ![c] = 0]
            /\ append' = [append EXCEPT ![c] = FALSE]
            /\ pAttached' = [pAttached EXCEPT ![c] = FALSE]
            /\ at' = [at EXCEPT ![c] = 1]
            /\ pScan' = pScan
        BY <1>8, <2>1 DEF Parakeet!SendRequest, Parakeet!Fails,
             Parakeet!FailsCleanly
      <3>2. \/ pFile' = pFile
            \/ pFile' = [pFile EXCEPT ![at[c]] = Parakeet!NoFile]
        BY <1>8 DEF Parakeet!SendRequest
      <3> QED
        BY <3>1, <3>2
    <2>2. CASE pPc' = [pPc EXCEPT ![c] = "opening"] /\ at' = at
      <3>1. \/ /\ append' = [append EXCEPT ![c] = pGot[c] > 0]
               /\ UNCHANGED <<pGot, pFile, pAttached>>
            \/ /\ pGot' = [pGot EXCEPT ![c] = 0]
               /\ UNCHANGED <<append, pFile, pAttached>>
            \/ /\ pGot' = [pGot EXCEPT ![c] = 0]
               /\ pFile' = [pFile EXCEPT ![at[c]] = Parakeet!NoFile]
               /\ pAttached' = [d \in Calls |-> pAttached[d] /\ at[d] # at[c]]
               /\ UNCHANGED append
        BY <1>8, <2>2 DEF Parakeet!SendRequest, Parakeet!Fails,
             Parakeet!FailsCleanly
      <3>2. dir' = dir /\ pPc' \in [Calls -> Parakeet!CallPCs]
        BY <1>8, <2>2 DEF Parakeet!SendRequest
      <3>3. pFile' = pFile \/ pFile' = [pFile EXCEPT ![at[c]] = Parakeet!NoFile]
        BY <3>1
      <3>4. pFile' \in [Parakeet!Files -> Contents]
        BY <3>3
      <3>5. pGot' = pGot \/ pGot' = [pGot EXCEPT ![c] = 0]
        BY <3>1
      <3>6. pGot' \in [Calls -> 0..3]
        BY <3>5
      <3>7. append' \in [Calls -> BOOLEAN]
        <4>1. \/ append' = append
              \/ append' = [append EXCEPT ![c] = TRUE]
              \/ append' = [append EXCEPT ![c] = FALSE]
          BY <3>1
        <4> QED
          BY <4>1
      <3>9. pAttached' \in [Calls -> BOOLEAN]
        <4>1. \/ pAttached' = pAttached
              \/ pAttached' = [d \in Calls |-> pAttached[d] /\ at[d] # at[c]]
          BY <3>1
        <4> QED
          BY <4>1
      <3>8. pScan' = pScan
        BY <1>8 DEF Parakeet!SendRequest
      <3> QED
        BY <2>2, <3>2, <3>4, <3>6, <3>7, <3>8, <3>9
    <2> QED
      BY <1>8, <2>1, <2>2 DEF Parakeet!SendRequest
  <1>9. ASSUME NEW c \in Calls, Parakeet!OpenFile(c)
        PROVE  ParakeetShape'
    <2>1. CASE Parakeet!Fails(c) /\ pFile' = pFile
      BY <1>9, <2>1 DEF Parakeet!OpenFile, Parakeet!Fails
    <2>2. CASE /\ pPc' = [pPc EXCEPT ![c] = "streaming"]
               /\ pAttached' = [pAttached EXCEPT ![c] = TRUE]
               /\ UNCHANGED <<dir, at, pGot, append, pScan>>
      <3>1. pFile' = pFile \/ pFile' = [pFile EXCEPT ![at[c]] = {}]
        BY <1>9 DEF Parakeet!OpenFile
      <3>2. pFile' \in [Parakeet!Files -> Contents]
        BY <3>1
      <3> QED
        BY <2>2, <3>2
    <2> QED
      BY <1>9, <2>1, <2>2 DEF Parakeet!OpenFile
  <1>10. ASSUME NEW c \in Calls, Parakeet!ReceivePart(c)
         PROVE  ParakeetShape'
    <2>1. at[c] \in Parakeet!Files /\ pGot[c] + 1 \in 1..3
      BY <1>b, <1>10 DEF Parakeet!ReceivePart, AtAFile
    <2>2. Parakeet!Written(c) \in Contents
      <3>1. PICK k \in 0..4 : Parakeet!Written(c) = pFile[at[c]] \cup {k}
        BY <2>1 DEF Parakeet!Written, Parakeet!Surplus
      <3>2. PICK x \in Contents : x = pFile[at[c]]
        BY <2>1
      <3>3. x \cup {k} \in Contents
        BY ContentsChange
      <3> QED
        BY <3>1, <3>2, <3>3
    <2>3. \/ pFile' = pFile
          \/ pFile' = [pFile EXCEPT ![at[c]] = Parakeet!Written(c)]
      BY <1>10 DEF Parakeet!ReceivePart
    <2>4. pFile' \in [Parakeet!Files -> Contents]
      BY <2>1, <2>2, <2>3
    <2>5. pGot' \in [Calls -> 0..3]
      BY <1>10, <2>1 DEF Parakeet!ReceivePart
    <2> QED
      BY <1>10, <2>4, <2>5 DEF Parakeet!ReceivePart
  <1>11. ASSUME NEW c \in Calls, Parakeet!EndFile(c)
         PROVE  ParakeetShape'
    <2>1. at[c] + 1 \in 1..3
      BY <1>b, <1>11 DEF Parakeet!EndFile, AtAFile
    <2> QED
      BY <1>11, <2>1 DEF Parakeet!EndFile
  <1>12. ASSUME NEW c \in Calls, Parakeet!BreakOff(c)
         PROVE  ParakeetShape'
    BY <1>12 DEF Parakeet!BreakOff, Parakeet!FailsCleanly
  <1>13. ASSUME NEW c \in Calls, Parakeet!Abandon(c)
         PROVE  ParakeetShape'
    BY <1>13 DEF Parakeet!Abandon, Parakeet!FailsCleanly
  <1>14. ASSUME NEW c \in Calls, Parakeet!Complete(c)
         PROVE  ParakeetShape'
    BY <1>14 DEF Parakeet!Complete
  <1>15. ASSUME NEW c \in Calls, Parakeet!LeaveActive(c)
         PROVE  ParakeetShape'
    BY <1>15 DEF Parakeet!LeaveActive, Parakeet!FailsCleanly
  <1>16. ASSUME NEW c \in Calls, NEW retry \in BOOLEAN,
               Parakeet!Ask(c, retry)
         PROVE  ParakeetShape'
    BY <1>16 DEF Parakeet!Ask
  <1>17. ASSUME NEW t \in Parakeet!Tasks, Parakeet!Scan(t)
         PROVE  ParakeetShape'
    BY <1>17 DEF Parakeet!Scan
  <1>18. ASSUME NEW t \in Parakeet!Tasks, Parakeet!PublishScan(t)
         PROVE  ParakeetShape'
    BY <1>18 DEF Parakeet!PublishScan
  <1>19. CASE Parakeet!CancelDownload
    BY <1>19 DEF Parakeet!CancelDownload
  <1>20. CASE Parakeet!ForgetDownload
    BY <1>20 DEF Parakeet!ForgetDownload
  <1>21. CASE Parakeet!RemoveCancelled
    BY <1>21 DEF Parakeet!RemoveCancelled, Parakeet!RemoveDirectory
  <1>22. CASE Parakeet!DeleteDirectory
    BY <1>22 DEF Parakeet!DeleteDirectory, Parakeet!RemoveDirectory
  <1>23. CASE Parakeet!DeleteStatus
    BY <1>23 DEF Parakeet!DeleteStatus
  <1>24. CASE Parakeet!OtherDownload
    BY <1>24 DEF Parakeet!OtherDownload
  <1>25. CASE Parakeet!Restart
    BY <1>25 DEF Parakeet!Restart
  <1> QED
    <2>1. CASE \E c \in Calls : Parakeet!CallStep(c)
      BY <1>1, <1>2, <1>3, <1>4, <1>5, <1>6, <1>7, <1>8, <1>9, <1>10, <1>11,
         <1>12, <1>13, <1>14, <1>15, <2>1, Zenon DEF Parakeet!CallStep
    <2>2. CASE \E c \in Calls, retry \in BOOLEAN : Parakeet!Ask(c, retry)
      BY <1>16, <2>2, Zenon
    <2>3. CASE \E t \in Parakeet!Tasks :
                 Parakeet!Scan(t) \/ Parakeet!PublishScan(t)
      BY <1>17, <1>18, <2>3, Zenon
    <2>4. CASE Parakeet!CancelCommand
      BY <1>19, <1>20, <1>21, <2>4, Zenon DEF Parakeet!CancelCommand
    <2>5. CASE Parakeet!DeleteCommand
      BY <1>22, <1>23, <2>5, Zenon DEF Parakeet!DeleteCommand
    <2>6. \/ \E c \in Calls : Parakeet!CallStep(c)
          \/ \E c \in Calls, retry \in BOOLEAN : Parakeet!Ask(c, retry)
          \/ \E t \in Parakeet!Tasks :
               Parakeet!Scan(t) \/ Parakeet!PublishScan(t)
          \/ Parakeet!CancelCommand \/ Parakeet!DeleteCommand
          \/ Parakeet!OtherDownload \/ Parakeet!Restart
      BY Zenon DEF Parakeet!Next, Parakeet!ListModels
    <2> QED
      BY <1>24, <1>25, <2>1, <2>2, <2>3, <2>4, <2>5, <2>6, Zenon

\* Whoever removes, truncates or writes to a file disturbs the calls that
\* count on it; a call alone goes from file to file.
LEMMA ParakeetCallsKeep ==
  ASSUME ParakeetInv, Parakeet!Next
  PROVE  ParakeetCalls'
  <1> SUFFICES ASSUME NEW d \in Calls
               PROVE  OnItsWay(d)' /\ AtAFile(d)'
    BY DEF ParakeetCalls
  <1>d. OnItsWay(d) /\ AtAFile(d)
    BY DEF ParakeetInv, ParakeetCalls
  <1> DEFINE Kept == OnItsWay(d)' /\ AtAFile(d)'
  <1> USE <1>d, DownloadsAssumption DEF ParakeetInv, ParakeetShape,
        Parakeet!CallPCs, Parakeet!Files, Parakeet!catalogVars,
        Parakeet!diskVars,
        Parakeet!callVars, Parakeet!userVars, Parakeet!bounds, Parakeet!Moves,
        Parakeet!Disturbs, Parakeet!Running, Parakeet!Size,
        OnItsWay, AtAFile, Downloading, Passed, Beginning
  <1>1. ASSUME NEW c \in Calls, Parakeet!ForgetActive(c)
        PROVE  Kept
    BY <1>1 DEF Parakeet!ForgetActive
  <1>2. ASSUME NEW c \in Calls, Parakeet!ForceMissing(c)
        PROVE  Kept
    BY <1>2 DEF Parakeet!ForceMissing
  <1>3. ASSUME NEW c \in Calls, Parakeet!CheckActive(c)
        PROVE  Kept
    BY <1>3 DEF Parakeet!CheckActive
  <1>4. ASSUME NEW c \in Calls, Parakeet!EnterActive(c)
        PROVE  Kept
    BY <1>4 DEF Parakeet!EnterActive
  <1>5. ASSUME NEW c \in Calls, Parakeet!ClearFlag(c)
        PROVE  Kept
    BY <1>5 DEF Parakeet!ClearFlag
  <1>6. ASSUME NEW c \in Calls, Parakeet!CleanDirectory(c)
        PROVE  Kept
    <2>1. CASE d = c
      <3>1. /\ pPc[c] = "cleaning" /\ pPc' = [pPc EXCEPT ![c] = "next"]
            /\ at' = [at EXCEPT ![c] = 1]
            /\ append' = append /\ pScan' = pScan
        BY <1>6 DEF Parakeet!CleanDirectory
      <3>2. c \notin pDisturbed' =>
              \A f \in Parakeet!Files : pFile'[f] \in Parakeet!Beginnings
        BY <1>6 DEF Parakeet!CleanDirectory, Parakeet!Beginnings
      <3> QED
        BY <2>1, <3>1, <3>2
    <2>2. CASE d # c
      <3>1. d \in Parakeet!Running => d \in pDisturbed'
        BY <1>6, <2>2 DEF Parakeet!CleanDirectory
      <3>2. /\ pPc'[d] = pPc[d] /\ at'[d] = at[d]
            /\ append' = append /\ pScan' = pScan
        BY <1>6, <2>2 DEF Parakeet!CleanDirectory
      <3> QED
        BY <3>1, <3>2
    <2> QED
      BY <2>1, <2>2
  <1>7. ASSUME NEW c \in Calls, Parakeet!NextFile(c)
        PROVE  Kept
    <2>1. CASE d # c
      <3>1. /\ pPc'[d] = pPc[d] /\ at'[d] = at[d] /\ pGot'[d] = pGot[d]
            /\ UNCHANGED <<append, pAttached, pFile, pScan, pDisturbed>>
        <4>1. CASE Parakeet!Size(at[c]) >= Parakeet!Enough
          BY <1>7, <2>1, <4>1 DEF Parakeet!NextFile
        <4>2. CASE ~ (Parakeet!Size(at[c]) >= Parakeet!Enough)
          BY <1>7, <2>1, <4>2 DEF Parakeet!NextFile
        <4> QED
          BY <4>1, <4>2
      <3> QED
        BY <3>1
    <2>2. CASE d = c
      <3>1. at[c] \in Parakeet!Files /\ pPc[c] = "next"
        BY <1>7 DEF Parakeet!NextFile
      <3>2. CASE c \in pDisturbed
        BY <1>7, <2>2, <3>1, <3>2 DEF Parakeet!NextFile
      <3>3. CASE c \notin pDisturbed
        <4>1. Passed(c) /\ ~ append[c] /\ pFile[at[c]] \in Parakeet!Beginnings
          BY <2>2, <3>1, <3>3
        <4>2. PICK n \in 0..3 :
                /\ n = Parakeet!Size(at[c])
                /\ n >= 2 => pFile[at[c]] \in {1..Parakeet!Enough,
                                               Parakeet!Parts}
          <5> HIDE DEF Parakeet!Size
          <5>1. {1, 2} \in {1..Parakeet!Enough, Parakeet!Parts}
            <6>1. 1..Parakeet!Enough = {1, 2}
              BY DEF Parakeet!Enough
            <6> QED
              BY <6>1, Zenon
          <5>2. \/ /\ Parakeet!Size(at[c]) \in 0..1
                \/ /\ Parakeet!Size(at[c]) \in 2..3
                   /\ pFile[at[c]] \in {{1, 2}, Parakeet!Parts}
            BY <4>1, SizeOfBeginning DEF Parakeet!Beginnings
          <5>3. pFile[at[c]] \in {{1, 2}, Parakeet!Parts} =>
                  pFile[at[c]] \in {1..Parakeet!Enough, Parakeet!Parts}
            BY <5>1, Zenon
          <5>4. \E n \in 0..3 : n = Parakeet!Size(at[c])
            BY <5>2
          <5> QED
            BY <5>2, <5>3, <5>4
        <4>3. CASE n >= 2
          <5>1. /\ at' = [at EXCEPT ![c] = at[c] + 1]
                /\ UNCHANGED <<pPc, pGot, pFile, append, pScan, pDisturbed>>
            <6> HIDE DEF Parakeet!Size
            <6>1. Parakeet!Size(at[c]) >= Parakeet!Enough
              BY <4>2, <4>3 DEF Parakeet!Enough
            <6> QED
              BY <1>7, <6>1 DEF Parakeet!NextFile
          <5> QED
            BY <2>2, <3>1, <4>1, <4>2, <4>3, <5>1
        <4>4. CASE n < 2
          <5>1. /\ pPc' = [pPc EXCEPT ![c] = "sending"]
                /\ pGot' = [pGot EXCEPT ![c] = n]
                /\ UNCHANGED <<at, pFile, append, pScan, pDisturbed>>
            <6> HIDE DEF Parakeet!Size
            <6>1. ~ (Parakeet!Size(at[c]) >= Parakeet!Enough)
              BY <4>2, <4>4 DEF Parakeet!Enough
            <6> QED
              BY <1>7, <4>2, <6>1 DEF Parakeet!NextFile
          <5> QED
            BY <2>2, <3>1, <4>1, <4>2, <4>4, <5>1
        <4> QED
          BY <4>3, <4>4
      <3> QED
        BY <3>2, <3>3
    <2> QED
      BY <2>1, <2>2
  <1>8. ASSUME NEW c \in Calls, Parakeet!SendRequest(c)
        PROVE  Kept
    <2>1. CASE d # c
      <3>1. \/ /\ pFile' = pFile /\ pDisturbed' = pDisturbed
               /\ pAttached'[d] = pAttached[d]
            \/ d \in Parakeet!Running => d \in pDisturbed'
        BY <1>8, <2>1 DEF Parakeet!SendRequest, Parakeet!Fails,
             Parakeet!FailsCleanly
      <3>2. pPc'[d] = pPc[d] /\ at'[d] = at[d] /\ pGot'[d] = pGot[d]
        BY <1>8, <2>1 DEF Parakeet!SendRequest, Parakeet!Fails,
             Parakeet!FailsCleanly
      <3>3. append'[d] = append[d] /\ pScan' = pScan
        BY <1>8, <2>1 DEF Parakeet!SendRequest, Parakeet!Fails,
             Parakeet!FailsCleanly
      <3> QED
        BY <3>1, <3>2, <3>3
    <2>2. CASE d = c /\ (Parakeet!Fails(c) \/ Parakeet!FailsCleanly(c))
      <3>1. /\ pPc'[c] = "idle" /\ append'[c] = FALSE
            /\ pScan' = pScan /\ pPc[c] = "sending"
        BY <1>8, <2>2 DEF Parakeet!SendRequest, Parakeet!Fails,
             Parakeet!FailsCleanly
      <3> QED
        BY <2>2, <3>1
    <2>3. CASE d = c /\ pPc' = [pPc EXCEPT ![c] = "opening"] /\ at' = at
      <3>1. /\ pPc[c] = "sending" /\ pScan' = pScan
            /\ c \in pDisturbed => c \in pDisturbed'
        BY <1>8 DEF Parakeet!SendRequest
      <3>2. \/ /\ append'[c] = (pGot[c] > 0)
               /\ UNCHANGED <<pGot, pFile>>
            \/ /\ pGot[c] > 0 /\ pGot'[c] = 0
               /\ UNCHANGED <<append, pFile>>
            \/ /\ pGot[c] > 0 /\ pGot'[c] = 0
               /\ pFile' = [pFile EXCEPT ![at[c]] = Parakeet!NoFile]
               /\ UNCHANGED append
        BY <1>8, <2>3 DEF Parakeet!SendRequest, Parakeet!Fails,
             Parakeet!FailsCleanly
      <3>3. CASE c \in pDisturbed
        BY <2>3, <3>1, <3>3
      <3>4. CASE c \notin pDisturbed
        <4>1. /\ Passed(c) /\ ~ append[c] /\ at[c] \in Parakeet!Files
              /\ pGot[c] = Parakeet!Size(at[c]) /\ pGot[c] < 2
          BY <2>3, <3>1, <3>4
        <4> HIDE DEF Parakeet!Size
        <4>2. PICK n \in 0..2 : n = pGot[c] /\ n < 2
          BY <4>1
        <4>3. pFile[at[c]] \in Parakeet!Beginnings
          BY <4>1
        <4>4. n > 0 => pFile[at[c]] = {1} /\ n = 1
          BY <4>1, <4>2, <4>3, SizeOfBeginning DEF Parakeet!Beginnings
        <4>5. pPc'[c] = "opening" /\ at'[c] = at[c]
          BY <2>3
        <4>6. IF append'[c] THEN pFile'[at[c]] = {1} /\ pGot'[c] = 1
                            ELSE pGot'[c] = 0
          <5>1. CASE n = 0
            <6>1. ~ append'[c] /\ pGot'[c] = 0
              BY <3>2, <4>1, <4>2, <5>1
            <6> QED
              BY <6>1
          <5>2. CASE n = 1
            <6>1. \/ append'[c] /\ pFile' = pFile /\ pGot' = pGot
                  \/ ~ append'[c] /\ pGot'[c] = 0
              <7>1. CASE /\ append'[c] = (pGot[c] > 0)
                         /\ UNCHANGED <<pGot, pFile>>
                <8>1. pGot[c] > 0
                  BY <4>2, <5>2
                <8> QED
                  BY <7>1, <8>1, Zenon
              <7>2. CASE pGot'[c] = 0 /\ append' = append
                BY <4>1, <7>2, Zenon
              <7> QED
                BY <3>2, <7>1, <7>2, Zenon
            <6>2. CASE append'[c] /\ pFile' = pFile /\ pGot' = pGot
              <7>1. pFile[at[c]] = {1} /\ pGot[c] = 1
                BY <4>2, <4>4, <5>2
              <7> QED
                BY <6>2, <7>1, Zenon
            <6>3. CASE ~ append'[c] /\ pGot'[c] = 0
              BY <6>3, Zenon
            <6> QED
              BY <6>1, <6>2, <6>3, Zenon
          <5> QED
            BY <4>2, <5>1, <5>2
        <4>7. Passed(c)'
          BY <3>2, <4>1, <4>5 DEF Parakeet!Beginnings
        <4>8. Beginning(c)'
          BY <4>1, <4>5, <4>6
        <4> QED
          BY <2>3, <3>1, <4>1, <4>5, <4>7, <4>8
      <3> QED
        BY <3>3, <3>4
    <2> QED
      BY <1>8, <2>1, <2>2, <2>3 DEF Parakeet!SendRequest
  <1>9. ASSUME NEW c \in Calls, Parakeet!OpenFile(c)
        PROVE  Kept
    <2>1. CASE d # c
      <3>1. \/ /\ pFile' = pFile /\ pDisturbed' = pDisturbed
               /\ pAttached'[d] = pAttached[d]
            \/ d \in Parakeet!Running => d \in pDisturbed'
        BY <1>9, <2>1 DEF Parakeet!OpenFile, Parakeet!Fails
      <3>2. /\ pPc'[d] = pPc[d] /\ at'[d] = at[d] /\ pGot'[d] = pGot[d]
            /\ append'[d] = append[d] /\ pScan' = pScan
        BY <1>9, <2>1 DEF Parakeet!OpenFile, Parakeet!Fails
      <3> QED
        BY <3>1, <3>2
    <2>2. CASE d = c /\ Parakeet!Fails(c)
      BY <1>9, <2>2 DEF Parakeet!OpenFile, Parakeet!Fails
    <2>3. CASE d = c /\ pPc' = [pPc EXCEPT ![c] = "streaming"]
      <3>1. /\ pPc[c] = "opening" /\ pScan' = pScan
            /\ pAttached'[c] = TRUE
            /\ UNCHANGED <<at, pGot, append>>
            /\ c \in pDisturbed => c \in pDisturbed'
            /\ IF append[c] THEN pFile' = pFile
                            ELSE pFile' = [pFile EXCEPT ![at[c]] = {}]
        BY <1>9, <2>3 DEF Parakeet!OpenFile, Parakeet!Fails, Parakeet!Resumes
      <3>2. {k \in Parakeet!Parts : k <= 1} = {1}
        BY DEF Parakeet!Parts
      <3>3. {k \in Parakeet!Parts : k <= 0} = {}
        BY DEF Parakeet!Parts
      <3>4. CASE c \in pDisturbed
        BY <2>3, <3>1, <3>4
      <3>5. CASE c \notin pDisturbed
        BY <2>3, <3>1, <3>2, <3>3, <3>5 DEF Parakeet!Beginnings
      <3> QED
        BY <3>4, <3>5
    <2> QED
      BY <1>9, <2>1, <2>2, <2>3 DEF Parakeet!OpenFile
  <1>10. ASSUME NEW c \in Calls, Parakeet!ReceivePart(c)
         PROVE  Kept
    <2>1. CASE d # c
      BY <1>10, <2>1 DEF Parakeet!ReceivePart
    <2>2. CASE d = c
      <3>1. /\ pPc[c] = "streaming" /\ pGot[c] \in 0..2
            /\ pGot' = [pGot EXCEPT ![c] = pGot[c] + 1]
            /\ UNCHANGED <<pPc, at, append, pAttached, pScan>>
            /\ c \in pDisturbed => c \in pDisturbed'
            /\ pAttached[c] =>
                 pFile' = [pFile EXCEPT ![at[c]] = Parakeet!Written(c)]
        BY <1>10 DEF Parakeet!ReceivePart
      <3>2. CASE c \in pDisturbed
        BY <2>2, <3>1, <3>2
      <3>3. CASE c \notin pDisturbed
        <4>1. /\ Passed(c) /\ at[c] \in Parakeet!Files /\ pAttached[c]
              /\ pFile[at[c]] = {k \in Parakeet!Parts : k <= pGot[c]}
          BY <2>2, <3>1, <3>3
        <4>2. pFile[at[c]] \in Parakeet!Beginnings
          <5>1. at[c] >= at[c]
            BY <4>1
          <5> QED
            BY <4>1, <5>1, Zenon
        <4>3. /\ pGot[c] = 0 => pFile[at[c]] = {}
              /\ pGot[c] = 1 => pFile[at[c]] = {1}
              /\ pGot[c] = 2 => pFile[at[c]] = {1, 2}
          BY <4>1 DEF Parakeet!Parts
        <4>4. Parakeet!Size(at[c]) = pGot[c]
          BY <3>1, <4>2, <4>3, SizeOfBeginning
        <4>5. Parakeet!Written(c) = pFile[at[c]] \cup {pGot[c] + 1}
          BY <4>4 DEF Parakeet!Written
        <4>6. Parakeet!Written(c) =
                {k \in Parakeet!Parts : k <= pGot[c] + 1}
          BY <3>1, <4>3, <4>5 DEF Parakeet!Parts
        <4>7. Parakeet!Written(c) \in Parakeet!Beginnings
          BY <3>1, <4>3, <4>5 DEF Parakeet!Beginnings, Parakeet!Parts
        <4> HIDE DEF Parakeet!Size
        <4>8. /\ pGot'[c] = pGot[c] + 1
              /\ pFile' = [pFile EXCEPT ![at[c]] = Parakeet!Written(c)]
          BY <3>1, <4>1
        <4>9. Passed(c)'
          BY <3>1, <4>1, <4>7, <4>8
        <4>10. Beginning(c)'
          <5>1. pFile'[at[c]] = {k \in Parakeet!Parts : k <= pGot'[c]}
            BY <4>1, <4>6, <4>8
          <5> QED
            BY <3>1, <4>1, <5>1
        <4> QED
          BY <2>2, <3>1, <4>1, <4>9, <4>10
      <3> QED
        BY <3>2, <3>3
    <2> QED
      BY <2>1, <2>2
  <1>11. ASSUME NEW c \in Calls, Parakeet!EndFile(c)
         PROVE  Kept
    <2>1. CASE d # c
      BY <1>11, <2>1 DEF Parakeet!EndFile
    <2>2. CASE d = c
      <3>1. pPc[c] = "streaming" /\ pGot[c] = 3 /\ at[c] \in Parakeet!Files
        BY <1>11, <2>2 DEF Parakeet!EndFile
      <3>2. {k \in Parakeet!Parts : k <= 3} = Parakeet!Parts
        BY DEF Parakeet!Parts
      <3>3. /\ at' = [at EXCEPT ![c] = at[c] + 1]
            /\ pPc' = [pPc EXCEPT ![c] = "next"]
            /\ append' = [append EXCEPT ![c] = FALSE]
            /\ UNCHANGED <<pFile, pScan, pDisturbed>>
        BY <1>11 DEF Parakeet!EndFile
      <3>4. ASSUME c \notin pDisturbed PROVE Passed(c)'
        <4>1. Passed(c) /\ pFile[at[c]] = Parakeet!Parts
          BY <2>2, <3>1, <3>2, <3>4
        <4> SUFFICES ASSUME NEW f \in Parakeet!Files
                     PROVE  /\ f < at[c] + 1 => pFile[f] \in
                                 {1..Parakeet!Enough, Parakeet!Parts}
                            /\ f >= at[c] + 1 =>
                                 pFile[f] \in Parakeet!Beginnings
          BY <3>1, <3>3
        <4>2. CASE f = at[c]
          <5>1. ~ (f >= at[c] + 1)
            BY <3>1, <4>2
          <5> QED
            BY <4>1, <4>2, <5>1, Zenon
        <4>3. CASE f # at[c]
          <5>1. /\ f < at[c] + 1 => f < at[c]
                /\ f >= at[c] + 1 => f >= at[c]
            BY <3>1, <4>3
          <5> QED
            BY <4>1, <5>1, Zenon
        <4> QED
          BY <4>2, <4>3
      <3> QED
        <4>1. AtAFile(d)'
          BY <2>2, <3>1, <3>3
        <4>2. c \notin pDisturbed => Beginning(c)'
          BY <3>1, <3>3
        <4>3. OnItsWay(d)'
          <5> HIDE DEF Passed, Beginning
          <5> QED
            BY <2>2, <3>3, <3>4, <4>2
        <4> QED
          BY <4>1, <4>3
    <2> QED
      BY <2>1, <2>2
  <1>12. ASSUME NEW c \in Calls, Parakeet!BreakOff(c)
         PROVE  Kept
    BY <1>12 DEF Parakeet!BreakOff, Parakeet!FailsCleanly
  <1>13. ASSUME NEW c \in Calls, Parakeet!Abandon(c)
         PROVE  Kept
    BY <1>13 DEF Parakeet!Abandon, Parakeet!FailsCleanly
  <1>14. ASSUME NEW c \in Calls, Parakeet!Complete(c)
         PROVE  Kept
    BY <1>14 DEF Parakeet!Complete
  <1>15. ASSUME NEW c \in Calls, Parakeet!LeaveActive(c)
         PROVE  Kept
    BY <1>15 DEF Parakeet!LeaveActive, Parakeet!FailsCleanly
  <1>16. ASSUME NEW c \in Calls, NEW retry \in BOOLEAN,
               Parakeet!Ask(c, retry)
         PROVE  Kept
    BY <1>16 DEF Parakeet!Ask
  <1>17. ASSUME NEW t \in Parakeet!Tasks, Parakeet!Scan(t)
         PROVE  Kept
    BY <1>17 DEF Parakeet!Scan
  <1>18. ASSUME NEW t \in Parakeet!Tasks, Parakeet!PublishScan(t)
         PROVE  Kept
    BY <1>18 DEF Parakeet!PublishScan
  <1>19. ASSUME Parakeet!CancelDownload
         PROVE  Kept
    BY <1>19 DEF Parakeet!CancelDownload
  <1>20. ASSUME Parakeet!ForgetDownload
         PROVE  Kept
    BY <1>20 DEF Parakeet!ForgetDownload
  <1>21. ASSUME Parakeet!RemoveCancelled
         PROVE  Kept
    BY <1>21 DEF Parakeet!RemoveCancelled, Parakeet!RemoveDirectory
  <1>22. ASSUME Parakeet!DeleteDirectory
         PROVE  Kept
    BY <1>22 DEF Parakeet!DeleteDirectory, Parakeet!RemoveDirectory
  <1>23. ASSUME Parakeet!DeleteStatus
         PROVE  Kept
    BY <1>23 DEF Parakeet!DeleteStatus
  <1>24. ASSUME Parakeet!OtherDownload
         PROVE  Kept
    BY <1>24 DEF Parakeet!OtherDownload
  <1>25. ASSUME Parakeet!Restart
         PROVE  Kept
    BY <1>25 DEF Parakeet!Restart, Parakeet!Tasks
  <1> HIDE <1>d, DownloadsAssumption DEF ParakeetInv, ParakeetShape,
        Parakeet!CallPCs, Parakeet!Files, Parakeet!catalogVars,
        Parakeet!diskVars, Parakeet!callVars, Parakeet!userVars,
        Parakeet!bounds, Parakeet!Moves, Parakeet!Disturbs, Parakeet!Running,
        Parakeet!Size, OnItsWay, AtAFile, Downloading, Passed, Beginning,
        Kept
  <1> QED
    <2>1. Kept
      <3>1. CASE \E c \in Calls : Parakeet!CallStep(c)
        BY <1>1, <1>2, <1>3, <1>4, <1>5, <1>6, <1>7, <1>8, <1>9, <1>10, <1>11,
           <1>12, <1>13, <1>14, <1>15, <3>1, Zenon DEF Parakeet!CallStep
      <3>2. CASE \E c \in Calls, retry \in BOOLEAN : Parakeet!Ask(c, retry)
        BY <1>16, <3>2, Zenon
      <3>3. CASE \E t \in Parakeet!Tasks :
                   Parakeet!Scan(t) \/ Parakeet!PublishScan(t)
        BY <1>17, <1>18, <3>3, Zenon
      <3>4. CASE Parakeet!CancelCommand
        BY <1>19, <1>20, <1>21, <3>4, Zenon DEF Parakeet!CancelCommand
      <3>5. CASE Parakeet!DeleteCommand
        BY <1>22, <1>23, <3>5, Zenon DEF Parakeet!DeleteCommand
      <3>6. \/ \E c \in Calls : Parakeet!CallStep(c)
            \/ \E c \in Calls, retry \in BOOLEAN : Parakeet!Ask(c, retry)
            \/ \E t \in Parakeet!Tasks :
                 Parakeet!Scan(t) \/ Parakeet!PublishScan(t)
            \/ Parakeet!CancelCommand \/ Parakeet!DeleteCommand
            \/ Parakeet!OtherDownload \/ Parakeet!Restart
        BY Zenon DEF Parakeet!Next, Parakeet!ListModels
      <3> QED
        BY <1>24, <1>25, <3>1, <3>2, <3>3, <3>4, <3>5, <3>6, Zenon
    <2> QED
      BY <2>1 DEF Kept

\* The last part of a file is received where the others are.
LEMMA ParakeetReceivesWhole ==
  ASSUME ParakeetInv, NEW c \in Calls, Parakeet!EndFile(c),
         c \notin pDisturbed
  PROVE  pFile[at[c]] = Parakeet!Parts
  <1>1. pPc[c] = "streaming" /\ pGot[c] = 3
    BY DEF Parakeet!EndFile
  <1>2. pFile[at[c]] = {k \in Parakeet!Parts : k <= 3}
    BY <1>1 DEF ParakeetInv, ParakeetCalls, OnItsWay, Beginning, Downloading
  <1> QED
    BY <1>2 DEF Parakeet!Parts

\* Success is reported only when every file has been passed.
LEMMA ParakeetPassesAll ==
  ASSUME ParakeetInv, NEW c \in Calls, Parakeet!Complete(c),
         c \notin pDisturbed, NEW f \in Parakeet!Files
  PROVE  pFile[f] \in {1..Parakeet!Enough, Parakeet!Parts}
  <1>1. at[c] = 3 /\ pPc[c] = "next"
    BY DEF Parakeet!Complete, Parakeet!Files, ParakeetInv, ParakeetShape
  <1>2. Passed(c)
    BY <1>1 DEF ParakeetInv, ParakeetCalls, OnItsWay, Downloading
  <1> QED
    BY <1>1, <1>2 DEF Passed, Parakeet!Files

\* What does not move stays as it was.
LEMMA ParakeetStays ==
  ASSUME ParakeetInv, UNCHANGED parakeetVars
  PROVE  ParakeetInv'
  BY DEF ParakeetInv, ParakeetShape, ParakeetCalls, OnItsWay, AtAFile, Passed,
         Beginning, Parakeet!Size, parakeetVars

\* Nothing runs at first.
LEMMA ParakeetBegins == Parakeet!Init => ParakeetInv
  <1> SUFFICES ASSUME Parakeet!Init PROVE ParakeetInv
    OBVIOUS
  <1>1. pFile \in [Parakeet!Files -> Contents]
    BY ContentsChange, Zenon DEF Parakeet!Init
  <1>2. ParakeetShape
    <2>1. pPc \in [Calls -> Parakeet!CallPCs]
      BY DEF Parakeet!Init, Parakeet!CallPCs
    <2>2. at \in [Calls -> 1..3] /\ pGot \in [Calls -> 0..3]
      BY DEF Parakeet!Init
    <2>3. append \in [Calls -> BOOLEAN] /\ pAttached \in [Calls -> BOOLEAN]
      BY DEF Parakeet!Init
    <2>4. dir \in BOOLEAN /\ DOMAIN pScan = Parakeet!Tasks
      BY DEF Parakeet!Init
    <2> QED
      BY <1>1, <2>1, <2>2, <2>3, <2>4, Zenon DEF ParakeetShape
  <1>3. ParakeetCalls
    BY DEF Parakeet!Init, ParakeetCalls, OnItsWay, AtAFile, Parakeet!Tasks,
           Downloading
  <1> QED
    BY <1>2, <1>3 DEF ParakeetInv

-----------------------------------------------------------------------------
(* Both engines *)

\* A behaviour begins with one engine.
LEMMA DownloadsBegin == ModelDownloadsInit => DownloadsInv
  BY WhisperBegins, ParakeetBegins, Zenon
  DEF ModelDownloadsInit, WhisperInit, ParakeetInit, DownloadsInv

\* It stays with it, and every step preserves the invariant.
LEMMA DownloadsStep ==
  ASSUME DownloadsInv, [ModelDownloadsNext]_everything
  PROVE  DownloadsInv'
  <1>1. CASE WhisperNext
    BY <1>1, WhisperShapeKeeps, WhisperCallsKeep
    DEF WhisperNext, DownloadsInv, WhisperInv
  <1>2. CASE ParakeetNext
    BY <1>2, ParakeetShapeKeeps, ParakeetCallsKeep
    DEF ParakeetNext, DownloadsInv, ParakeetInv
  <1>3. CASE UNCHANGED everything
    BY <1>3, WhisperStays, ParakeetStays DEF everything, DownloadsInv
  <1> QED
    BY <1>1, <1>2, <1>3 DEF ModelDownloadsNext

\* What a call leaves is what was published, whatever was cancelled, deleted,
\* refused or asked again meanwhile and whatever failed, unless somebody else
\* had a hand on it: the model that Whisper reports, and of Parakeet every file
\* a call received; where Parakeet reports success no file lacks more than what
\* it skips (download_model of whisper_engine.rs, download_model_detailed of
\* parakeet_engine.rs).
THEOREM ReceivedFilesAreWhole == ModelDownloadsSpec => ReceivedIsWhole
  <1> DEFINE Received ==
        CASE component = "whisper" ->
               \A c \in Calls :
                   /\ Whisper!Complete(c)
                   /\ status'[model[c]] = "available"
                   /\ c \notin disturbed
                   => Whisper!Whole(file[model[c]])
          [] component = "parakeet" ->
               \A c \in Calls :
                   /\ Parakeet!EndFile(c) /\ c \notin pDisturbed
                       => pFile[at[c]] = Parakeet!Parts
                   /\ Parakeet!Complete(c) /\ c \notin pDisturbed
                       => \A f \in Parakeet!Files :
                            pFile[f] \in {1..Parakeet!Enough, Parakeet!Parts}
  <1>1. ASSUME DownloadsInv
        PROVE  Received
    <2>1. CASE component = "whisper"
      BY <1>1, <2>1, WhisperCompletesWhole DEF DownloadsInv
    <2>2. CASE component = "parakeet"
      BY <1>1, <2>2, ParakeetReceivesWhole, ParakeetPassesAll
      DEF DownloadsInv
    <2> QED
      BY <1>1, <2>1, <2>2 DEF DownloadsInv
  <1>2. DownloadsInv /\ [ModelDownloadsNext]_everything => DownloadsInv'
    BY DownloadsStep
  <1> HIDE DEF Received
  <1>3. DownloadsInv /\ [ModelDownloadsNext]_everything
          => [Received]_everything
    BY <1>1
  <1>4. ModelDownloadsSpec => [][Received]_everything
    BY <1>2, <1>3, DownloadsBegin, PTL DEF ModelDownloadsSpec
  <1> QED
    BY <1>4, PTL DEF Received, ReceivedIsWhole
=============================================================================
