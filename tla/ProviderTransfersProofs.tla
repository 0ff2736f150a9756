----------------------- MODULE ProviderTransfersProofs -----------------------
(***************************************************************************)
(* Proofs about ProviderTransfers: type correctness, the inductive         *)
(* invariant that ties the page, the line at the gate and the rows         *)
(* together, and from it that nothing is sent while the outcome of another *)
(* transfer is unknown and that what is sent is what was confirmed, for    *)
(* any number of previews and edits.                                       *)
(***************************************************************************)
EXTENDS ProviderTransfers, TLAPS

-----------------------------------------------------------------------------
(* The line at the gate *)

\* A command the page enters is awaited.
LEMMA JobFacts ==
  ASSUME NEW t \in Transfers, NEW k \in {"preview", "confirm"}
  PROVE  /\ Job(k, t) \in Jobs
         /\ Job(k, t).kind = k /\ Job(k, t).transfer = t /\ Job(k, t).awaited
  BY DEF Job, Jobs

LEMMA EmptyLine ==
  ASSUME NEW q \in Seq(Jobs)
  PROVE  q = <<>> <=> Len(q) = 0
  OBVIOUS

\* A command enters at the end of the line.
LEMMA EnterFacts ==
  ASSUME NEW q \in Seq(Jobs), NEW j \in Jobs
  PROVE  /\ Append(q, j) \in Seq(Jobs)
         /\ Append(q, j) # <<>>
         /\ Len(q) \in Nat
         /\ Len(Append(q, j)) = Len(q) + 1
         /\ DOMAIN q = 1..Len(q)
         /\ DOMAIN Append(q, j) = 1..(Len(q) + 1)
         /\ \A i \in DOMAIN q : Append(q, j)[i] = q[i] /\ q[i] \in Jobs
         /\ Append(q, j)[Len(q) + 1] = j
         /\ Head(Append(q, j)) = IF q = <<>> THEN j ELSE Head(q)
         /\ q = <<>> <=> Len(q) = 0
  <1>1. /\ Append(q, j) \in Seq(Jobs)
        /\ Len(q) \in Nat
        /\ Len(Append(q, j)) = Len(q) + 1
        /\ q = <<>> <=> Len(q) = 0
    OBVIOUS
  <1>2. DOMAIN q = 1..Len(q) /\ DOMAIN Append(q, j) = 1..(Len(q) + 1)
    BY <1>1
  <1>3. /\ \A i \in DOMAIN q : Append(q, j)[i] = q[i] /\ q[i] \in Jobs
        /\ Append(q, j)[Len(q) + 1] = j
    BY <1>1, <1>2
  <1>4. Append(q, j) # <<>> /\ Head(Append(q, j)) = Append(q, j)[1]
    BY <1>1
  <1>5. q # <<>> => Head(q) = q[1] /\ 1 \in DOMAIN q
    BY <1>1, <1>2
  <1> QED
    BY <1>1, <1>2, <1>3, <1>4, <1>5

\* The first command leaves the line.
LEMMA ReturnFacts ==
  ASSUME NEW q \in Seq(Jobs), q # <<>>
  PROVE  /\ Tail(q) \in Seq(Jobs)
         /\ Len(q) \in Nat \ {0}
         /\ Len(Tail(q)) = Len(q) - 1
         /\ DOMAIN q = 1..Len(q)
         /\ DOMAIN Tail(q) = 1..(Len(q) - 1)
         /\ \A i \in DOMAIN Tail(q) : Tail(q)[i] = q[i + 1]
         /\ \A i \in DOMAIN q : q[i] \in Jobs
         /\ Head(q) = q[1] /\ Head(q) \in Jobs
         /\ Tail(q) = <<>> <=> Len(q) = 1
         /\ Tail(q) # <<>> => Head(Tail(q)) = q[2]
         /\ Head(q).transfer \in Transfers
         /\ Head(q).kind \in {"preview", "confirm"}
         /\ Head(q).awaited \in BOOLEAN
  <1>1. /\ Tail(q) \in Seq(Jobs)
        /\ Len(q) \in Nat \ {0}
        /\ Len(Tail(q)) = Len(q) - 1
        /\ DOMAIN q = 1..Len(q)
    OBVIOUS
  <1>2. DOMAIN Tail(q) = 1..(Len(q) - 1)
    BY <1>1
  <1>3. /\ \A i \in DOMAIN Tail(q) : Tail(q)[i] = q[i + 1]
        /\ \A i \in DOMAIN q : q[i] \in Jobs
    BY <1>1, <1>2
  <1>4. Head(q) = q[1] /\ Head(q) \in Jobs
    BY <1>1, <1>3
  <1>5. Tail(q) = <<>> <=> Len(Tail(q)) = 0
    BY <1>1, EmptyLine
  <1>6. Tail(q) # <<>> => Head(Tail(q)) = Tail(q)[1] /\ 1 \in DOMAIN Tail(q)
    BY <1>1, <1>2
  <1>7. Tail(q) # <<>> => Head(Tail(q)) = q[2]
    BY <1>3, <1>6
  <1>8. /\ Head(q).transfer \in Transfers
        /\ Head(q).kind \in {"preview", "confirm"}
        /\ Head(q).awaited \in BOOLEAN
    BY <1>4 DEF Jobs
  <1> QED
    BY <1>1, <1>2, <1>3, <1>4, <1>5, <1>7, <1>8

\* The three changes of the line, as the actions make them.
LEMMA LineGrows ==
  ASSUME TypeOK, NEW j \in Jobs, Enter(j)
  PROVE  /\ queue' \in Seq(Jobs)
         /\ queue' # <<>>
         /\ Len(queue) \in Nat
         /\ Len(queue') = Len(queue) + 1
         /\ DOMAIN queue = 1..Len(queue)
         /\ DOMAIN queue' = 1..(Len(queue) + 1)
         /\ \A i \in DOMAIN queue : queue'[i] = queue[i] /\ queue[i] \in Jobs
         /\ queue'[Len(queue) + 1] = j
         /\ Head(queue') = IF queue = <<>> THEN j ELSE Head(queue)
         /\ queue = <<>> <=> Len(queue) = 0
  BY EnterFacts DEF Enter, TypeOK

LEMMA LineShrinks ==
  ASSUME TypeOK, step # "free", NEW h, Return(h)
  PROVE  /\ queue' \in Seq(Jobs)
         /\ queue # <<>>
         /\ Len(queue) \in Nat \ {0}
         /\ Len(queue') = Len(queue) - 1
         /\ DOMAIN queue = 1..Len(queue)
         /\ DOMAIN queue' = 1..(Len(queue) - 1)
         /\ \A i \in DOMAIN queue' : queue'[i] = queue[i + 1]
         /\ \A i \in DOMAIN queue : queue[i] \in Jobs
         /\ Head(queue) = queue[1] /\ Head(queue) \in Jobs
         /\ queue' = <<>> <=> Len(queue) = 1
         /\ queue' # <<>> => Head(queue') = queue[2]
         /\ Head(queue).transfer \in Transfers
         /\ Head(queue).kind \in {"preview", "confirm"}
         /\ Head(queue).awaited \in BOOLEAN
  BY ReturnFacts DEF Return, TypeOK

LEMMA LineIsLeft ==
  ASSUME TypeOK, Remount
  PROVE  /\ queue' \in Seq(Jobs)
         /\ Len(queue') = Len(queue)
         /\ DOMAIN queue' = DOMAIN queue
         /\ queue' = <<>> <=> queue = <<>>
         /\ \A i \in DOMAIN queue : /\ queue'[i].kind = queue[i].kind
                                    /\ queue'[i].transfer = queue[i].transfer
                                    /\ ~queue'[i].awaited
         /\ queue # <<>> => /\ Head(queue').kind = Head(queue).kind
                            /\ Head(queue').transfer = Head(queue).transfer
  <1>1. DOMAIN queue = 1..Len(queue) /\ Len(queue) \in Nat /\ \A i \in DOMAIN queue : queue[i] \in Jobs
    BY DEF TypeOK
  <1>2. queue' = [i \in DOMAIN queue |-> [queue[i] EXCEPT !.awaited = FALSE]]
    BY DEF Remount
  <1>3. \A i \in DOMAIN queue : /\ queue'[i] \in Jobs
                                /\ queue'[i].kind = queue[i].kind
                                /\ queue'[i].transfer = queue[i].transfer
                                /\ ~queue'[i].awaited
    BY <1>1, <1>2 DEF Jobs
  <1>4. queue' \in Seq(Jobs) /\ Len(queue') = Len(queue) /\ DOMAIN queue' = DOMAIN queue
    BY <1>1, <1>2, <1>3
  <1>5. queue' = <<>> <=> queue = <<>>
    BY <1>4, EmptyLine DEF TypeOK
  <1>6. queue # <<>> => Head(queue) = queue[1] /\ Head(queue') = queue'[1] /\ 1 \in DOMAIN queue
    BY <1>1, <1>4, <1>5, EmptyLine DEF TypeOK
  <1> QED
    BY <1>3, <1>4, <1>5, <1>6

-----------------------------------------------------------------------------
(* The inductive invariant *)

LEMMA InitInv == Init => IInv
  <1> SUFFICES ASSUME Init PROVE IInv
    OBVIOUS
  <1>1. queue = <<>> /\ queue \in Seq(Jobs) /\ DOMAIN queue = {}
    BY DEF Init
  <1>2. TypeOK
    BY <1>1, ConstantsAssumption DEF Init, TypeOK, Statuses, PreviewSteps,
       ConfirmSteps
  <1>3. LineInv /\ FreshInv
    BY <1>1 DEF Init, LineInv, FreshInv
  <1>4. BlockedInv
    BY <1>1 DEF Init, BlockedInv, Unsettled
  <1>5. ServedInv
    BY <1>1 DEF Init, ServedInv, ConfirmSteps
  <1> QED
    BY <1>2, <1>3, <1>4, <1>5 DEF IInv

\* Every action keeps every variable in its type.
LEMMA StepType == TypeOK /\ [Next]_vars => TypeOK'
  <1> SUFFICES ASSUME TypeOK, [Next]_vars PROVE TypeOK'
    OBVIOUS
  <1> USE ConstantsAssumption DEF TypeOK, session, authorization, rows, locals, page, Statuses, PreviewSteps, ConfirmSteps, Served
  <1>1. ASSUME NEW t \in Transfers, LoadPreview(t) PROVE TypeOK'
    BY <1>1, LineGrows, JobFacts DEF LoadPreview
  <1>2. ASSUME ConfirmTransfer PROVE TypeOK'
    BY <1>2, LineGrows, JobFacts DEF ConfirmTransfer
  <1>3. ASSUME ClosePreview PROVE TypeOK'
    BY <1>3 DEF ClosePreview
  <1>4. ASSUME Remount PROVE TypeOK'
    <2>1. queue' \in Seq(Jobs) /\ (queue # <<>> => queue' # <<>> /\ Head(queue').kind = Head(queue).kind)
      BY <1>4, LineIsLeft
    <2> QED
      BY <1>4, <2>1 DEF Remount
  <1>5. ASSUME Acquire PROVE TypeOK'
    <2>1. Head(queue).kind \in {"preview", "confirm"}
      BY <1>5, ReturnFacts DEF Acquire
    <2> QED
      BY <1>5, <2>1 DEF Acquire
  <1>6. ASSUME Refuse PROVE TypeOK'
    BY <1>6, LineShrinks DEF Refuse, Return
  <1>7. ASSUME ReadRecord PROVE TypeOK'
    BY <1>7 DEF ReadRecord, Proceed
  <1>8. ASSUME ReadVersion PROVE TypeOK'
    BY <1>8 DEF ReadVersion, Proceed
  <1>9. ASSUME CreatePreview PROVE TypeOK'
    BY <1>9, LineShrinks DEF CreatePreview, Return, SetStatus, Blocking
  <1>10. ASSUME ReadTransfer PROVE TypeOK'
    BY <1>10 DEF ReadTransfer, Proceed
  <1>11. ASSUME FirstRead PROVE TypeOK'
    BY <1>11 DEF FirstRead, Proceed
  <1>12. ASSUME SecondRead PROVE TypeOK'
    BY <1>12 DEF SecondRead, Proceed
  <1>13. ASSUME CheckSnapshot PROVE TypeOK'
    BY <1>13 DEF CheckSnapshot, Proceed
  <1>14. ASSUME ReadCredential PROVE TypeOK'
    BY <1>14 DEF ReadCredential, Proceed
  <1>15. ASSUME BeginSend PROVE TypeOK'
    BY <1>15 DEF BeginSend, Reservable, SetStatus
  <1>16. ASSUME Send PROVE TypeOK'
    <2>1. outcome' \in {"completed", "failed", "unknown"} /\ accepted' \subseteq Transfers
      BY <1>16, ReturnFacts DEF Send, Answer
    <2> QED
      BY <1>16, <2>1 DEF Send
  <1>17. ASSUME Record PROVE TypeOK'
    <2>1. queue' \in Seq(Jobs) /\ Served \in Transfers
      BY <1>17, LineShrinks DEF Record
    <2>2. status' \in [Transfers -> Statuses]
      BY <1>17, <2>1 DEF Record, SetStatus
    <2> QED
      BY <1>17, <2>1, <2>2 DEF Record, Return
  <1>18. ASSUME ChangeSession PROVE TypeOK'
    BY <1>18 DEF ChangeSession
  <1>19. ASSUME DeleteSession PROVE TypeOK'
    <2>1. status' \in [Transfers -> {"none", "deleted"}]
      BY <1>19 DEF DeleteSession
    <2>2. status' \in [Transfers -> Statuses]
      BY <2>1
    <2>3. exists' \in BOOLEAN
      BY <1>19 DEF DeleteSession
    <2>4. UNCHANGED <<up, content, version, authorization, shown, snapshot,
                      bound, queue, step, locals, page, drawn, accepted>>
      BY <1>19 DEF DeleteSession
    <2> QED
      BY <2>2, <2>3, <2>4
  <1>20. ASSUME SaveCredential PROVE TypeOK'
    <2>1. generation' \in Nat
      BY <1>20 DEF SaveCredential, Settings
    <2> QED
      BY <1>20, <2>1 DEF SaveCredential, Settings
  <1>21. ASSUME SaveFails PROVE TypeOK'
    BY <1>21 DEF SaveFails, Settings
  <1>22. ASSUME SetEnabled PROVE TypeOK'
    BY <1>22 DEF SetEnabled, Settings
  <1>23. ASSUME RemoveCredential PROVE TypeOK'
    BY <1>23 DEF RemoveCredential, Settings
  <1>24. ASSUME Crash PROVE TypeOK'
    <2>1. queue' \in Seq(Jobs)
      BY <1>24 DEF Crash
    <2> QED
      BY <1>24, <2>1 DEF Crash
  <1>25. ASSUME Restart PROVE TypeOK'
    BY <1>25 DEF Restart
  <1>26. CASE UNCHANGED vars
    BY <1>26 DEF vars
  <1> QED
    BY <1>1, <1>2, <1>3, <1>4, <1>5, <1>6, <1>7, <1>8, <1>9, <1>10, <1>11, <1>12,
       <1>13, <1>14, <1>15, <1>16, <1>17, <1>18, <1>19, <1>20, <1>21, <1>22,
       <1>23, <1>24, <1>25, <1>26
    DEF Next, Serve, Preview, Confirm, Page, Others, vars

\* A page never holds a transfer while commands are in line, but its own.
LEMMA LineStep == TypeOK /\ FreshInv /\ LineInv /\ [Next]_vars => LineInv'
  <1> SUFFICES ASSUME TypeOK, FreshInv, LineInv, [Next]_vars PROVE LineInv'
    OBVIOUS
  <1> USE ConstantsAssumption DEF TypeOK, LineInv, FreshInv, session, authorization, rows, locals, page, PreviewSteps, ConfirmSteps, Served, Statuses
  <1>1. ASSUME NEW t \in Transfers, LoadPreview(t) PROVE LineInv'
    BY <1>1, LineGrows, JobFacts DEF LoadPreview
  <1>2. ASSUME ConfirmTransfer PROVE LineInv'
    <2>1. queue = <<>> /\ Len(queue) = 0
      BY <1>2 DEF ConfirmTransfer
    <2>2. Job("confirm", held) \in Jobs /\ Enter(Job("confirm", held))
      BY <1>2, JobFacts DEF ConfirmTransfer
    <2>3. /\ queue' # <<>> /\ Len(queue') = 1 /\ DOMAIN queue' = {1}
          /\ queue'[1] = Job("confirm", held) /\ Head(queue') = Job("confirm", held)
      BY <2>1, <2>2, LineGrows
    <2> QED
      BY <1>2, <2>3, JobFacts DEF ConfirmTransfer
  <1>3. ASSUME ClosePreview PROVE LineInv'
    BY <1>3 DEF ClosePreview
  <1>4. ASSUME Remount PROVE LineInv'
    BY <1>4, LineIsLeft DEF Remount
  <1>5. ASSUME Acquire PROVE LineInv'
    BY <1>5 DEF Acquire
  <1>6. ASSUME Refuse PROVE LineInv'
    BY <1>6, LineShrinks DEF Refuse, Return
  <1>7. ASSUME ReadRecord PROVE LineInv'
    BY <1>7 DEF ReadRecord, Proceed
  <1>8. ASSUME ReadVersion PROVE LineInv'
    BY <1>8 DEF ReadVersion, Proceed
  <1>9. ASSUME CreatePreview PROVE LineInv'
    BY <1>9, LineShrinks DEF CreatePreview, Return, SetStatus, Blocking
  <1>10. ASSUME ReadTransfer PROVE LineInv'
    BY <1>10 DEF ReadTransfer, Proceed
  <1>11. ASSUME FirstRead PROVE LineInv'
    BY <1>11 DEF FirstRead, Proceed
  <1>12. ASSUME SecondRead PROVE LineInv'
    BY <1>12 DEF SecondRead, Proceed
  <1>13. ASSUME CheckSnapshot PROVE LineInv'
    BY <1>13 DEF CheckSnapshot, Proceed
  <1>14. ASSUME ReadCredential PROVE LineInv'
    BY <1>14 DEF ReadCredential, Proceed
  <1>15. ASSUME BeginSend PROVE LineInv'
    BY <1>15 DEF BeginSend, Reservable, SetStatus
  <1>16. ASSUME Send PROVE LineInv'
    BY <1>16 DEF Send, Answer
  <1>17. ASSUME Record PROVE LineInv'
    <2>1. step # "free" /\ Return(None) /\ up' = up
      BY <1>17 DEF Record
    <2>2. /\ DOMAIN queue = 1..Len(queue) /\ Len(queue) \in Nat \ {0}
          /\ Len(queue') = Len(queue) - 1
          /\ DOMAIN queue' = 1..(Len(queue) - 1)
          /\ \A i \in DOMAIN queue' : queue'[i] = queue[i + 1]
          /\ queue' = <<>> <=> Len(queue) = 1
      BY <2>1, LineShrinks
    <2>3. held' # None => held' = held /\ busy' = busy /\ ~Head(queue).awaited
      BY <2>1 DEF Return
    <2>4. \A u \in Transfers : status'[u] = "none" => status[u] = "none"
      BY <1>17 DEF Record, SetStatus
    <2>5. \A i \in DOMAIN queue' :
            /\ i + 1 \in DOMAIN queue /\ i + 1 > 1
            /\ i + 1 = Len(queue) => i = Len(queue')
      BY <2>2
    <2>6. ~busy' => ~busy \/ Head(queue).awaited
      BY <2>1 DEF Return
    <2> QED
      BY <2>1, <2>2, <2>3, <2>4, <2>5, <2>6
  <1>18. ASSUME ChangeSession PROVE LineInv'
    BY <1>18 DEF ChangeSession
  <1>19. ASSUME DeleteSession PROVE LineInv'
    BY <1>19 DEF DeleteSession
  <1>20. ASSUME SaveCredential PROVE LineInv'
    BY <1>20 DEF SaveCredential, Settings
  <1>21. ASSUME SaveFails PROVE LineInv'
    BY <1>21 DEF SaveFails, Settings
  <1>22. ASSUME SetEnabled PROVE LineInv'
    BY <1>22 DEF SetEnabled, Settings
  <1>23. ASSUME RemoveCredential PROVE LineInv'
    BY <1>23 DEF RemoveCredential, Settings
  <1>24. ASSUME Crash PROVE LineInv'
    BY <1>24 DEF Crash
  <1>25. ASSUME Restart PROVE LineInv'
    BY <1>25 DEF Restart
  <1>26. CASE UNCHANGED vars
    BY <1>26 DEF vars
  <1> QED
    BY <1>1, <1>2, <1>3, <1>4, <1>5, <1>6, <1>7, <1>8, <1>9, <1>10, <1>11, <1>12,
       <1>13, <1>14, <1>15, <1>16, <1>17, <1>18, <1>19, <1>20, <1>21, <1>22,
       <1>23, <1>24, <1>25, <1>26
    DEF Next, Serve, Preview, Confirm, Page, Others, vars

\* No two previews get the same id.
LEMMA FreshStep == TypeOK /\ LineInv /\ FreshInv /\ [Next]_vars => FreshInv'
  <1> SUFFICES ASSUME TypeOK, LineInv, FreshInv, [Next]_vars PROVE FreshInv'
    OBVIOUS
  <1> USE ConstantsAssumption DEF TypeOK, LineInv, FreshInv, session, authorization, rows, locals, page, PreviewSteps, ConfirmSteps, Served, Statuses
  <1>1. ASSUME NEW t \in Transfers, LoadPreview(t) PROVE FreshInv'
    <2>1. Job("preview", t) \in Jobs /\ Enter(Job("preview", t)) /\ t \notin drawn
      BY <1>1, JobFacts DEF LoadPreview
    <2>5. /\ DOMAIN queue = 1..Len(queue) /\ Len(queue) \in Nat
          /\ DOMAIN queue' = 1..(Len(queue) + 1)
          /\ \A i \in DOMAIN queue : queue'[i] = queue[i]
          /\ queue'[Len(queue) + 1] = Job("preview", t)
      BY <2>1, LineGrows
    <2>6. DOMAIN queue' = DOMAIN queue \cup {Len(queue) + 1} /\ Len(queue) + 1 \notin DOMAIN queue
      BY <2>5
    <2>2. /\ DOMAIN queue' = DOMAIN queue \cup {Len(queue) + 1}
          /\ Len(queue) + 1 \notin DOMAIN queue
          /\ \A i \in DOMAIN queue : queue'[i] = queue[i]
          /\ queue'[Len(queue) + 1].kind = "preview"
          /\ queue'[Len(queue) + 1].transfer = t
      BY <2>5, <2>6, JobFacts
    <2>3. status' = status /\ drawn' = drawn \cup {t}
      BY <1>1 DEF LoadPreview
    <2>4. \A i \in DOMAIN queue : queue[i].transfer # t
      BY <2>1
    <2> QED
      BY <2>1, <2>2, <2>3, <2>4
  <1>2. ASSUME ConfirmTransfer PROVE FreshInv'
    <2>1. queue = <<>> /\ Len(queue) = 0
      BY <1>2 DEF ConfirmTransfer
    <2>2. Job("confirm", held) \in Jobs /\ Enter(Job("confirm", held))
      BY <1>2, JobFacts DEF ConfirmTransfer
    <2>3. DOMAIN queue' = {1} /\ queue'[1] = Job("confirm", held)
      BY <2>1, <2>2, LineGrows
    <2>4. held \in drawn
      BY <1>2 DEF ConfirmTransfer
    <2> QED
      BY <1>2, <2>3, <2>4, JobFacts DEF ConfirmTransfer
  <1>3. ASSUME ClosePreview PROVE FreshInv'
    BY <1>3 DEF ClosePreview
  <1>4. ASSUME Remount PROVE FreshInv'
    <2>1. /\ DOMAIN queue' = DOMAIN queue
          /\ \A i \in DOMAIN queue : queue'[i].kind = queue[i].kind /\ queue'[i].transfer = queue[i].transfer
      BY <1>4, LineIsLeft
    <2>2. status' = status /\ drawn' = drawn
      BY <1>4 DEF Remount
    <2> QED
      BY <2>1, <2>2
  <1>5. ASSUME Acquire PROVE FreshInv'
    BY <1>5 DEF Acquire
  <1>6. ASSUME Refuse PROVE FreshInv'
    BY <1>6, LineShrinks DEF Refuse, Return
  <1>7. ASSUME ReadRecord PROVE FreshInv'
    BY <1>7 DEF ReadRecord, Proceed
  <1>8. ASSUME ReadVersion PROVE FreshInv'
    BY <1>8 DEF ReadVersion, Proceed
  <1>9. ASSUME CreatePreview PROVE FreshInv'
    <2>1. step # "free" /\ Return(Served) /\ Head(queue).kind = "preview"
      BY <1>9 DEF CreatePreview
    <2>2. /\ DOMAIN queue' \subseteq 1..(Len(queue) - 1)
          /\ DOMAIN queue = 1..Len(queue) /\ Len(queue) \in Nat
          /\ \A i \in DOMAIN queue' : queue'[i] = queue[i + 1]
          /\ Head(queue) = queue[1]
      BY <2>1, LineShrinks
    <2>3. \A i \in DOMAIN queue' : i + 1 \in DOMAIN queue /\ i + 1 # 1 /\ 1 \in DOMAIN queue
      BY <2>2
    <2>4. \A i \in DOMAIN queue' : queue'[i].transfer # Served
      BY <2>1, <2>2, <2>3
    <2>5. Served \in drawn
      BY <2>1, LineShrinks
    <2>6. drawn' = drawn /\ status' = [status EXCEPT ![Served] = "confirmed"]
      BY <1>9 DEF CreatePreview, SetStatus
    <2>7. \A u \in Transfers : status'[u] = IF u = Served THEN "confirmed" ELSE status[u]
      BY <2>6
    <2>10. \A i \in DOMAIN queue' : queue'[i].transfer \in Transfers
      BY <2>2, <2>3, <2>5
    <2>8. \A i \in DOMAIN queue' : status'[queue'[i].transfer] = status[queue[i + 1].transfer]
      BY <2>2, <2>4, <2>7, <2>10
    <2>9. \A i, j \in DOMAIN queue' : i # j => i + 1 # j + 1
      BY <2>2
    <2> QED
      BY <2>2, <2>3, <2>5, <2>6, <2>7, <2>8, <2>9, <2>10
  <1>10. ASSUME ReadTransfer PROVE FreshInv'
    BY <1>10 DEF ReadTransfer, Proceed
  <1>11. ASSUME FirstRead PROVE FreshInv'
    BY <1>11 DEF FirstRead, Proceed
  <1>12. ASSUME SecondRead PROVE FreshInv'
    BY <1>12 DEF SecondRead, Proceed
  <1>13. ASSUME CheckSnapshot PROVE FreshInv'
    BY <1>13 DEF CheckSnapshot, Proceed
  <1>14. ASSUME ReadCredential PROVE FreshInv'
    BY <1>14 DEF ReadCredential, Proceed
  <1>15. ASSUME BeginSend PROVE FreshInv'
    BY <1>15 DEF BeginSend, Reservable, SetStatus
  <1>16. ASSUME Send PROVE FreshInv'
    BY <1>16 DEF Send, Answer
  <1>17. ASSUME Record PROVE FreshInv'
    <2>1. step # "free" /\ Return(None) /\ drawn' = drawn
      BY <1>17 DEF Record
    <2>2. /\ DOMAIN queue' \subseteq 1..(Len(queue) - 1)
          /\ DOMAIN queue = 1..Len(queue) /\ Len(queue) \in Nat
          /\ \A i \in DOMAIN queue' : queue'[i] = queue[i + 1] /\ queue[i + 1] \in Jobs
          /\ Head(queue) = queue[1] /\ Served \in Transfers
      BY <2>1, LineShrinks
    <2>3. \A u \in Transfers : status'[u] = "none" <=> status[u] = "none"
      BY <1>17, <2>2 DEF Record, SetStatus
    <2>6. \A i \in DOMAIN queue' : i + 1 \in DOMAIN queue
      BY <2>2
    <2>4. \A i \in DOMAIN queue' : i + 1 \in DOMAIN queue /\ queue'[i].transfer \in Transfers
      BY <2>2, <2>6
    <2>5. \A i, j \in DOMAIN queue' : i # j => i + 1 # j + 1
      BY <2>2
    <2> QED
      BY <2>1, <2>2, <2>3, <2>4, <2>5
  <1>18. ASSUME ChangeSession PROVE FreshInv'
    BY <1>18 DEF ChangeSession
  <1>19. ASSUME DeleteSession PROVE FreshInv'
    BY <1>19 DEF DeleteSession
  <1>20. ASSUME SaveCredential PROVE FreshInv'
    BY <1>20 DEF SaveCredential, Settings
  <1>21. ASSUME SaveFails PROVE FreshInv'
    BY <1>21 DEF SaveFails, Settings
  <1>22. ASSUME SetEnabled PROVE FreshInv'
    BY <1>22 DEF SetEnabled, Settings
  <1>23. ASSUME RemoveCredential PROVE FreshInv'
    BY <1>23 DEF RemoveCredential, Settings
  <1>24. ASSUME Crash PROVE FreshInv'
    BY <1>24 DEF Crash
  <1>25. ASSUME Restart PROVE FreshInv'
    BY <1>25 DEF Restart
  <1>26. CASE UNCHANGED vars
    BY <1>26 DEF vars
  <1> QED
    BY <1>1, <1>2, <1>3, <1>4, <1>5, <1>6, <1>7, <1>8, <1>9, <1>10, <1>11, <1>12,
       <1>13, <1>14, <1>15, <1>16, <1>17, <1>18, <1>19, <1>20, <1>21, <1>22,
       <1>23, <1>24, <1>25, <1>26
    DEF Next, Serve, Preview, Confirm, Page, Others, vars

\* No transfer can be confirmed while another is unsettled.
LEMMA BlockedStep == TypeOK /\ FreshInv /\ LineInv /\ BlockedInv /\ ServedInv /\ [Next]_vars => BlockedInv'
  <1> SUFFICES ASSUME TypeOK, FreshInv, LineInv, BlockedInv, ServedInv, [Next]_vars PROVE BlockedInv'
    OBVIOUS
  <1> USE ConstantsAssumption DEF TypeOK, LineInv, FreshInv, BlockedInv, ServedInv, session, authorization, rows, locals, page, PreviewSteps, ConfirmSteps, Served, Statuses, Unsettled
  <1>1. ASSUME NEW t \in Transfers, LoadPreview(t) PROVE BlockedInv'
    BY <1>1, LineGrows, JobFacts DEF LoadPreview
  <1>2. ASSUME ConfirmTransfer PROVE BlockedInv'
    BY <1>2, LineGrows, JobFacts DEF ConfirmTransfer
  <1>3. ASSUME ClosePreview PROVE BlockedInv'
    BY <1>3 DEF ClosePreview
  <1>4. ASSUME Remount PROVE BlockedInv'
    BY <1>4, LineIsLeft DEF Remount
  <1>5. ASSUME Acquire PROVE BlockedInv'
    BY <1>5 DEF Acquire
  <1>6. ASSUME Refuse PROVE BlockedInv'
    BY <1>6, LineShrinks DEF Refuse, Return
  <1>7. ASSUME ReadRecord PROVE BlockedInv'
    BY <1>7 DEF ReadRecord, Proceed
  <1>8. ASSUME ReadVersion PROVE BlockedInv'
    BY <1>8 DEF ReadVersion, Proceed
  <1>9. ASSUME CreatePreview PROVE BlockedInv'
    BY <1>9, LineShrinks DEF CreatePreview, Return, SetStatus, Blocking
  <1>10. ASSUME ReadTransfer PROVE BlockedInv'
    BY <1>10 DEF ReadTransfer, Proceed
  <1>11. ASSUME FirstRead PROVE BlockedInv'
    BY <1>11 DEF FirstRead, Proceed
  <1>12. ASSUME SecondRead PROVE BlockedInv'
    BY <1>12 DEF SecondRead, Proceed
  <1>13. ASSUME CheckSnapshot PROVE BlockedInv'
    BY <1>13 DEF CheckSnapshot, Proceed
  <1>14. ASSUME ReadCredential PROVE BlockedInv'
    BY <1>14 DEF ReadCredential, Proceed
  <1>15. ASSUME BeginSend PROVE BlockedInv'
    BY <1>15 DEF BeginSend, Reservable, SetStatus
  <1>16. ASSUME Send PROVE BlockedInv'
    BY <1>16 DEF Send, Answer
  <1>17. ASSUME Record PROVE BlockedInv'
    <2>1. step = "answered" /\ step # "free" /\ Return(None)
      BY <1>17 DEF Record
    <2>2. Served \in Transfers /\ (queue' # <<>> => Head(queue').kind = "preview")
      <3>1. /\ Served \in Transfers
            /\ Len(queue) \in Nat \ {0} /\ DOMAIN queue = 1..Len(queue)
            /\ queue' = <<>> <=> Len(queue) = 1
            /\ queue' # <<>> => Head(queue') = queue[2]
        BY <2>1, LineShrinks
      <3>2. queue' # <<>> => 2 \in DOMAIN queue
        BY <3>1
      <3> QED
        BY <3>1, <3>2
    <2>3. \A u \in Transfers : status'[u] \in Unsettled => status[u] \in Unsettled
      BY <1>17, <2>2 DEF Record, SetStatus
    <2>4. held' # None => busy' \/ (held # None /\ ~busy)
      BY <2>1 DEF Return
    <2> QED
      BY <2>2, <2>3, <2>4
  <1>18. ASSUME ChangeSession PROVE BlockedInv'
    BY <1>18 DEF ChangeSession
  <1>19. ASSUME DeleteSession PROVE BlockedInv'
    BY <1>19 DEF DeleteSession
  <1>20. ASSUME SaveCredential PROVE BlockedInv'
    BY <1>20 DEF SaveCredential, Settings
  <1>21. ASSUME SaveFails PROVE BlockedInv'
    BY <1>21 DEF SaveFails, Settings
  <1>22. ASSUME SetEnabled PROVE BlockedInv'
    BY <1>22 DEF SetEnabled, Settings
  <1>23. ASSUME RemoveCredential PROVE BlockedInv'
    BY <1>23 DEF RemoveCredential, Settings
  <1>24. ASSUME Crash PROVE BlockedInv'
    BY <1>24 DEF Crash
  <1>25. ASSUME Restart PROVE BlockedInv'
    BY <1>25 DEF Restart
  <1>26. CASE UNCHANGED vars
    BY <1>26 DEF vars
  <1> QED
    BY <1>1, <1>2, <1>3, <1>4, <1>5, <1>6, <1>7, <1>8, <1>9, <1>10, <1>11, <1>12,
       <1>13, <1>14, <1>15, <1>16, <1>17, <1>18, <1>19, <1>20, <1>21, <1>22,
       <1>23, <1>24, <1>25, <1>26
    DEF Next, Serve, Preview, Confirm, Page, Others, vars

\* What the served confirmation has checked stays true until it reserves.
LEMMA ServedStep == TypeOK /\ FreshInv /\ LineInv /\ BlockedInv /\ ServedInv /\ [Next]_vars => ServedInv'
  <1> SUFFICES ASSUME TypeOK, FreshInv, LineInv, BlockedInv, ServedInv, [Next]_vars PROVE ServedInv'
    OBVIOUS
  <1> USE ConstantsAssumption DEF TypeOK, FreshInv, LineInv, BlockedInv, ServedInv, session, authorization, rows, locals, page, PreviewSteps, ConfirmSteps, Served, Statuses, Unsettled
  <1>1. ASSUME NEW t \in Transfers, LoadPreview(t) PROVE ServedInv'
    BY <1>1, LineGrows, JobFacts DEF LoadPreview
  <1>2. ASSUME ConfirmTransfer PROVE ServedInv'
    BY <1>2, LineGrows, JobFacts DEF ConfirmTransfer
  <1>3. ASSUME ClosePreview PROVE ServedInv'
    BY <1>3 DEF ClosePreview
  <1>4. ASSUME Remount PROVE ServedInv'
    BY <1>4, LineIsLeft DEF Remount
  <1>5. ASSUME Acquire PROVE ServedInv'
    BY <1>5 DEF Acquire
  <1>6. ASSUME Refuse PROVE ServedInv'
    BY <1>6, LineShrinks DEF Refuse, Return
  <1>7. ASSUME ReadRecord PROVE ServedInv'
    BY <1>7 DEF ReadRecord, Proceed
  <1>8. ASSUME ReadVersion PROVE ServedInv'
    BY <1>8 DEF ReadVersion, Proceed
  <1>9. ASSUME CreatePreview PROVE ServedInv'
    BY <1>9, LineShrinks DEF CreatePreview, Return, SetStatus, Blocking
  <1>10. ASSUME ReadTransfer PROVE ServedInv'
    BY <1>10 DEF ReadTransfer, Proceed
  <1>11. ASSUME FirstRead PROVE ServedInv'
    BY <1>11 DEF FirstRead, Proceed
  <1>12. ASSUME SecondRead PROVE ServedInv'
    BY <1>12 DEF SecondRead, Proceed
  <1>13. ASSUME CheckSnapshot PROVE ServedInv'
    BY <1>13 DEF CheckSnapshot, Proceed
  <1>14. ASSUME ReadCredential PROVE ServedInv'
    BY <1>14 DEF ReadCredential, Proceed
  <1>15. ASSUME BeginSend PROVE ServedInv'
    BY <1>15 DEF BeginSend, Reservable, SetStatus
  <1>16. ASSUME Send PROVE ServedInv'
    BY <1>16 DEF Send, Answer
  <1>17. ASSUME Record PROVE ServedInv'
    BY <1>17, LineShrinks DEF Record, Return, SetStatus
  <1>18. ASSUME ChangeSession PROVE ServedInv'
    BY <1>18 DEF ChangeSession
  <1>19. ASSUME DeleteSession PROVE ServedInv'
    BY <1>19 DEF DeleteSession
  <1>20. ASSUME SaveCredential PROVE ServedInv'
    BY <1>20 DEF SaveCredential, Settings
  <1>21. ASSUME SaveFails PROVE ServedInv'
    BY <1>21 DEF SaveFails, Settings
  <1>22. ASSUME SetEnabled PROVE ServedInv'
    BY <1>22 DEF SetEnabled, Settings
  <1>23. ASSUME RemoveCredential PROVE ServedInv'
    BY <1>23 DEF RemoveCredential, Settings
  <1>24. ASSUME Crash PROVE ServedInv'
    BY <1>24 DEF Crash
  <1>25. ASSUME Restart PROVE ServedInv'
    BY <1>25 DEF Restart
  <1>26. CASE UNCHANGED vars
    BY <1>26 DEF vars
  <1> QED
    BY <1>1, <1>2, <1>3, <1>4, <1>5, <1>6, <1>7, <1>8, <1>9, <1>10, <1>11, <1>12,
       <1>13, <1>14, <1>15, <1>16, <1>17, <1>18, <1>19, <1>20, <1>21, <1>22,
       <1>23, <1>24, <1>25, <1>26
    DEF Next, Serve, Preview, Confirm, Page, Others, vars

-----------------------------------------------------------------------------
(* The theorems *)

\* The inductive invariant holds in every reachable state.
THEOREM Invariance == Spec => []IInv
  <1>1. IInv /\ [Next]_vars => IInv'
    BY StepType, LineStep, FreshStep, BlockedStep, ServedStep DEF IInv
  <1> QED
    BY InitInv, <1>1, PTL DEF Spec

\* The transfers, the line and the page are well-typed: a command is at a step
\* of its own kind only, and only while it is in line.
THEOREM TypeCorrect == Spec => []TypeOK
  <1>1. IInv => TypeOK
    BY DEF IInv
  <1> QED
    BY <1>1, Invariance, PTL

\* At most one transfer of the Session is unsettled, so what the provider may
\* have accepted is never sent again.
THEOREM OneUnsettled == Spec => []UnsettledIsAlone
  <1>1. IInv => UnsettledIsAlone
    BY DEF IInv, BlockedInv, UnsettledIsAlone
  <1> QED
    BY <1>1, Invariance, PTL

\* What the provider has processed is never recorded as failed.
THEOREM AcceptedStays == Spec => []AcceptedIsRemembered
  <1>1. IInv => AcceptedIsRemembered
    BY DEF IInv, TypeOK, ServedInv, AcceptedIsRemembered, Statuses
  <1> QED
    BY <1>1, Invariance, PTL

\* Only a reservation makes a transfer a sent one.
LEMMA SendStep == TypeOK /\ ServedInv /\ [Next]_vars => SendsMatch
  <1> SUFFICES ASSUME TypeOK, ServedInv, [Next]_vars PROVE SendsMatch
    OBVIOUS
  <1> USE ConstantsAssumption DEF TypeOK, ServedInv, SendsMatch, session, authorization, rows, locals, page, PreviewSteps, ConfirmSteps, Served
  <1>1. ASSUME CreatePreview PROVE SendsMatch
    BY <1>1, LineShrinks DEF CreatePreview, Return, SetStatus, Blocking
  <1>2. ASSUME BeginSend PROVE SendsMatch
    BY <1>2 DEF BeginSend, Reservable, SetStatus
  <1>3. ASSUME Record PROVE SendsMatch
    BY <1>3, LineShrinks DEF Record, Return, SetStatus
  <1>4. ASSUME DeleteSession PROVE SendsMatch
    BY <1>4 DEF DeleteSession
  <1>5. ASSUME Restart PROVE SendsMatch
    BY <1>5 DEF Restart
  <1>6. CASE UNCHANGED rows
    BY <1>6
  <1> QED
    BY <1>1, <1>2, <1>3, <1>4, <1>5, <1>6
    DEF Next, Serve, Preview, Confirm, Page, Others, vars, LoadPreview,
        ConfirmTransfer, ClosePreview, Remount, Acquire, Refuse, ReadRecord,
        ReadVersion, ReadTransfer, FirstRead, SecondRead, CheckSnapshot,
        ReadCredential, Proceed, Send, ChangeSession, SaveCredential, SaveFails,
        SetEnabled, RemoveCredential, Settings, Crash

\* A transfer is sent while the Session, the configuration and the credential
\* are those it was confirmed for.
THEOREM SentAsConfirmed == Spec => SendsWhatWasConfirmed
  <1>1. IInv /\ [Next]_vars => [SendsMatch]_vars
    BY SendStep DEF IInv
  <1> QED
    BY <1>1, Invariance, PTL DEF Spec, SendsWhatWasConfirmed
=============================================================================
