---------------------------- MODULE UploadPromise ----------------------------
(***************************************************************************)
(* What the upload protocol promises to whoever looks at the folder: a     *)
(* name changes in one step from what it held to a whole file, only for an *)
(* upload that was accepted and has not ended, and takes the place of a    *)
(* file only when that upload asked to overwrite.                          *)
(***************************************************************************)
CONSTANTS Name, Sid, Absent, Foreign

VARIABLES
  folder,    \* what each name shows
  accepted,  \* uploads the server accepted and has not ended
  order      \* what was accepted: [name, over]

vars == <<folder, accepted, order>>

Order == [name : Name, over : BOOLEAN]

Init ==
  /\ folder \in [Name -> {Absent, Foreign}]
  /\ accepted = {}
  /\ order \in [Sid -> Order]

Accept(s) ==
  /\ s \notin accepted
  /\ accepted' = accepted \cup {s}
  /\ \E o \in Order : order' = [order EXCEPT ![s] = o]
  /\ UNCHANGED folder

Deliver(s) ==
  LET n == order[s].name IN
  /\ s \in accepted
  /\ folder[n] = Absent \/ order[s].over
  /\ folder' = [folder EXCEPT ![n] = s]
  /\ accepted' \in {accepted, accepted \ {s}}
  /\ UNCHANGED order

\* Uploads end: answered, aborted, superseded, swept, or cut by a crash.
End ==
  /\ accepted' \subseteq accepted
  /\ UNCHANGED <<folder, order>>

Delete(n) ==
  /\ folder' = [folder EXCEPT ![n] = Absent]
  /\ UNCHANGED <<accepted, order>>

Next ==
  \/ \E s \in Sid : Accept(s) \/ Deliver(s)
  \/ \E n \in Name : Delete(n)
  \/ End

Spec == Init /\ [][Next]_vars
=============================================================================
