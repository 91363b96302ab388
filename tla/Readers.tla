------------------------------ MODULE Readers ------------------------------
(* Zips, thumbnails and analyses of one folder, and the changes of the     *)
(* folder.                                                                 *)
EXTENDS ZipParts, Thumbs, Media

vars == <<treeVars, zipVars, thumbVars, mediaVars>>

Init == TreeInit /\ ZipInit /\ ThumbInit /\ MediaInit

Next ==
  \/ ZipNext /\ UNCHANGED <<thumbVars, mediaVars>>
  \/ ThumbNext /\ UNCHANGED <<treeVars, zipVars, mediaVars>>
  \/ MediaNext /\ UNCHANGED <<treeVars, zipVars, thumbVars>>
  \/ Change /\ UNCHANGED <<zipVars, thumbVars, mediaVars>>
  \/ Crash /\ ZipCrash /\ MediaCrash /\ UNCHANGED treeVars

\* The goroutine of a request runs on.  Nothing makes a download continue, a
\* timer expire or a user ask.
Fairness ==
  \A v \in Viewers : WF_vars(ViewStep(v) /\ UNCHANGED <<treeVars, zipVars, mediaVars>>)

Spec == Init /\ [][Next]_vars /\ Fairness

=============================================================================
