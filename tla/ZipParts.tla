------------------------------ MODULE ZipParts ------------------------------
(* Downloads of folders as zips in parts: the plan divides the names of a  *)
(* selection into ranges, and each part is a walk of its own that keeps    *)
(* the names of its range.  The folder changes during every walk.          *)
EXTENDS ReadTree

CONSTANTS
  PartSize,   \* bytes of a part
  ZipSlots    \* parts a user downloads at a time

ASSUME ZipAssumption == PartSize \in Nat \ {0} /\ ZipSlots \in Nat \ {0}

VARIABLES
  sel,        \* the paths asked for
  zip,        \* the state of the download: its plan, and what it planned
  part        \* downloads of its parts

zipVars == <<sel, zip, part>>

\* The name of an entry begins with the last name of the path asked for.
NameOf(s, p) == IF s = <<>> THEN p ELSE SubSeq(p, Len(s), Len(p))

ASSUME NamesAssumption ==
  \A s, p \in Paths \cup {<<>>} : NameOf(s, p) # None /\ [top |-> s, path |-> p] # None

\* A bound of a range: None is open.
Open(from, to) == [from |-> from, to |-> to, files |-> 0, bytes |-> 0]
\* Mutant: the bound belongs to both parts.
InRangeClosed(n, r) ==
  /\ r.from = None \/ ~Before(n, r.from)
  /\ r.to = None \/ ~Before(r.to, n)
InRange(n, r) ==
  /\ r.from = None \/ ~Before(n, r.from)
  /\ r.to = None \/ Before(n, r.to)

-----------------------------------------------------------------------------
(* The paths asked for, in the order of the names they get.                *)

Walk(paths) ==
  LET s == Sorted(paths, LAMBDA a, b : Before(NameOf(a, a), NameOf(b, b)))
  IN [i \in DOMAIN s |-> [top |-> s[i], path |-> s[i]]]

Asked(paths) == \A p \in paths : At(p) # None

-----------------------------------------------------------------------------
(* The plan.                                                               *)

Again == [pc |-> "new", todo |-> <<>>, open |-> None, got |-> <<>>]
NoPlan == [pc |-> "new", todo |-> <<>>, parts |-> <<>>]

\* handleZipPlan, handlePublicZipPlan and serveZipPlan.
PlanStart ==
  /\ zip.pc = "new" /\ Asked(sel)
  /\ zip' = [pc |-> "plan", todo |-> Walk(sel), parts |-> <<Open(None, None)>>]
  /\ stay' = Paths
  /\ UNCHANGED <<tree, changed, sel, part>>

\* Mutant: a part is closed whatever it holds.
FullAlways(p, size) == p.bytes + size > PartSize
Full(p, size) == p.files > 0 /\ p.bytes + size > PartSize

\* One file more, in the last part or in a new one.
Planned(parts, n, size) ==
  LET k == Len(parts)
      open == IF Full(parts[k], size)
              THEN [parts EXCEPT ![k].to = n] \o <<Open(n, None)>> ELSE parts
  IN [open EXCEPT ![Len(open)].files = @ + 1, ![Len(open)].bytes = @ + size]

PlanVisit ==
  /\ zip.pc = "plan" /\ zip.todo # <<>>
  /\ LET here == Head(zip.todo) IN
     zip' = IF Fails(here) THEN NoPlan
            ELSE [zip EXCEPT !.todo = Rest(zip.todo),
                    !.parts = IF IsFile(here.path)
                              THEN Planned(@, NameOf(here.top, here.path), tree[here.path].size)
                              ELSE @]
  /\ UNCHANGED <<tree, changed, stay, sel, part>>

PlanEnd ==
  /\ zip.pc = "plan" /\ zip.todo = <<>>
  /\ zip' = [zip EXCEPT !.pc = "ready"]
  /\ part' = [k \in 1..Len(zip.parts) |-> Again]
  /\ UNCHANGED <<tree, changed, stay, sel>>

\* The folder is too large to be measured in time: one zip of everything.
PlanTimeout ==
  /\ zip.pc = "plan"
  /\ zip' = [pc |-> "ready", todo |-> <<>>, parts |-> <<Open(None, None)>>]
  /\ part' = <<Again>>
  /\ UNCHANGED <<tree, changed, stay, sel>>

-----------------------------------------------------------------------------
(* A part: handleZip, serveZip and WriteZipPart.                           *)

Busy == {k \in DOMAIN part : part[k].pc = "busy"}

PartStart(k) ==
  /\ part[k].pc = "new" /\ Cardinality(Busy) < ZipSlots
  /\ Asked(sel)
  /\ part' = [part EXCEPT ![k] = [pc |-> "busy", todo |-> Walk(sel), open |-> None, got |-> <<>>]]
  /\ UNCHANGED <<tree, changed, stay, sel, zip>>

\* A connection that breaks, or an error, leaves a part to be asked for again.
PartFails(k) ==
  /\ part[k].pc = "busy"
  /\ part' = [part EXCEPT ![k] = Again]
  /\ UNCHANGED <<tree, changed, stay, sel, zip>>

Entry(n, what) == [name |-> n, what |-> what]

\* The header of an entry goes out before the file is opened.
PartVisit(k) ==
  /\ part[k].pc = "busy" /\ part[k].open = None /\ part[k].todo # <<>>
  /\ LET d == part[k]
         here == Head(d.todo)
         n == NameOf(here.top, here.path)
         takes == n # <<>> /\ InRange(n, zip.parts[k])
     IN part' = [part EXCEPT ![k] =
          IF Fails(here) THEN Again
          ELSE [d EXCEPT !.todo = Rest(d.todo),
                  !.open = IF IsFile(here.path) /\ takes THEN here ELSE None,
                  !.got = IF At(here.path) = Dir /\ takes THEN Append(@, Entry(n, Dir)) ELSE @]]
  /\ UNCHANGED <<tree, changed, stay, sel, zip>>

\* A file that vanished leaves an empty entry, a folder in its place an error.
PartCopy(k) ==
  /\ part[k].pc = "busy" /\ part[k].open # None
  /\ LET d == part[k]
         p == d.open.path
         what == IF IsFile(p) THEN tree[p].ver ELSE None
     IN part' = [part EXCEPT ![k] =
          IF At(p) = Dir THEN Again
          ELSE [d EXCEPT !.open = None, !.got = Append(@, Entry(NameOf(d.open.top, p), what))]]
  /\ UNCHANGED <<tree, changed, stay, sel, zip>>

PartEnd(k) ==
  /\ part[k].pc = "busy" /\ part[k].open = None /\ part[k].todo = <<>>
  /\ part' = [part EXCEPT ![k].pc = "done"]
  /\ UNCHANGED <<tree, changed, stay, sel, zip>>

\* The server dies: the folder the user sees is as it was.
ZipCrash ==
  /\ zip' = IF zip.pc = "plan" THEN NoPlan ELSE zip
  /\ part' = [k \in DOMAIN part |-> IF part[k].pc = "busy" THEN Again ELSE part[k]]
  /\ UNCHANGED sel

-----------------------------------------------------------------------------

\* The interface asks for items of one folder, a public link for all of it.
Siblings == {paths \in SUBSET Paths :
               paths # {} /\ Cardinality({Parent(p) : p \in paths}) = 1}
ZipInit ==
  /\ sel \in Siblings \cup {{<<>>}}
  /\ zip = NoPlan
  /\ part = <<>>

ZipNext ==
  \/ PlanStart \/ PlanVisit \/ PlanEnd \/ PlanTimeout
  \/ \E k \in DOMAIN part :
       PartStart(k) \/ PartFails(k) \/ PartVisit(k) \/ PartCopy(k) \/ PartEnd(k)

-----------------------------------------------------------------------------
(* Properties.                                                             *)

Done(k) == part[k].pc = "done"
NamesIn(k) == {part[k].got[i].name : i \in DOMAIN part[k].got}

ZipTypeOK ==
  /\ zip.pc \in {"new", "plan", "ready"}
  /\ DOMAIN part = IF zip.pc = "ready" THEN DOMAIN zip.parts ELSE {}
  /\ Cardinality(Busy) <= ZipSlots

Selected(p) == {s \in sel : s = p \/ Below(s, p)}

\* However the folder changes between the plan and the parts, the names of a
\* part are in the order of the zip, and no name is in two parts: "se algo mudar
\* na pasta entre o plano e o download de uma parte, nenhum arquivo aparece em
\* duas" (vfs/zip.go:86).  A name, that is: a file that is renamed between two
\* parts may be in both, under two names.  With all the parts downloaded, some of
\* them again, a file that stayed what it was from the start of the plan is in
\* them (WriteZipPart).
PartsCoverOnce ==
  /\ TreeTypeOK /\ ZipTypeOK
  /\ \A j, k \in DOMAIN part :
       /\ Done(j) => \A a, b \in DOMAIN part[j].got :
                       a < b => Before(part[j].got[a].name, part[j].got[b].name)
       /\ Done(j) /\ Done(k) /\ j # k => NamesIn(j) \cap NamesIn(k) = {}
  /\ DOMAIN part # {} /\ (\A k \in DOMAIN part : Done(k)) =>
       \A p \in stay : \A s \in Selected(p) :
         IsFile(p) => \E k \in DOMAIN part : \E i \in DOMAIN part[k].got :
                        part[k].got[i] = Entry(NameOf(s, p), tree[p].ver)

\* The numbers of a plan are those of its parts while the folder stays what it
\* was, and a part is within the size or one file: "Um arquivo maior que
\* partSize vai sozinho numa parte" (vfs/zip.go:85).
PlanIsTrue ==
  zip.pc = "ready" /\ stay = Paths /\ Len(zip.parts) > 1 =>
    \A k \in DOMAIN zip.parts :
      LET r == zip.parts[k]
          files == {p \in Paths : IsFile(p) /\ \E s \in Selected(p) : InRange(NameOf(s, p), r)}
      IN /\ r.files = Cardinality(files) /\ r.files > 0
         /\ r.bytes = MapThenSumSet(LAMBDA p : tree[p].size, files)
         /\ r.bytes <= PartSize \/ r.files = 1

=============================================================================
