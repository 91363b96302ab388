----------------------------- MODULE MCReaders -----------------------------
(* A small instance of Readers for TLC.                                    *)
EXTENDS Readers

\* A folder with two files in it, and an item beside it whose name begins with
\* the folder's.
MCPaths == {<<1>>, <<1, 1>>, <<1, 2>>, <<2>>}

\* The folder is the first item, and files stay files; the second file of the
\* folder is a small one, unless two are analysed that cannot be read.
Unread ==
  /\ IsFile(<<1, 1>>) /\ tree[<<1, 1>>].size = 3 /\ tree[<<2>>] = None
  /\ sel = {<<2>>} /\ zip.pc = "new" /\ views = 0 /\ changed = 0
Shape ==
  /\ tree[<<1>>] \in {None, Dir}
  /\ \A p \in Paths \ {<<1>>} : tree[p] # Dir
  /\ IsFile(<<1, 2>>) => tree[<<1, 2>>].size = 1 \/ Unread

\* All of the folder is downloaded, or its two items, the parts one after
\* another; a zip does not see whether a file was written in place.  New
\* files are of size 1.
InOrder == \A j, k \in DOMAIN part : j < k /\ part[k].pc # "new" => part[j].pc = "done"
AZip ==
  /\ sel = {<<1>>, <<2>>} \/ (sel = {<<>>} /\ changed <= 1)
  /\ views = 0 /\ asks = 0 /\ changed + faults <= 2
  /\ InOrder
  /\ \A p \in Paths : IsFile(p) => tree[p].id = tree[p].ver /\ (tree[p].ver > 0 => tree[p].size = 1)
  /\ changed = 0 => tree[<<1>>] = Dir /\ IsFile(<<2>>)

\* Or thumbnails of one file are asked for, whose size does not matter,
\* the second one not before the first; one thing happens to three requests, two
\* to two.
Thumbnails ==
  /\ sel = {<<2>>} /\ zip.pc = "new" /\ asks = 0
  /\ \A v \in Viewers : view[v] # Idle => v <= views
  /\ changed <= 1 /\ changed + faults + views <= 4
  /\ tree[<<1>>] = None
  /\ IsFile(<<2>>) => tree[<<2>>].size = 1
  /\ changed = 0 => IsFile(<<2>>)

\* Or a page analyses the folder and a file of it, twice while one thing
\* happens, or once while two do; or all there is, once while one thing
\* happens.  New files are of size 1.
Analyses ==
  /\ sel = {<<2>>} /\ zip.pc = "new" /\ views = 0
  /\ \A p \in Paths : IsFile(p) => tree[p].id = tree[p].ver /\ (tree[p].ver > 0 => tree[p].size = 1)
  /\ tree[<<2>>] # None => tree[<<2>>] = File(0, 0, 1) /\ (changed = 1 \/ changed + mishaps + asks <= 1)
  /\ changed = 0 => tree[<<1>>] = Dir /\ IsFile(<<1, 1>>)
  /\ changed + mishaps + asks <= 3 /\ (changed > 0 => asks > 0)
  /\ \A a \in Askers : ask[a] # Off /\ ask[a].sel = <<<<>>>> => changed + mishaps + asks <= 2

MCSelections == {<<<<1, 1>>, <<1>>>>, <<<<>>>>}

Alone == ask[2] = Off /\ job[2] = Off

\* Or a second page asks for the same once the folder has changed, whose job is
\* still at work when the first one asks, after the second change: what was read
\* before it may come to stand for what is there.
Two ==
  /\ sel = {<<2>>} /\ zip.pc = "new" /\ views = 0 /\ faults = 0 /\ mishaps = 0
  /\ tree[<<2>>] = None /\ tree[<<1>>] = Dir
  /\ \A p \in {<<1, 1>>, <<1, 2>>} : IsFile(p) /\ tree[p].size = 1 /\ tree[p].id = tree[p].ver
  /\ \A a \in Askers : ask[a] # Off => ask[a].sel = <<<<1, 1>>, <<1>>>> /\ ask[a].kind = "stats"
  /\ changed = 0 => asks <= 1 /\ ask[1] = Off
  /\ changed > 0 => ask[2] = Off
  /\ changed > 0 /\ asks <= 1 => job[2] # Off
  /\ asks = 2 => changed = 2

\* The four share nothing but the folder.
Small == Shape /\ ((Alone /\ (AZip \/ Thumbnails \/ Analyses)) \/ Two)

=============================================================================
