------------------------------- MODULE MemFs --------------------------------
(***************************************************************************)
(* The name space of the virtual disk of src/win_vdisk.cpp: file nodes,    *)
(* their reference counts, the map from names to nodes, the handles of     *)
(* the hosts, deletion, renaming and the reading of directories.           *)
(*                                                                         *)
(* WinFsp calls one function per request.  The calls that change the map   *)
(* (Create, Rename, a deleting Cleanup) exclude the others, and Close only *)
(* decrements a counter, so each call is one step.  A call that is refused *)
(* changes nothing and is no step.  WinFsp itself is external; what it is  *)
(* relied upon for is in the guards marked "WinFsp".                       *)
(*                                                                         *)
(* A name is a sequence of components, the root the empty one; a component *)
(* is a number, ordered like the text it stands for.  Two numbers with the *)
(* same half are two spellings of one component.  This takes the code's    *)
(* order of components for one order, which it is on a case-sensitive      *)
(* volume, and on a case-insensitive one for names of ASCII characters.    *)
(* With other characters it is not: MemfsWcsnicmp compares two components  *)
(* by their code points, or by CompareStringW as soon as it comes to a     *)
(* character that is not ASCII, so that "z" is before "_", "_" before "é"  *)
(* and "é" before "z", and a std::map over such names promises nothing.    *)
(* These names are outside the model and all that is shown with it.        *)
(*                                                                         *)
(* Attributes other than "directory", times and security descriptors are   *)
(* left out; the data of a file is in MemFsFile.                           *)
(***************************************************************************)
EXTENDS Naturals, Sequences, FiniteSets

CONSTANTS
  Node,          \* blocks of memory for a MEMFS_FILE_NODE
  Handle,        \* open-file contexts of WinFsp
  Component,     \* components of names, on which the code's order is one order
  Disk,          \* the component of \ftj_disk.bin
  Dot, DotDot,   \* the entries "." and "..", among the components in order;
                 \* ".." has no letters, so it has no other spelling
  MaxLen,        \* components in the longest name; stands for MEMFS_MAX_PATH
  MaxFileNodes,
  Room,          \* entries the buffer of a ReadDirectory may have room for
  None           \* no node, no marker

ASSUME MemFsAssumption ==
  /\ Component \subseteq Nat
  /\ Disk \in Component
  /\ {Dot, DotDot} \subseteq Nat \ Component
  /\ \A c \in Component : c \div 2 # DotDot \div 2
  /\ Dot # DotDot
  /\ MaxLen \in Nat \ {0}
  /\ MaxFileNodes \in Nat
  /\ Room \subseteq Nat \ {0}
  /\ None \notin Node \cup Nat
  /\ IsFiniteSet(Node) /\ IsFiniteSet(Handle)

VARIABLES
  caseInsensitive,  \* the volume was created with MemfsCaseInsensitive
  heap,             \* nodes that are allocated
  name,             \* node -> FileName
  dir,              \* node -> FILE_ATTRIBUTE_DIRECTORY
  ref,              \* node -> RefCount
  map,              \* FileNodeMap; its keys are the FileNames of its nodes
  open,             \* WinFsp: handle -> the node it was given, or None
  cleaned,          \* WinFsp: handles past their cleanup
  deleting,         \* WinFsp: nodes to be deleted at a cleanup
  onClose,          \* WinFsp: those of them that were opened to be deleted
  scan              \* history: a reading of a directory

nodes == <<heap, name, dir, ref, map>>
pending == <<deleting, onClose>>
vars == <<caseInsensitive, nodes, open, cleaned, pending, scan>>

-----------------------------------------------------------------------------
(* Names *)

Names == UNION {[1 .. k -> Component] : k \in 0 .. MaxLen}
Root == << >>
DiskName == <<Disk>>

Parent(nm) == SubSeq(nm, 1, Len(nm) - 1)
Back(nm) == nm[Len(nm)]

\* Case folding, on the names the model has (see above).
Fold(c) == IF caseInsensitive THEN c \div 2 ELSE c

\* MemfsFileNameHasPrefix.
HasPrefix(a, b) ==
  /\ Len(b) <= Len(a)
  /\ \A i \in 1 .. Len(b) : Fold(a[i]) = Fold(b[i])

\* MemfsFileNameCompare: equality, and the order of the map, in which a
\* directory stands before all that is in it.
SameName(a, b) == Len(a) = Len(b) /\ HasPrefix(a, b)

\* A mutant: the names of a level before those of the next.
BeforeByDepth(a, b) ==
  \/ Len(a) < Len(b)
  \/ /\ Len(a) = Len(b)
     /\ \E i \in 1 .. Len(b) :
          /\ \A j \in 1 .. i - 1 : Fold(a[j]) = Fold(b[j])
          /\ Fold(a[i]) < Fold(b[i])

Before(a, b) ==
  \E i \in 1 .. Len(b) :
    /\ \A j \in 1 .. i - 1 : j <= Len(a) /\ Fold(a[j]) = Fold(b[j])
    /\ i > Len(a) \/ Fold(a[i]) < Fold(b[i])

-----------------------------------------------------------------------------
(* The map *)

\* A mutant: case always matters.
FindExactly(nm) == {n \in map : name[n] = nm}

\* MemfsFileNodeMapGet: the node of that name, if there is one.
Find(nm) == {n \in map : SameName(name[n], nm)}

\* The nodes that a loop over "left", in the order of the map, visits before
\* the first one that is not under nm.
Run(nm, left) ==
  {n \in left : \A m \in left : ~Before(name[n], name[m]) => HasPrefix(name[m], nm)}

\* MemfsFileNodeMapHasChild looks at the next node of the map only.
HasChild(n) ==
  \E m \in map :
    /\ Before(name[n], name[m])
    /\ \A k \in map : Before(name[n], name[k]) => ~Before(name[k], name[m])
    /\ name[m] # Root /\ SameName(Parent(name[m]), name[n])

\* MemfsFileNodeMapEnumerateDescendants: from the node itself on.
Descendants(n) == Run(name[n], {m \in map : ~Before(name[m], name[n])})

\* MemfsFileNodeMapEnumerateChildren, after the entry "marker".
ChildrenAfter(n, marker) ==
  LET start == IF marker = None THEN name[n] ELSE Append(name[n], marker)
      after == {m \in map : Before(start, name[m])}
  IN {m \in Run(name[n], after) : SameName(Parent(name[m]), name[n])}

\* MemfsFileNodeDereference frees a node with its last reference.
Dereference(n) ==
  /\ ref' = [ref EXCEPT ![n] = @ - 1]
  /\ IF ref[n] = 1
     THEN /\ heap' = heap \ {n}
          /\ name' = [name EXCEPT ![n] = Root]
          /\ dir' = [dir EXCEPT ![n] = FALSE]
     ELSE UNCHANGED <<heap, name, dir>>

\* A mutant: the reference of the map is kept.
MapRemoveOnly(n) == map' = map \ Find(name[n]) /\ UNCHANGED <<heap, name, dir, ref>>

\* MemfsFileNodeMapRemove erases by name and dereferences the node it is
\* given, whichever node had that name.
MapRemove(n) ==
  IF Find(name[n]) = {}
  THEN UNCHANGED nodes
  ELSE map' = map \ Find(name[n]) /\ Dereference(n)

-----------------------------------------------------------------------------
(* Reading a directory takes several calls and changes nothing; the history  *)
(* scan follows one reading, and one file that was in the directory when it  *)
(* began, as long as this file keeps its name there.                         *)

Idle == [stage |-> "idle", by |-> None, marker |-> None, watched |-> None,
         told |-> 0, dotted |-> FALSE]

Followed ==
  LET m == scan.watched IN
  /\ scan.stage = "reading"
  /\ scan.by \notin cleaned'
  /\ m \in map' /\ Back(name'[m]) = Back(name[m])
  /\ SameName(Parent(name'[m]), name'[open[scan.by]])

ScanGoesOn == scan' = IF Followed THEN scan ELSE Idle

-----------------------------------------------------------------------------
(* The calls *)

\* MemfsCreateFunnel makes the root and the disk file; it goes on without
\* the disk file when there is no memory for it.
Formatted(insensitive, root, disk) ==
  LET made == {root, disk} \ {None} IN
  /\ caseInsensitive = insensitive
  /\ heap = made
  /\ map = made
  /\ name = [n \in Node |-> IF n = disk THEN DiskName ELSE Root]
  /\ dir = [n \in Node |-> n = root]
  /\ ref = [n \in Node |-> IF n \in made THEN 1 ELSE 0]

NoHandles ==
  /\ open = [h \in Handle |-> None]
  /\ cleaned = {}
  /\ deleting = {}
  /\ onClose = {}
  /\ scan = Idle

Init ==
  /\ \E insensitive \in BOOLEAN, root \in Node : \E disk \in (Node \ {root}) \cup {None} :
       Formatted(insensitive, root, disk)
  /\ NoHandles

Usable(h) == open[h] # None /\ h \notin cleaned

\* A mutant: the name as the host spells it.
NewNameAsGiven(nm, p) == nm

\* Create.  On a case-insensitive volume the new name takes the spelling of
\* its directory.
NewName(nm, p) == IF caseInsensitive THEN Append(name[p], Back(nm)) ELSE nm

MayCreate(h, nm) ==
  /\ open[h] = None
  /\ nm # Root /\ Find(nm) = {}
  /\ Cardinality(map) < MaxFileNodes

Create(h, nm, isDir) ==
  /\ MayCreate(h, nm)
  /\ \E p \in Find(Parent(nm)), n \in Node \ heap :
       /\ dir[p]
       /\ heap' = heap \cup {n}
       /\ name' = [name EXCEPT ![n] = NewName(nm, p)]
       /\ dir' = [dir EXCEPT ![n] = isDir]
       /\ map' = map \cup {n}
       /\ ref' = [ref EXCEPT ![n] = 2]
       /\ open' = [open EXCEPT ![h] = n]
  /\ UNCHANGED <<caseInsensitive, cleaned, pending>>
  /\ ScanGoesOn

\* Open; with deleteOnClose WinFsp asks nobody whether the file may go.
Open(h, n, deleteOnClose) ==
  /\ open[h] = None
  /\ n \in map
  /\ open' = [open EXCEPT ![h] = n]
  /\ ref' = [ref EXCEPT ![n] = @ + 1]
  /\ IF deleteOnClose
     THEN /\ name[n] # Root  \* WinFsp
          /\ deleting' = deleting \cup {n}
          /\ onClose' = onClose \cup {n}
     ELSE UNCHANGED pending
  /\ UNCHANGED <<caseInsensitive, heap, name, dir, map, cleaned>>
  /\ ScanGoesOn

\* A mutant: nothing is protected.
ProtectedNever(n) == FALSE

\* The disk file is neither marked for deletion nor renamed.
Protected(n) == name[n] = DiskName

\* CanDelete, asked when a host marks a file for deletion.
CanDelete(h) ==
  LET n == open[h] IN
  /\ Usable(h)
  /\ n \in map /\ name[n] # Root  \* WinFsp
  /\ ~Protected(n)
  /\ ~HasChild(n)
  /\ deleting' = deleting \cup {n}
  /\ UNCHANGED <<caseInsensitive, nodes, open, cleaned, onClose>>
  /\ ScanGoesOn

\* WinFsp: a host takes the mark back.
KeepFile(h) ==
  /\ Usable(h)
  /\ deleting' = deleting \ {open[h]}
  /\ onClose' = onClose \ {open[h]}
  /\ UNCHANGED <<caseInsensitive, nodes, open, cleaned>>
  /\ ScanGoesOn

LastUser(h) == \A g \in Handle \ {h} : open[g] = open[h] => g \in cleaned

\* Cleanup without FspCleanupDelete, or no call at all.
Cleanup(h) ==
  /\ Usable(h)
  /\ LastUser(h) => open[h] \notin deleting  \* WinFsp
  /\ cleaned' = cleaned \cup {h}
  /\ UNCHANGED <<caseInsensitive, nodes, open, pending>>
  /\ ScanGoesOn

\* Cleanup with FspCleanupDelete: at the last cleanup of the file, or at an
\* earlier one (POSIX deletion).  A directory may have got a child since
\* CanDelete; it stays.
CleanupDelete(h) ==
  LET n == open[h] IN
  /\ Usable(h)
  /\ n \in deleting  \* WinFsp
  /\ IF HasChild(n)
     THEN UNCHANGED nodes
     ELSE MapRemove(n)
  /\ cleaned' = cleaned \cup {h}
  /\ deleting' = deleting \ {n}
  /\ onClose' = onClose \ {n}
  /\ UNCHANGED <<caseInsensitive, open>>
  /\ ScanGoesOn

\* Close.
Close(h) ==
  LET n == open[h] IN
  /\ h \in cleaned
  /\ Dereference(n)
  /\ open' = [open EXCEPT ![h] = None]
  /\ cleaned' = cleaned \ {h}
  /\ UNCHANGED <<caseInsensitive, map, pending>>
  /\ ScanGoesOn

\* Rename.  The target is removed, then the nodes under the old name are
\* taken in their order, each out of the map and back in with its new name.
\* One that finds this name taken, by a node that keeps its name, was renamed
\* before it or is still to be renamed, is lost: the assertion of the code
\* says that none is.
Moved(n, m, nm) == nm \o SubSeq(name[m], Len(name[n]) + 1, Len(name[m]))

Replaceable(n, target, replace) ==
  \A t \in target \ {n} : replace /\ ~dir[t]

Lost(n, nm, removed, moving) ==
  {m \in moving : \E k \in map \ (removed \cup {m}) :
     SameName(IF k \in moving /\ Before(name[k], name[m]) THEN Moved(n, k, nm) ELSE name[k],
              Moved(n, m, nm))}

\* The nodes "gone" leave the map and their references with it.
Moves(n, nm, gone, moving) ==
  /\ map' = map \ gone
  /\ ref' = [m \in Node |-> IF m \in gone THEN ref[m] - 1 ELSE ref[m]]
  /\ heap' = {m \in heap : ref'[m] > 0}
  /\ name' = [m \in Node |-> CASE m \notin heap' -> Root
                               [] m \in moving \cap heap' -> Moved(n, m, nm)
                               [] OTHER -> name[m]]
  /\ dir' = [m \in Node |-> dir[m] /\ m \in heap']

MayRename(h, nm, replace) ==
  LET n == open[h] IN
  /\ Usable(h)
  /\ n \in map \ deleting /\ name[n] # Root  \* WinFsp
  /\ nm # Root /\ \E p \in map : dir[p] /\ name[p] = Parent(nm)  \* WinFsp
  /\ ~HasPrefix(Parent(nm), name[n])  \* WinFsp
  /\ ~Protected(n)
  /\ Replaceable(n, Find(nm), replace)
  /\ \A m \in Descendants(n) : Len(Moved(n, m, nm)) <= MaxLen

Rename(h, nm, replace) ==
  LET n == open[h] IN
  /\ MayRename(h, nm, replace)
  /\ \E moving \in {Descendants(n)} : \E removed \in {Find(nm) \ moving} :
       /\ Moves(n, nm, removed \cup Lost(n, nm, removed, moving), moving)
       /\ deleting' = deleting \ removed  \* WinFsp
       /\ onClose' = onClose \ removed
  /\ UNCHANGED <<caseInsensitive, open, cleaned>>
  /\ ScanGoesOn

\* ReadDirectory.  The entries after the marker, of which the first "room"
\* are returned; the last one is the next marker.  When all fit, the end of
\* the directory is reported.
Dots(n, marker) ==
  CASE name[n] = Root -> {}
    [] name[n] # Root /\ marker = None -> {Dot, DotDot}
    [] name[n] # Root /\ marker = Dot -> {DotDot}
    [] OTHER -> {}

\* A mutant: the marker "." is taken for the name of a file.
ChildMarkerKept(n, marker) == marker

ChildMarker(n, marker) == IF name[n] # Root /\ marker = Dot THEN None ELSE marker

\* Every entry with its place in the reply.
Earlier(e, f) ==
  \/ e = Dot /\ f # Dot
  \/ e = DotDot /\ f \notin {Dot, DotDot}
  \/ {e, f} \cap {Dot, DotDot} = {} /\ Fold(e) < Fold(f)

Entries(n, marker) ==
  Dots(n, marker) \cup {Back(name[m]) : m \in ChildrenAfter(n, ChildMarker(n, marker))}

Reply(entries, room) ==
  {e \in entries : Cardinality({f \in entries : Earlier(f, e)}) < room}

LastOf(reply) == CHOOSE e \in reply : \A f \in reply \ {e} : Earlier(f, e)

ReadDirectory(h, room, sofar) ==
  LET n == open[h] IN
  /\ Usable(h)
  /\ dir[n]
  /\ name[n] # Root => \E p \in Find(Parent(name[n])) : dir[p]
  /\ \E entries \in {Entries(n, sofar.marker)} : \E reply \in {Reply(entries, room)} :
       scan' =
         [sofar EXCEPT
            !.stage = IF reply = entries THEN "done" ELSE "reading",
            !.marker = IF reply = entries THEN None ELSE LastOf(reply),
            !.told = IF Back(name[sofar.watched]) \in reply THEN @ + 1 ELSE @,
            !.dotted = @ \/ (reply # entries /\ LastOf(reply) = DotDot)]
  /\ UNCHANGED <<caseInsensitive, nodes, open, cleaned, pending>>

StartReading(h, room, m) ==
  /\ open[h] # None
  /\ m \in map /\ name[m] # Root /\ SameName(Parent(name[m]), name[open[h]])
  /\ ReadDirectory(h, room, [Idle EXCEPT !.by = h, !.watched = m])

GoOnReading(room) ==
  /\ scan.stage = "reading"
  /\ ReadDirectory(scan.by, room, scan)

Next ==
  \E h \in Handle :
    \/ \E nm \in Names, isDir \in BOOLEAN : Create(h, nm, isDir)
    \/ \E n \in Node, deleteOnClose \in BOOLEAN : Open(h, n, deleteOnClose)
    \/ CanDelete(h)
    \/ KeepFile(h)
    \/ Cleanup(h)
    \/ CleanupDelete(h)
    \/ Close(h)
    \/ \E nm \in Names, replace \in BOOLEAN : Rename(h, nm, replace)
    \/ \E room \in Room : GoOnReading(room) \/ \E m \in Node : StartReading(h, room, m)

Spec == Init /\ [][Next]_vars

-----------------------------------------------------------------------------
(* Properties *)

Scans ==
  {s \in [stage : {"idle", "reading", "done"}, by : Handle \cup {None},
          marker : Component \cup {Dot, DotDot, None}, watched : Node \cup {None},
          told : Nat, dotted : BOOLEAN] :
     s.stage = "reading" => s.by \in Handle}

\* Every variable has its type, and what WinFsp holds refers to open files.
TypeOK ==
  /\ caseInsensitive \in BOOLEAN
  /\ heap \subseteq Node /\ map \subseteq Node
  /\ name \in [Node -> Names]
  /\ dir \in [Node -> BOOLEAN]
  /\ ref \in [Node -> Nat]
  /\ open \in [Handle -> Node \cup {None}]
  /\ cleaned \subseteq {h \in Handle : open[h] # None}
  /\ onClose \subseteq deleting /\ deleting \subseteq Node
  /\ scan \in Scans

UsersOf(n) == {h \in Handle : open[h] = n}

\* A node lives exactly as long as the map or a handle refers to it, and its
\* RefCount is the number of these references: no handle is left with a node
\* that was freed, none is freed twice and none is forgotten, whatever is
\* deleted, replaced or renamed while it is open.
References ==
  /\ TypeOK
  /\ \A n \in Node :
       ref[n] = Cardinality(UsersOf(n)) + (IF n \in map THEN 1 ELSE 0)
  /\ heap = {n \in Node : ref[n] > 0}

\* No insertion into the map finds its name taken, neither that of a Create,
\* which looked for the name the host gave and inserts the one it made of it,
\* nor any of a Rename that is let through, for the node itself or for one
\* under it: no file is lost to the order in which names are taken and freed.
InsertionsSucceed ==
  \A h \in Handle, nm \in Names :
    /\ MayCreate(h, nm) => \A p \in Find(Parent(nm)) : Find(NewName(nm, p)) = {}
    /\ MayRename(h, nm, TRUE) =>
         Lost(open[h], nm, Find(nm) \ Descendants(open[h]), Descendants(open[h])) = {}

\* Every file is in a directory of the volume, spelled the way the directory
\* is: no deletion or renaming leaves a file that cannot be reached.
TreeIsClosed ==
  \A n \in map : name[n] # Root =>
    \E p \in map : dir[p] /\ name[p] = Parent(name[n])

\* Looking at the next node of the map is enough to know whether a directory
\* is empty, for CanDelete and Cleanup, on names with one order.
EmptyIsEmpty ==
  \A n \in map :
    HasChild(n) <=> \E m \in map : name[m] # Root /\ SameName(Parent(name[m]), name[n])

\* The loop of Rename that stops at the first name without the prefix moves
\* every file of a directory with it, on names with one order.
MovesWhole == \A n \in map : Descendants(n) = {m \in map : HasPrefix(name[m], name[n])}

\* A reading of a directory in several calls returns each file that keeps its
\* name there all the while once and only once, whatever else is created,
\* deleted or renamed between the calls.  The one exception: a reply that
\* ends with "..", which the code does not treat as it does ".", hides the
\* files that sort before "..".  The names are such as have one order.
ReadingIsComplete ==
  scan.stage = "done" =>
    \/ scan.told = 1
    \/ /\ scan.told = 0 /\ scan.dotted
       /\ Fold(Back(name[scan.watched])) < Fold(DotDot)

\* The disk file leaves the volume in two ways only: a file is renamed onto
\* it, or it was opened to be deleted on close; CanDelete and Rename refuse
\* it, but neither of these ways asks them.
DiskStays ==
  [][\A n \in map :
       name[n] = DiskName =>
         \/ n \in map' /\ name'[n] = DiskName
         \/ \E m \in map' : m # n /\ SameName(name'[m], DiskName)
         \/ n \in onClose]_vars

\* No two files of the volume have equal names, up to case where case does
\* not matter.
NamesDiffer == \A m, n \in map : SameName(name[m], name[n]) => m = n

\* Only files of the volume are marked, and the disk file only by a host that
\* opened it to be deleted.
MarksAreSound ==
  /\ deleting \subseteq map
  /\ \A n \in deleting : name[n] = DiskName => n \in onClose

\* A reading that has come to its marker has told of the file it is watched
\* for once if it is past it, unless ".." hid it, and not yet otherwise.
Hidden(s) == s.told = 0 /\ s.dotted /\ Fold(Back(name[s.watched])) < Fold(DotDot)
Passed(s) ==
  \/ s.marker \in Component /\ Fold(Back(name[s.watched])) <= Fold(s.marker)
  \/ s.marker = DotDot /\ Fold(Back(name[s.watched])) < Fold(DotDot)
ToldRightly(s) ==
  /\ Passed(s) => s.told = 1 \/ Hidden(s)
  /\ ~Passed(s) => s.told = 0
  /\ s.marker = DotDot => s.dotted /\ s.told = 0

\* The file is in the directory that is read.
Watches(s) ==
  /\ Usable(s.by) /\ s.watched \in map /\ name[s.watched] # Root
  /\ SameName(Parent(name[s.watched]), name[open[s.by]])
  /\ s.marker = Dot => name[open[s.by]] # Root

ReadingGoesOn == scan.stage = "reading" => Watches(scan) /\ ToldRightly(scan)

\* What every step preserves, and what it preserves of a reading besides.
IInv == References /\ NamesDiffer /\ TreeIsClosed /\ MarksAreSound
ReadInv == ReadingGoesOn /\ ReadingIsComplete
=============================================================================
