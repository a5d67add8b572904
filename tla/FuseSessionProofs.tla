-------------------------- MODULE FuseSessionProofs --------------------------
(***************************************************************************)
(* The inode map and the descriptors of virtio-fs for any host tree, any   *)
(* numbering of its files and any number of descriptors.                   *)
(*                                                                         *)
(* IInv is inductive as it stands.  That the map has one entry per inode   *)
(* makes find_inode_path independent of the order of the list, so that     *)
(* adding an entry changes the path of no other inode (Prepend).  Where a  *)
(* path leads does not matter to it.                                       *)
(*                                                                         *)
(* FileReached is about where paths lead, and needs PathsLead beside IInv: *)
(* an entry of the map leads to the file LOOKUP made it for until that     *)
(* file is moved.  A path leads to a file along a route of directories, of *)
(* which a rename that does not move the file changes none (RouteAvoids).  *)
(* The lemmas on routes are inductions on the length of a path.            *)
(***************************************************************************)
EXTENDS FuseSession, WellFoundedInduction, TLAPS

IInv == TypeOK /\ NodesResolve /\ HandlesBalanced

Entry == [ino : Node, path : Seq(Name)]

\* FindInodePath in any map, and a map with one entry per inode.
PathIn(m, n) ==
  LET hits == {k \in DOMAIN m : m[k].ino = n}
  IN  IF hits = {} THEN None
      ELSE m[CHOOSE k \in hits : \A j \in hits : k <= j].path
OneEach(m) == \A j, k \in DOMAIN m : m[j].ino = m[k].ino => j = k

-----------------------------------------------------------------------------
\* The first entry with a number is the only one.
LEMMA PathOfEntry ==
  ASSUME NEW m \in Seq(Entry), OneEach(m), NEW k \in DOMAIN m
  PROVE  PathIn(m, m[k].ino) = m[k].path
<1> DEFINE hits == {j \in DOMAIN m : m[j].ino = m[k].ino}
<1>1. hits = {k} /\ k \in Nat
  BY DEF OneEach
<1>2. (CHOOSE i \in hits : \A j \in hits : i <= j) = k
  BY <1>1
<1> QED BY <1>1, <1>2 DEF PathIn

LEMMA PathTypes ==
  ASSUME NEW m \in Seq(Entry), OneEach(m), NEW n
  PROVE  /\ PathIn(m, n) \in Seq(Name) \cup {None}
         /\ PathIn(m, n) = None <=> \A k \in DOMAIN m : m[k].ino # n
<1>1. CASE \A k \in DOMAIN m : m[k].ino # n
  <2>1. {k \in DOMAIN m : m[k].ino = n} = {}
    BY <1>1
  <2>2. PathIn(m, n) = None
    BY <2>1 DEF PathIn
  <2> QED BY <1>1, <2>2
<1>2. CASE \E k \in DOMAIN m : m[k].ino = n
  <2>1. PICK k \in DOMAIN m : m[k].ino = n
    BY <1>2
  <2>2. PathIn(m, n) = m[k].path
    <3>1. PathIn(m, m[k].ino) = m[k].path
      BY PathOfEntry
    <3> QED BY <2>1, <3>1
  <2>3. m[k].path \in Seq(Name)
    <3>1. m[k] \in Entry
      OBVIOUS
    <3> QED BY <3>1 DEF Entry
  <2>4. PathIn(m, n) # None
    BY <2>2, <2>3, ConstAssumption
  <2> QED BY <1>2, <2>2, <2>3, <2>4
<1> QED BY <1>1, <1>2

\* A new entry at the head of the list is found, and hides no other.
LEMMA Prepend ==
  ASSUME NEW m \in Seq(Entry), OneEach(m), NEW e \in Entry, PathIn(m, e.ino) = None
  PROVE  /\ <<e>> \o m \in Seq(Entry) /\ OneEach(<<e>> \o m)
         /\ PathIn(<<e>> \o m, e.ino) = e.path
         /\ \A n : n # e.ino => PathIn(<<e>> \o m, n) = PathIn(m, n)
<1> DEFINE s == <<e>> \o m
<1>1. \A k \in DOMAIN m : m[k].ino # e.ino
  BY PathTypes
<1>2. /\ s \in Seq(Entry) /\ DOMAIN s = 1 .. Len(m) + 1 /\ s[1] = e
      /\ \A k \in 1 .. Len(m) : s[k + 1] = m[k]
      /\ Len(m) \in Nat /\ DOMAIN m = 1 .. Len(m)
  OBVIOUS
<1> HIDE DEF s
<1>3. \A j \in DOMAIN s : j = 1 \/ (j - 1 \in 1 .. Len(m) /\ s[j] = m[j - 1])
  <2> SUFFICES ASSUME NEW j \in DOMAIN s, j # 1
               PROVE  j - 1 \in 1 .. Len(m) /\ s[j] = m[j - 1]
    OBVIOUS
  <2>1. j - 1 \in 1 .. Len(m) /\ (j - 1) + 1 = j
    BY <1>2
  <2>2. s[(j - 1) + 1] = m[j - 1]
    BY <1>2, <2>1
  <2> QED BY <2>1, <2>2
<1>4. OneEach(s)
  <2> SUFFICES ASSUME NEW j \in DOMAIN s, NEW k \in DOMAIN s, s[j].ino = s[k].ino
               PROVE  j = k
    BY DEF OneEach
  <2>1. CASE j = 1 \/ k = 1
    BY <1>1, <1>2, <1>3, <2>1
  <2>2. CASE j # 1 /\ k # 1
    <3>1. /\ j - 1 \in DOMAIN m /\ k - 1 \in DOMAIN m
          /\ m[j - 1].ino = m[k - 1].ino
      BY <1>2, <1>3, <2>2
    <3>2. j - 1 = k - 1
      BY <3>1 DEF OneEach
    <3> QED BY <1>2, <3>2
  <2> QED BY <2>1, <2>2
<1>5. PathIn(s, e.ino) = e.path
  <2>1. 1 \in DOMAIN s
    BY <1>2
  <2> QED BY <1>2, <1>4, <2>1, PathOfEntry
<1>6. ASSUME NEW n, n # e.ino
      PROVE  PathIn(s, n) = PathIn(m, n)
  <2>1. CASE \A k \in DOMAIN m : m[k].ino # n
    <3>1. \A j \in DOMAIN s : s[j].ino # n
      BY <1>2, <1>3, <1>6, <2>1
    <3>2. PathIn(s, n) = None
      BY <1>2, <1>4, <3>1, PathTypes
    <3>3. PathIn(m, n) = None
      BY <2>1, PathTypes
    <3> QED BY <3>2, <3>3
  <2>2. CASE \E k \in DOMAIN m : m[k].ino = n
    <3>1. PICK k \in DOMAIN m : m[k].ino = n
      BY <2>2
    <3>2. k + 1 \in DOMAIN s /\ s[k + 1] = m[k]
      BY <1>2
    <3>3. PathIn(s, s[k + 1].ino) = s[k + 1].path
      BY <1>2, <1>4, <3>2, PathOfEntry, Zenon
    <3> QED BY <3>1, <3>2, <3>3, PathOfEntry
  <2> QED BY <2>1, <2>2
<1> QED BY <1>2, <1>4, <1>5, <1>6 DEF s

\* open() grants a descriptor that is not in use.
LEMMA LowestIsUnused ==
  ASSUME Unused # {}, TypeOK
  PROVE  LowestFd \in Unused
<1>1. Unused \subseteq Nat /\ MaxFd \in Nat
  BY ConstAssumption DEF Unused, Fd
<1>2. \E d \in Unused : \A e \in Unused : ~(<<e, d>> \in OpToRel(<, Nat))
  BY <1>1, NatLessThanWellFounded, WFMin, Zenon
<1>3. ASSUME NEW d \in Nat, NEW e \in Nat, ~(<<e, d>> \in OpToRel(<, Nat))
      PROVE  d <= e
  <2>1. <<e, d>> \in Nat \X Nat /\ <<e, d>>[1] = e /\ <<e, d>>[2] = d
    OBVIOUS
  <2>2. ~(e < d)
    BY <1>3, <2>1, Zenon DEF OpToRel
  <2> QED BY <2>2
<1>4. \E d \in Unused : \A e \in Unused : d <= e
  BY <1>1, <1>2, <1>3, Zenon
<1> QED BY <1>4 DEF LowestFd

-----------------------------------------------------------------------------
LEMMA EmptyPath == <<>> # None
<1>1. <<>> \in Seq(Name)
  OBVIOUS
<1> QED BY <1>1, ConstAssumption, Zenon

\* What IInv says of the map.
LEMMA MapFacts ==
  ASSUME IInv
  PROVE  /\ inode_map \in Seq(Entry) /\ OneEach(inode_map)
         /\ PathIn(inode_map, 1) = <<>>
         /\ \A n \in Node : meant[n] # None => PathIn(inode_map, n) # None
         /\ \A n : FindInodePath(n) = PathIn(inode_map, n)
         /\ \A n : FindInodePath(n)' = PathIn(inode_map', n)
<1>1. \A n : FindInodePath(n) = PathIn(inode_map, n)
  BY DEF FindInodePath, PathIn
<1>2. \A n : FindInodePath(n)' = PathIn(inode_map', n)
  BY DEF FindInodePath, PathIn
<1> QED BY <1>1, <1>2 DEF IInv, TypeOK, NodesResolve, Entry, OneEach

LEMMA InitIInv == Init => IInv
<1> SUFFICES ASSUME Init PROVE IInv
  OBVIOUS
<1>1. shared_dir \in BOOLEAN
  BY Zenon DEF Init
<1>2. /\ ino \in Numberings /\ at \in Trees /\ moved = {} /\ changes = 0
      /\ inode_map = <<[ino |-> 1, path |-> <<>>]>>
      /\ fds = [d \in Fd |-> None]
      /\ meant = [n \in Node |-> IF n = 1 THEN Root ELSE None] /\ listed = {}
      /\ held = [d \in Fd |-> None] /\ lost = {} /\ seen = {Root}
      /\ last = Quiet
  BY DEF Init
<1>3. inode_map \in Seq([ino : Node, path : Seq(Name)])
  <2>1. [ino |-> 1, path |-> <<>>] \in [ino : Node, path : Seq(Name)]
    BY DEF Node
  <2> QED BY <1>2, <2>1
<1>4. TypeOK
  BY <1>1, <1>2, <1>3, ConstAssumption DEF TypeOK, Host, Quiet
<1>5. HandlesBalanced
  BY <1>2 DEF HandlesBalanced
<1>6. FindInodePath(1) = <<>>
  <2>1. inode_map \in Seq(Entry) /\ OneEach(inode_map)
    BY <1>2, <1>3 DEF Entry, OneEach
  <2>2. 1 \in DOMAIN inode_map /\ inode_map[1].ino = 1 /\ inode_map[1].path = <<>>
    BY <1>2
  <2>3. PathIn(inode_map, 1) = <<>>
    BY <2>1, <2>2, PathOfEntry
  <2> QED BY <2>3 DEF FindInodePath, PathIn
<1>7. NodesResolve
  <2>1. <<>> # None
    BY EmptyPath
  <2>2. \A n \in Node : meant[n] # None => n = 1
    BY <1>2
  <2> QED BY <1>2, <1>6, <2>1, <2>2 DEF NodesResolve
<1> QED BY <1>4, <1>5, <1>7 DEF IInv

(***************************************************************************)
(* A step that leaves the map and the handles alone and takes no node away *)
(* or gives none but the root.                                             *)
(***************************************************************************)
LEMMA TablesKept ==
  ASSUME IInv, UNCHANGED inode_map,
         \A n \in Node : meant'[n] # None => meant[n] # None \/ n = 1
  PROVE  NodesResolve'
<1>1. /\ PathIn(inode_map', 1) = <<>> /\ OneEach(inode_map')
      /\ \A n \in Node : meant'[n] # None => PathIn(inode_map', n) # None
  <2>1. <<>> # None
    BY EmptyPath
  <2> QED BY <2>1, MapFacts
<1> QED BY <1>1, MapFacts DEF NodesResolve, OneEach

Reply == [want : Host \cup {None}, file : Host \cup {None},
          err : {"none", "silent", "unknown", "host", "unsupported"}]

\* A request that is only answered.
LEMMA AnswerKeeps ==
  ASSUME IInv, NEW want \in Host \cup {None}, NEW file \in Host \cup {None},
         NEW err \in {"none", "silent", "unknown", "host", "unsupported"},
         Answer(want, file, err)
  PROVE  IInv'
<1>1. UNCHANGED <<ino, at, moved, changes, inode_map, shared_dir, fds, meant, listed, held,
                  lost, seen>>
  BY DEF Answer, hostVars
<1>2. last' \in Reply
  BY DEF Answer, Reply
<1>3. TypeOK'
  BY <1>1, <1>2 DEF IInv, TypeOK, Reply, Node, Fd, Host
<1>4. HandlesBalanced'
  BY <1>1 DEF IInv, HandlesBalanced
<1> QED BY <1>1, <1>3, <1>4, TablesKept DEF IInv

\* The host changes its tree.
LEMMA HostStep ==
  ASSUME IInv,
         \/ \E f \in File, p \in Places : HostCreate(f, p) \/ HostRename(f, p)
         \/ \E f \in File : HostRemove(f)
  PROVE  IInv'
<1>1. UNCHANGED <<ino, inode_map, shared_dir, fds, meant, listed, held, lost, seen>>
  BY DEF HostCreate, HostRename, HostRemove
<1>2. changes < MaxChanges /\ changes' = changes + 1 /\ last' = Quiet
  BY DEF HostCreate, HostRename, HostRemove
<1>3. \A f \in File : Below(f) \subseteq File
  BY DEF Below
<1>4. moved' \subseteq File
  BY <1>3 DEF HostCreate, HostRename, HostRemove, IInv, TypeOK
<1>5. at' \in [File -> {None} \cup (Dir \cup {Root}) \X Name]
  <2>1. PICK f \in File, p \in Places \cup {None} : at' = [at EXCEPT ![f] = p]
    BY DEF HostCreate, HostRename, HostRemove
  <2>2. p \in {None} \cup (Dir \cup {Root}) \X Name
    BY DEF Places
  <2> QED BY <2>1, <2>2 DEF IInv, TypeOK
<1>6. changes' \in 0 .. MaxChanges
  BY <1>2, ConstAssumption DEF IInv, TypeOK
<1>7. last' \in Reply
  BY <1>2 DEF Quiet, Reply
<1>8. TypeOK'
  BY <1>1, <1>4, <1>5, <1>6, <1>7 DEF IInv, TypeOK, Reply
<1>9. HandlesBalanced'
  BY <1>1 DEF IInv, HandlesBalanced
<1> QED BY <1>1, <1>8, <1>9, TablesKept DEF IInv

\* LOOKUP: the file found gets its number in the map unless it is there.
LEMMA LookupStep ==
  ASSUME IInv, NEW n \in Usable, NEW name \in Name, NEW x \in {"none", "mem", "host"},
         Lookup(n, name, x)
  PROVE  IInv'
<1> DEFINE parent == FindInodePath(n)
           path == Append(parent, name)
           f == Resolve(path)
<1>1. CASE \E err \in {"silent", "host"} : Answer(None, None, err)
  BY <1>1, AnswerKeeps
<1>2. CASE ~\E err \in {"silent", "host"} : Answer(None, None, err)
  <2>1. /\ parent # None /\ f \in File
        /\ inode_map' = IF FindInodePath(ino[f]) # None THEN inode_map
                        ELSE <<[ino |-> ino[f], path |-> path]>> \o inode_map
        /\ meant' = [meant EXCEPT ![ino[f]] = f]
        /\ listed' = listed \ {ino[f]}
        /\ seen' = seen \cup {f} /\ last' = Quiet
        /\ UNCHANGED <<hostVars, shared_dir, fds, held, lost>>
    BY <1>2, Zenon DEF Lookup
  <2>2. path \in Seq(Name)
    <3>1. parent \in Seq(Name)
      BY <2>1, MapFacts, PathTypes
    <3> QED BY <3>1
  <2> HIDE DEF f, path, parent
  <2>3. ino[f] \in Node
    BY <2>1, ConstAssumption DEF Node, IInv, TypeOK
  <2> DEFINE e == [ino |-> ino[f], path |-> path]
  <2>4. e \in Entry /\ e.ino = ino[f] /\ e.path = path
    BY <2>2, <2>3 DEF Entry
  <2>5. path # None
    BY <2>2, ConstAssumption
  <2> HIDE DEF e
  <2>6. /\ inode_map' \in Seq(Entry) /\ OneEach(inode_map')
        /\ PathIn(inode_map', ino[f]) # None
        /\ \A k : k # ino[f] => PathIn(inode_map', k) = PathIn(inode_map, k)
        /\ ino[f] = 1 => inode_map' = inode_map
    <3>1. inode_map \in Seq(Entry) /\ OneEach(inode_map) /\ PathIn(inode_map, 1) # None
      BY MapFacts, EmptyPath
    <3>2. CASE PathIn(inode_map, ino[f]) # None
      BY <2>1, <3>1, <3>2, MapFacts, ZenonT(30)
    <3>3. CASE PathIn(inode_map, ino[f]) = None
      <4>1. inode_map' = <<e>> \o inode_map
        BY <2>1, <3>3, MapFacts, ZenonT(30) DEF e
      <4>2. /\ <<e>> \o inode_map \in Seq(Entry) /\ OneEach(<<e>> \o inode_map)
            /\ PathIn(<<e>> \o inode_map, e.ino) = e.path
            /\ \A k : k # e.ino => PathIn(<<e>> \o inode_map, k) = PathIn(inode_map, k)
        <5>1. PathIn(inode_map, e.ino) = None
          BY <2>4, <3>3
        <5> QED BY <2>4, <3>1, <5>1, Prepend
      <4>3. ino[f] # 1
        BY <3>1, <3>3
      <4> QED BY <2>4, <2>5, <4>1, <4>2, <4>3
    <3> QED BY <3>2, <3>3
  <2>7. \A k \in Node : meant'[k] = IF k = ino[f] THEN f ELSE meant[k]
    BY <2>1, <2>3 DEF IInv, TypeOK
  <2>8. NodesResolve'
    <3>1. PathIn(inode_map', 1) = <<>>
      BY <2>6, MapFacts
    <3>2. \A k \in Node : meant'[k] # None => PathIn(inode_map', k) # None
      BY <2>6, <2>7, MapFacts
    <3> QED BY <2>6, <3>1, <3>2, MapFacts DEF NodesResolve, OneEach
  <2>9. TypeOK'
    <3>1. meant' \in [Node -> Host \cup {None}] /\ seen' \subseteq Host
      BY <2>1, <2>3 DEF IInv, TypeOK, Host
    <3>2. last' \in Reply
      BY <2>1 DEF Quiet, Reply
    <3>3. UNCHANGED <<ino, at, moved, changes, shared_dir, fds, held, lost>>
      BY <2>1 DEF hostVars
    <3>4. listed' \subseteq Node
      BY <2>1 DEF IInv, TypeOK
    <3> QED BY <2>6, <3>1, <3>2, <3>3, <3>4, ZenonT(30) DEF IInv, TypeOK, Reply, Entry
  <2>10. HandlesBalanced'
    BY <2>1 DEF IInv, HandlesBalanced
  <2> QED BY <2>8, <2>9, <2>10 DEF IInv
<1> QED BY <1>1, <1>2

\* A descriptor is granted for a host file.
LEMMA GrantKeeps ==
  ASSUME IInv, NEW n \in Node, NEW f \in Host, NEW path \in Seq(Name), Unused # {},
         Grant(n, f, path)
  PROVE  IInv'
<1> DEFINE d == LowestFd
           r == [file |-> f, path |-> path]
<1>1. d \in Fd /\ fds[d] = None
  BY LowestIsUnused DEF IInv, Unused
<1>2. /\ fds' = [fds EXCEPT ![d] = r] /\ held' = [held EXCEPT ![d] = f]
      /\ last' = [want |-> meant[n], file |-> f, err |-> "none"]
      /\ UNCHANGED <<ino, at, moved, changes, inode_map, shared_dir, meant, listed, lost, seen>>
  BY DEF Grant, hostVars
<1>3. r \in [file : Host, path : Seq(Name)] /\ r # None /\ r.file = f /\ f # None
  BY ConstAssumption
<1> HIDE DEF d, r
<1>4. held[d] = None /\ d \notin lost
  BY <1>1 DEF IInv, HandlesBalanced
<1>5. fds' \in [Fd -> {None} \cup [file : Host, path : Seq(Name)]]
  BY <1>1, <1>2, <1>3 DEF IInv, TypeOK
<1>6. held' \in [Fd -> Host \cup {None}]
  BY <1>1, <1>2 DEF IInv, TypeOK
<1>7. last' \in Reply
  BY <1>2, ZenonT(30) DEF IInv, TypeOK, Reply
<1>8. TypeOK'
  BY <1>2, <1>5, <1>6, <1>7, ZenonT(30) DEF IInv, TypeOK, Reply
<1>9. HandlesBalanced'
  <2>1. \A k \in Fd : /\ fds'[k] = IF k = d THEN r ELSE fds[k]
                      /\ held'[k] = IF k = d THEN f ELSE held[k]
    BY <1>1, <1>2, ZenonT(30) DEF IInv, TypeOK
  <2> QED BY <1>2, <1>3, <1>4, <2>1 DEF IInv, HandlesBalanced
<1> QED BY <1>2, <1>8, <1>9, TablesKept DEF IInv

\* The requests that open, read, list and ask for attributes.
LEMMA NodeStep ==
  ASSUME IInv, NEW n \in Usable, NEW x \in {"none", "mem", "host"},
         Getattr(n, x) \/ Open(n, x) \/ Opendir(n, x)
  PROVE  IInv'
<1>1. n \in Node /\ meant[n] \in Host \cup {None}
  BY DEF Usable, IInv, TypeOK
<1>2. /\ FindInodePath(n) # None => FindInodePath(n) \in Seq(Name)
      /\ TargetPath(n) # None => TargetPath(n) \in Seq(Name)
  <2>1. FindInodePath(n) \in Seq(Name) \cup {None}
    BY MapFacts, PathTypes
  <2>2. <<>> \in Seq(Name)
    OBVIOUS
  <2> QED BY <2>1, <2>2 DEF TargetPath
<1>3. CASE \E err \in {"none", "silent", "unknown", "host"}, file \in Host \cup {None} :
             Answer(meant[n], file, err)
  BY <1>1, <1>3, AnswerKeeps
<1>4. CASE ~\E err \in {"none", "silent", "unknown", "host"}, file \in Host \cup {None} :
             Answer(meant[n], file, err)
  <2>1. ~Getattr(n, x)
    BY <1>4 DEF Getattr
  <2>2. CASE Open(n, x)
    <3>1. /\ TargetPath(n) # None /\ Resolve(TargetPath(n)) \in Host /\ Unused # {}
          /\ Grant(n, Resolve(TargetPath(n)), TargetPath(n))
      BY <1>4, <2>2 DEF Open
    <3> QED BY <1>1, <1>2, <3>1, GrantKeeps
  <2>3. CASE Opendir(n, x)
    <3>1. /\ FindInodePath(n) # None /\ Resolve(FindInodePath(n)) \in Dir \cup {Root}
          /\ Unused # {} /\ Grant(n, Resolve(FindInodePath(n)), FindInodePath(n))
      BY <1>4, <2>3 DEF Opendir
    <3>2. Resolve(FindInodePath(n)) \in Host
      BY <3>1, ConstAssumption DEF Host
    <3> QED BY <1>1, <1>2, <3>1, <3>2, GrantKeeps
  <2> QED BY <2>1, <2>2, <2>3
<1> QED BY <1>3, <1>4

LEMMA ReaddirplusStep ==
  ASSUME IInv, NEW d \in Fd, Readdirplus(d)
  PROVE  IInv'
<1>1. /\ UNCHANGED <<ino, at, moved, changes, inode_map, shared_dir, fds, meant, held, lost, seen>>
      /\ last' = Quiet
  BY ZenonT(30) DEF Readdirplus, hostVars
<1>2. listed' \subseteq Node
  <2>1. \A f \in File : ino[f] \in Node
    BY ConstAssumption DEF Node, IInv, TypeOK
  <2> QED BY <2>1 DEF Readdirplus, IInv, TypeOK
<1>3. last' \in Reply
  BY <1>1 DEF Quiet, Reply
<1>4. TypeOK'
  BY <1>1, <1>2, <1>3 DEF IInv, TypeOK, Reply
<1>5. HandlesBalanced'
  BY <1>1, ZenonT(30) DEF IInv, HandlesBalanced
<1> QED BY <1>1, <1>4, <1>5, TablesKept DEF IInv

LEMMA ReadStep ==
  ASSUME IInv, NEW d \in Fd, NEW x \in {"none", "mem", "host"}, Read(d, x)
  PROVE  IInv'
<1>1. held[d] # None /\ fds[d].file = held[d] /\ held[d] \in Host \cup {None}
  BY ZenonT(30) DEF Read, IInv, TypeOK, HandlesBalanced
<1>2. \E file \in Host \cup {None}, err \in {"none", "host"} : Answer(held[d], file, err)
  BY <1>1 DEF Read
<1> QED BY <1>1, <1>2, AnswerKeeps

\* RELEASE and RELEASEDIR: a handle the guest holds, once.
LEMMA CloseStep ==
  ASSUME IInv, NEW d \in Fd, Close(d)
  PROVE  IInv'
<1>1. /\ held[d] # None /\ fds' = [fds EXCEPT ![d] = None]
      /\ held' = [held EXCEPT ![d] = None] /\ last' = Quiet
      /\ UNCHANGED <<ino, at, moved, changes, inode_map, shared_dir, meant, listed, lost, seen>>
  BY DEF Close, hostVars
<1>2. d \notin lost
  BY <1>1 DEF IInv, HandlesBalanced
<1>3. \A k \in Fd : /\ fds'[k] = IF k = d THEN None ELSE fds[k]
                    /\ held'[k] = IF k = d THEN None ELSE held[k]
  BY <1>1 DEF IInv, TypeOK
<1>4. last' \in Reply
  BY <1>1 DEF Quiet, Reply
<1>5. /\ fds' \in [Fd -> {None} \cup [file : Host, path : Seq(Name)]]
      /\ held' \in [Fd -> Host \cup {None}]
  BY <1>1, ZenonT(30) DEF IInv, TypeOK
<1>6. TypeOK'
  BY <1>1, <1>4, <1>5, ZenonT(30) DEF IInv, TypeOK, Reply
<1>7. HandlesBalanced'
  BY <1>1, <1>2, <1>3, SMTT(60) DEF IInv, HandlesBalanced
<1> QED BY <1>1, <1>6, <1>7, TablesKept DEF IInv

LEMMA ForgetStep ==
  ASSUME IInv, NEW n \in Usable, Forget(n)
  PROVE  IInv'
<1>1. /\ meant' = [meant EXCEPT ![n] = None] /\ listed' = listed \ {n} /\ last' = Quiet
      /\ UNCHANGED <<ino, at, moved, changes, inode_map, shared_dir, fds, held, lost, seen>>
  BY DEF Forget, hostVars
<1>2. /\ meant' \in [Node -> Host \cup {None}] /\ listed' \subseteq Node
      /\ \A k \in Node : meant'[k] # None => meant[k] # None
  BY <1>1, Zenon DEF IInv, TypeOK
<1>3. last' \in Reply
  BY <1>1 DEF Quiet, Reply
<1>4. TypeOK'
  BY <1>1, <1>2, <1>3, ZenonT(30) DEF IInv, TypeOK, Reply
<1>5. HandlesBalanced'
  BY <1>1 DEF IInv, HandlesBalanced
<1> QED BY <1>1, <1>2, <1>4, <1>5, TablesKept DEF IInv

LEMMA ResetStep ==
  ASSUME IInv, NEW x \in {"none", "mem"}, Reset(x)
  PROVE  IInv'
<1>1. /\ meant' = [n \in Node |-> IF n = 1 THEN Root ELSE None] /\ listed' = {}
      /\ held' = [d \in Fd |-> None] /\ last' = Quiet
      /\ lost' = lost \cup {d \in Fd : held[d] # None}
      /\ UNCHANGED <<ino, at, moved, changes, inode_map, fds, seen>>
  BY DEF Reset, hostVars
<1>2. shared_dir' \in BOOLEAN
  <2>1. shared_dir' = (shared_dir /\ x = "none")
    BY DEF Reset
  <2>2. (shared_dir /\ x = "none") \in BOOLEAN
    BY Zenon
  <2> QED BY <2>1, <2>2
<1>3. /\ meant' \in [Node -> Host \cup {None}] /\ held' \in [Fd -> Host \cup {None}]
      /\ lost' \subseteq Fd
  BY <1>1 DEF IInv, TypeOK, Host
<1>4. last' \in Reply
  BY <1>1 DEF Quiet, Reply
<1>5. TypeOK'
  BY <1>1, <1>2, <1>3, <1>4 DEF IInv, TypeOK, Reply
<1>6. HandlesBalanced'
  BY <1>1, ZenonT(30) DEF IInv, HandlesBalanced
<1>7. \A k \in Node : meant'[k] # None => k = 1
  BY <1>1
<1> QED BY <1>1, <1>5, <1>6, <1>7, TablesKept DEF IInv

-----------------------------------------------------------------------------
\* The inductive invariant of virtio-fs, over every request it answers.
THEOREM Invariant == Spec => []IInv
<1>1. IInv /\ [Next]_vars => IInv'
  <2> SUFFICES ASSUME IInv, [Next]_vars PROVE IInv'
    OBVIOUS
  <2>1. CASE InitSession \/ Flush \/ Destroy \/ Unsupported
    BY <2>1, AnswerKeeps DEF InitSession, Flush, Destroy, Unsupported
  <2>2. CASE UNCHANGED vars
    <3>1. UNCHANGED <<ino, at, moved, changes, inode_map, shared_dir, fds, meant, listed, held,
                      lost, seen, last>>
      BY <2>2 DEF vars
    <3>2. TypeOK' /\ HandlesBalanced'
      BY <3>1, ZenonT(30) DEF IInv, TypeOK, HandlesBalanced
    <3> QED BY <3>1, <3>2, TablesKept DEF IInv
  <2>3. CASE Next
    BY <2>1, <2>3, HostStep, LookupStep, NodeStep, ReaddirplusStep, ReadStep, CloseStep,
       ForgetStep, ResetStep, ZenonT(30) DEF Next, Release, Releasedir
  <2> QED BY <2>2, <2>3
<1> QED BY InitIInv, <1>1, PTL DEF Spec

\* The map, the descriptors and what the guest holds keep their types.
THEOREM TypeCorrect == Spec => []TypeOK
BY Invariant, PTL DEF IInv

(***************************************************************************)
(* find_inode_path finds every node id LOOKUP gave the guest, whatever the *)
(* host numbers its files, and the root has the empty path.                *)
(***************************************************************************)
THEOREM NodesAlwaysResolve == Spec => []NodesResolve
BY Invariant, PTL DEF IInv

(***************************************************************************)
(* A descriptor or stream is open exactly if the guest holds it or a reset *)
(* of the device took it from the guest, for any number of them.           *)
(***************************************************************************)
THEOREM HandlesAccounted == Spec => []HandlesBalanced
BY Invariant, PTL DEF IInv

-----------------------------------------------------------------------------
(* Where a path leads.  Resolve takes Child of the names of the path; a    *)
(* route is the directories and the file it passes.                        *)

Tree == [File -> {None} \cup (Dir \cup {Root}) \X Name]

\* One entry by each name in each directory of tree t.
OnePlaceEach(t) == \A f, g \in File : t[f] = t[g] /\ t[f] # None => f = g

ChildIn(t, d, name) ==
  IF \E f \in File : t[f] = <<d, name>>
  THEN CHOOSE f \in File : t[f] = <<d, name>> ELSE None

Maybe == Host \cup {None}
Found(t, d, name, f) ==
  f \in File \cup {None} /\ (f \in File => t[f] = <<d, name>> /\ d \in Host)

Step(w, t, p, k) == IF k = 0 THEN Root ELSE ChildIn(t, w[k - 1], p[k])
IsWalk(w, t, p, n) == w = [k \in 0 .. n |-> Step(w, t, p, k)]

Walks(w, t, p) ==
  /\ w[0] = Root
  /\ \A k \in 1 .. Len(p) : w[k] = ChildIn(t, w[k - 1], p[k])

IsRoute(c, t, p) ==
  /\ c \in [0 .. Len(p) -> Host] /\ c[0] = Root
  /\ \A k \in 1 .. Len(p) : c[k] \in File /\ t[c[k]] = <<c[k - 1], p[k]>>
Leads(t, p, g) == \E c : IsRoute(c, t, p) /\ c[Len(p)] = g

LEMMA NatSet ==
  ASSUME NEW P \in SUBSET Nat, 0 \in P, \A n \in P : n + 1 \in P
  PROVE  P = Nat
<1> SUFFICES ASSUME NEW x \in Nat \ P PROVE FALSE
  OBVIOUS
<1>1. IsWellFoundedOn(OpToRel(<, Nat), Nat)
  BY NatLessThanWellFounded
<1>2. PICK y \in Nat \ P : \A z \in Nat \ P : ~(<<z, y>> \in OpToRel(<, Nat))
  <2>1. Nat \ P \subseteq Nat /\ Nat \ P # {}
    OBVIOUS
  <2> QED BY <1>1, <2>1, WFMin, Zenon
<1>3. \A z \in Nat \ P : ~(z < y)
  BY <1>2 DEF OpToRel
<1>4. y # 0 /\ y - 1 \in Nat /\ (y - 1) + 1 = y /\ y - 1 < y
  OBVIOUS
<1> QED BY <1>3, <1>4

\* The walk exists: along the first n names, for every n.
LEMMA WalkExists ==
  ASSUME NEW t, NEW p
  PROVE  \A n \in Nat : \E w : IsWalk(w, t, p, n)
<1> DEFINE Q == {n \in Nat : \E w : IsWalk(w, t, p, n)}
<1>1. 0 \in Q
  <2> DEFINE w == [k \in 0 .. 0 |-> Root]
  <2>1. \A k \in 0 .. 0 : k = 0
    OBVIOUS
  <2>2. \A k \in 0 .. 0 : Step(w, t, p, k) = Root
    BY <2>1, Zenon DEF Step
  <2>3. IsWalk(w, t, p, 0)
    BY <2>2, Zenon DEF IsWalk
  <2> QED BY <2>3
<1>2. ASSUME NEW n \in Q PROVE n + 1 \in Q
  <2>1. PICK w : IsWalk(w, t, p, n)
    OBVIOUS
  <2>2. n \in Nat /\ n + 1 \in Nat
    OBVIOUS
  <2> HIDE DEF Q
  <2> DEFINE v == [k \in 0 .. n + 1 |->
                     IF k = n + 1 THEN ChildIn(t, w[n], p[n + 1]) ELSE w[k]]
  <2>3. ASSUME NEW k \in 0 .. n + 1 PROVE v[k] = Step(v, t, p, k)
    <3>1. CASE k = n + 1
      <4>1. n \in 0 .. n + 1 /\ n # n + 1 /\ k # 0 /\ k - 1 = n
        BY <2>2, <3>1
      <4>2. v[n] = w[n] /\ v[k] = ChildIn(t, w[n], p[n + 1])
        BY <3>1, <4>1, Zenon
      <4> QED BY <3>1, <4>1, <4>2, Zenon DEF Step
    <3>2. CASE k # n + 1
      <4>1. k \in 0 .. n /\ (k # 0 => k - 1 \in 0 .. n + 1 /\ k - 1 # n + 1)
        BY <2>2, <3>2
      <4>2. v[k] = w[k] /\ (k # 0 => v[k - 1] = w[k - 1])
        BY <3>2, <4>1, Zenon
      <4>3. w[k] = Step(w, t, p, k)
        BY <2>1, <4>1, Zenon DEF IsWalk
      <4> QED BY <4>2, <4>3, Zenon DEF Step
    <3> QED BY <3>1, <3>2
  <2>4. v = [k \in 0 .. n + 1 |-> Step(v, t, p, k)]
    <3>1. v = [k \in 0 .. n + 1 |-> v[k]]
      BY Zenon
    <3> HIDE DEF v
    <3> QED BY <2>3, <3>1, Zenon
  <2> HIDE DEF v
  <2>5. IsWalk(v, t, p, n + 1)
    BY <2>4, Zenon DEF IsWalk
  <2> QED BY <2>2, <2>5, Zenon DEF Q
<1>3. Q = Nat
  <2>1. Q \in SUBSET Nat
    OBVIOUS
  <2> HIDE DEF Q
  <2> QED BY <1>1, <1>2, <2>1, NatSet, Zenon
<1> QED BY <1>3

LEMMA ResolveIs ==
  ASSUME NEW p \in Seq(Name)
  PROVE  \E w : IsWalk(w, at, p, Len(p)) /\ Resolve(p) = w[Len(p)]
<1>1. Len(p) \in Nat
  OBVIOUS
<1>2. Resolve(p) = (CHOOSE w : IsWalk(w, at, p, Len(p)))[Len(p)]
  <2>1. Resolve(p) = (CHOOSE w : w = [k \in 0 .. Len(p) |->
                        IF k = 0 THEN Root ELSE Child(w[k - 1], p[k])])[Len(p)]
    BY Zenon DEF Resolve
  <2>2. \A d, name : Child(d, name) = ChildIn(at, d, name)
    BY Zenon DEF Child, ChildIn
  <2>3. \A w : (w = [k \in 0 .. Len(p) |->
                  IF k = 0 THEN Root ELSE Child(w[k - 1], p[k])])
               <=> IsWalk(w, at, p, Len(p))
    BY <2>2, Zenon DEF IsWalk, Step
  <2> QED BY <2>1, <2>3, Zenon
<1>3. \E w : IsWalk(w, at, p, Len(p))
  BY <1>1, WalkExists, Zenon
<1> QED BY <1>2, <1>3, Zenon

\* A walk, name by name.
LEMMA WalkSteps ==
  ASSUME NEW t, NEW p \in Seq(Name), NEW w, IsWalk(w, t, p, Len(p))
  PROVE  Walks(w, t, p)
<1>1. \A k \in 1 .. Len(p) : k \in 0 .. Len(p) /\ k # 0
  OBVIOUS
<1>2. 0 \in 0 .. Len(p)
  OBVIOUS
<1> QED BY <1>1, <1>2, Zenon DEF IsWalk, Step, Walks

\* What Child finds, and that only a directory has entries.
LEMMA ChildIs ==
  ASSUME NEW t \in Tree, NEW d \in Maybe, NEW name \in Name
  PROVE  Found(t, d, name, ChildIn(t, d, name))
<1>1. ASSUME NEW f \in File, t[f] = <<d, name>> PROVE d \in Host
  <2>1. t[f] \in {None} \cup (Dir \cup {Root}) \X Name
    BY DEF Tree
  <2>2. CASE t[f] \in (Dir \cup {Root}) \X Name
    BY <1>1, <2>2, ConstAssumption DEF Host
  <2>3. CASE t[f] = None
    <3>1. <<d, name>> \in (Host \cup {None}) \X Name
      BY DEF Maybe
    <3> QED BY <1>1, <2>3, <3>1, ConstAssumption, Zenon
  <2> QED BY <2>1, <2>2, <2>3
<1>2. None \notin File
  BY ConstAssumption DEF Host
<1>3. CASE \E f \in File : t[f] = <<d, name>>
  <2>1. ChildIn(t, d, name) \in File /\ t[ChildIn(t, d, name)] = <<d, name>>
    BY <1>3, Zenon DEF ChildIn
  <2> QED BY <1>1, <2>1, Zenon DEF Found
<1>4. CASE ~\E f \in File : t[f] = <<d, name>>
  BY <1>2, <1>4, Zenon DEF ChildIn, Found
<1> QED BY <1>3, <1>4

\* The file a path leads to is found along a route ...
LEMMA ResolveLeads ==
  ASSUME at \in Tree, NEW p \in Seq(Name), Resolve(p) \in Host
  PROVE  Leads(at, p, Resolve(p))
<1>1. PICK w : IsWalk(w, at, p, Len(p)) /\ Resolve(p) = w[Len(p)]
  BY ResolveIs, Zenon
<1>2. /\ w[0] = Root
      /\ \A k \in 1 .. Len(p) : w[k] = ChildIn(at, w[k - 1], p[k])
  <2>1. Walks(w, at, p)
    BY <1>1, WalkSteps, Zenon
  <2> QED BY <2>1, Zenon DEF Walks
<1>3. Len(p) \in Nat /\ None \notin Host
  BY ConstAssumption
<1> DEFINE n == Len(p)
<1>10. \A k \in 0 .. n : w[k] \in Maybe
  <2> DEFINE P == {k \in Nat : k <= n => w[k] \in Maybe}
  <2>1. 0 \in P
    BY <1>2 DEF Host, Maybe
  <2>2. ASSUME NEW k \in P PROVE k + 1 \in P
    <3> SUFFICES ASSUME k + 1 <= n PROVE w[k + 1] \in Maybe
      OBVIOUS
    <3>1. k + 1 \in 1 .. n /\ (k + 1) - 1 = k /\ w[k] \in Maybe
      BY <1>3
    <3>2. w[k + 1] = ChildIn(at, w[k], p[k + 1]) /\ p[k + 1] \in Name
      <4>1. p[k + 1] \in Name
        BY <3>1
      <4> QED BY <1>2, <3>1, <4>1, Zenon
    <3>3. w[k + 1] \in File \cup {None}
      <4>1. Found(at, w[k], p[k + 1], w[k + 1])
        BY <3>1, <3>2, ChildIs
      <4> QED BY <4>1, Zenon DEF Found
    <3> QED BY <3>3 DEF Host, Maybe
  <2>3. P = Nat
    <3>1. P \in SUBSET Nat
      OBVIOUS
    <3> HIDE DEF P
    <3> QED BY <2>1, <2>2, <3>1, NatSet, Zenon
  <2> QED BY <1>3, <2>3
<1> DEFINE Q == {j \in Nat : j <= n => w[n - j] \in Host}
<1>4. 0 \in Q
  <2>1. n - 0 = n
    BY <1>3
  <2> QED BY <1>1, <2>1
<1>5. ASSUME NEW j \in Q PROVE j + 1 \in Q
  <2> SUFFICES ASSUME j + 1 <= n PROVE w[n - (j + 1)] \in Host
    OBVIOUS
  <2>1. /\ n - j \in 1 .. n /\ (n - j) - 1 = n - (j + 1) /\ j <= n
        /\ n - (j + 1) \in 0 .. n
    BY <1>3
  <2>5. w[n - (j + 1)] \in Maybe /\ p[n - j] \in Name
    BY <1>10, <2>1
  <2>2. w[n - j] = ChildIn(at, w[n - (j + 1)], p[n - j])
    BY <1>2, <2>1, Zenon
  <2>3. w[n - j] \in Host
    BY <2>1
  <2> HIDE DEF n
  <2>4. Found(at, w[n - (j + 1)], p[n - j], w[n - j])
    BY <2>2, <2>5, ChildIs
  <2> QED BY <1>3, <2>3, <2>4, Zenon DEF Found
<1>6. Q = Nat
  <2>1. Q \in SUBSET Nat
    OBVIOUS
  <2> HIDE DEF Q
  <2> QED BY <1>4, <1>5, <2>1, NatSet, Zenon
<1>7. \A k \in 0 .. n : w[k] \in Host
  <2> SUFFICES ASSUME NEW k \in 0 .. n PROVE w[k] \in Host
    OBVIOUS
  <2>1. n - k \in Nat /\ n - k <= n /\ n - (n - k) = k
    BY <1>3
  <2>2. n - k \in Q
    BY <1>6, <2>1, Zenon
  <2> QED BY <2>1, <2>2
<1> DEFINE c == [k \in 0 .. n |-> w[k]]
<1>8. c \in [0 .. n -> Host] /\ c[0] = Root /\ c[n] = Resolve(p)
  BY <1>1, <1>2, <1>3, <1>7
<1>9. ASSUME NEW k \in 1 .. n PROVE c[k] \in File /\ at[c[k]] = <<c[k - 1], p[k]>>
  <2>1. k \in 0 .. n /\ k - 1 \in 0 .. n
    BY <1>3
  <2>2. c[k] = w[k] /\ c[k - 1] = w[k - 1] /\ c[k] \in Host
    BY <1>7, <2>1, Zenon
  <2>3. c[k] = ChildIn(at, c[k - 1], p[k])
    BY <1>2, <2>2, Zenon
  <2>5. c[k - 1] \in Maybe /\ p[k] \in Name
    BY <1>10, <2>1, <2>2
  <2> HIDE DEF c
  <2>4. Found(at, c[k - 1], p[k], c[k])
    BY <2>3, <2>5, ChildIs
  <2> QED BY <1>3, <2>2, <2>4, Zenon DEF Found
<1> HIDE DEF c
<1> QED BY <1>8, <1>9, Zenon DEF Leads, IsRoute

\* ... and a route leads to it.
LEMMA LeadsResolves ==
  ASSUME at \in Tree, OnePlaceEach(at), NEW p \in Seq(Name), NEW g, Leads(at, p, g)
  PROVE  Resolve(p) = g
<1>1. PICK w : IsWalk(w, at, p, Len(p)) /\ Resolve(p) = w[Len(p)]
  BY ResolveIs, Zenon
<1>2. /\ w[0] = Root
      /\ \A k \in 1 .. Len(p) : w[k] = ChildIn(at, w[k - 1], p[k])
  <2>1. Walks(w, at, p)
    BY <1>1, WalkSteps, Zenon
  <2> QED BY <2>1, Zenon DEF Walks
<1>3. PICK c : IsRoute(c, at, p) /\ c[Len(p)] = g
  BY Zenon DEF Leads
<1>4. /\ c[0] = Root /\ Len(p) \in Nat
      /\ \A k \in 1 .. Len(p) : c[k] \in File /\ at[c[k]] = <<c[k - 1], p[k]>>
  BY <1>3 DEF IsRoute
<1> DEFINE Q == {k \in Nat : k <= Len(p) => w[k] = c[k]}
<1>5. 0 \in Q
  BY <1>2, <1>4
<1>6. ASSUME NEW k \in Q PROVE k + 1 \in Q
  <2> SUFFICES ASSUME k + 1 <= Len(p) PROVE w[k + 1] = c[k + 1]
    OBVIOUS
  <2>1. k + 1 \in 1 .. Len(p) /\ (k + 1) - 1 = k /\ w[k] = c[k]
    BY <1>4
  <2>2. w[k + 1] = ChildIn(at, c[k], p[k + 1])
    BY <1>2, <2>1, Zenon
  <2>3. c[k + 1] \in File /\ at[c[k + 1]] = <<c[k], p[k + 1]>>
    BY <1>4, <2>1, Zenon
  <2>4. at[c[k + 1]] # None
    <3>1. at[c[k + 1]] \in {None} \cup (Dir \cup {Root}) \X Name
      BY <2>3 DEF Tree
    <3>2. c[k] \in Host /\ p[k + 1] \in Name
      BY <1>3, <2>1, <1>4 DEF IsRoute
    <3>3. <<c[k], p[k + 1]>> \in Host \X Name
      BY <3>2
    <3> QED BY <2>3, <3>3, ConstAssumption, Zenon
  <2>5. \A f \in File : at[f] = <<c[k], p[k + 1]>> => f = c[k + 1]
    BY <2>3, <2>4, Zenon DEF OnePlaceEach
  <2> QED BY <2>2, <2>3, <2>5, Zenon DEF ChildIn
<1>7. Q = Nat
  <2>1. Q \in SUBSET Nat
    OBVIOUS
  <2> HIDE DEF Q
  <2> QED BY <1>5, <1>6, <2>1, NatSet, Zenon
<1>8. w[Len(p)] = c[Len(p)]
  <2>1. Len(p) \in Q /\ Len(p) <= Len(p)
    BY <1>4, <1>7
  <2> QED BY <2>1
<1> QED BY <1>1, <1>3, <1>8, Zenon

-----------------------------------------------------------------------------
(* Changes of the tree.                                                    *)

LEMMA BelowClosed ==
  ASSUME NEW f \in File
  PROVE  /\ f \in Below(f) /\ Below(f) \subseteq File
         /\ \A h \in File : at[h] # None /\ at[h][1] \in Below(f) => h \in Below(f)
BY Zenon DEF Below

\* A route to a file that is not below f does not pass f.
LEMMA RouteAvoids ==
  ASSUME at \in Tree, NEW p \in Seq(Name), NEW c, IsRoute(c, at, p),
         NEW f \in File, c[Len(p)] \notin Below(f), NEW i \in 1 .. Len(p)
  PROVE  c[i] # f
<1> SUFFICES ASSUME c[i] = f PROVE FALSE
  OBVIOUS
<1>1. /\ Len(p) \in Nat /\ i \in Nat /\ i <= Len(p)
      /\ c \in [0 .. Len(p) -> Host]
      /\ \A k \in 1 .. Len(p) : c[k] \in File /\ at[c[k]] = <<c[k - 1], p[k]>>
  <2>1. Len(p) \in Nat /\ i \in Nat /\ i <= Len(p)
    OBVIOUS
  <2> QED BY <2>1, Zenon DEF IsRoute
<1> DEFINE Q == {j \in Nat : i + j <= Len(p) => c[i + j] \in Below(f)}
<1>2. 0 \in Q
  <2>1. i + 0 = i
    BY <1>1
  <2> QED BY <2>1, BelowClosed
<1>3. ASSUME NEW j \in Q PROVE j + 1 \in Q
  <2> DEFINE k == i + (j + 1)
  <2> SUFFICES ASSUME k <= Len(p) PROVE c[k] \in Below(f)
    OBVIOUS
  <2>1. k \in 1 .. Len(p) /\ k - 1 = i + j /\ i + j <= Len(p) /\ k - 1 \in 0 .. Len(p)
    BY <1>1
  <2>2. c[k - 1] \in Below(f)
    BY <2>1
  <2>3. p[k] \in Name /\ c[k - 1] \in Host
    BY <1>1, <2>1
  <2> HIDE DEF k
  <2>4. c[k] \in File /\ at[c[k]] = <<c[k - 1], p[k]>>
    BY <1>1, <2>1, Zenon
  <2>5. at[c[k]] # None /\ at[c[k]][1] = c[k - 1]
    <3>1. <<c[k - 1], p[k]>> \in Host \X Name
      BY <2>3
    <3> QED BY <2>4, <3>1, ConstAssumption
  <2> QED BY <2>2, <2>4, <2>5, BelowClosed, Zenon
<1>4. Q = Nat
  <2>1. Q \in SUBSET Nat
    OBVIOUS
  <2> HIDE DEF Q
  <2> QED BY <1>2, <1>3, <2>1, NatSet, Zenon
<1>5. Len(p) - i \in Q /\ i + (Len(p) - i) = Len(p)
  BY <1>1, <1>4
<1>6. c[Len(p)] \in Below(f)
  BY <1>1, <1>5
<1> QED BY <1>6

\* The entry of f changes, and g is not below it.
LEMMA LeadsKept ==
  ASSUME at \in Tree, NEW p \in Seq(Name), NEW g, Leads(at, p, g),
         NEW f \in File, at[f] = None \/ g \notin Below(f), NEW q, NEW t, t = [at EXCEPT ![f] = q]
  PROVE  Leads(t, p, g)
<1>1. PICK c : IsRoute(c, at, p) /\ c[Len(p)] = g
  BY Zenon DEF Leads
<1>2. ASSUME NEW k \in 1 .. Len(p) PROVE c[k] # f
  <2>1. CASE g \notin Below(f)
    BY <1>1, <2>1, RouteAvoids, Zenon
  <2>2. CASE at[f] = None
    <3>1. c[k - 1] \in Host /\ p[k] \in Name /\ at[c[k]] = <<c[k - 1], p[k]>>
      <4>1. c \in [0 .. Len(p) -> Host] /\ at[c[k]] = <<c[k - 1], p[k]>>
        BY <1>1, Zenon DEF IsRoute
      <4>2. k - 1 \in 0 .. Len(p) /\ p[k] \in Name
        OBVIOUS
      <4> QED BY <4>1, <4>2
    <3>2. <<c[k - 1], p[k]>> \in Host \X Name
      BY <3>1
    <3> QED BY <2>2, <3>1, <3>2, ConstAssumption, Zenon
  <2> QED BY <2>1, <2>2
<1>3. \A h \in File : h # f => t[h] = at[h]
  BY DEF Tree
<1>4. IsRoute(c, t, p)
  BY <1>1, <1>2, <1>3, Zenon DEF IsRoute
<1> QED BY <1>1, <1>4, Zenon DEF Leads

-----------------------------------------------------------------------------
(* The files the requests reach.                                           *)

NumberIn(i, f) == IF f = Root THEN 1 ELSE i[f]

\* An entry was made for a file LOOKUP found, and leads there still unless that
\* file was moved.
EntryLeads(e, i, t, s, m) ==
  \E g \in s : NumberIn(i, g) = e.ino /\ (g \notin m => Leads(t, e.path, g))

\* What the guest takes node n for.
Given(f, n, i, s) == f # None => f \in s /\ NumberIn(i, f) = n

PathsLead ==
  /\ OnePlaceEach(at) /\ Root \in seen
  /\ \A k \in DOMAIN inode_map : EntryLeads(inode_map[k], ino, at, seen, moved)
  /\ \A n \in Node : Given(meant[n], n, ino, seen)

Excused(want) ==
  want \in moved \/ \E f \in seen \ {want} : NumberIn(ino, f) = NumberIn(ino, want)

\* The path in the map leads to the file the guest means, or it is excused.
LEMMA PathReaches ==
  ASSUME IInv, PathsLead, NEW n \in Node, meant[n] # None, FindInodePath(n) # None,
         Resolve(FindInodePath(n)) \notin {None, meant[n]}
  PROVE  Excused(meant[n])
<1> DEFINE path == FindInodePath(n)  f == meant[n]
<1>1. /\ inode_map \in Seq(Entry) /\ OneEach(inode_map) /\ path = PathIn(inode_map, n)
      /\ at \in Tree /\ OnePlaceEach(at)
  BY MapFacts, Zenon DEF IInv, TypeOK, Tree, PathsLead
<1>2. PICK k \in DOMAIN inode_map : inode_map[k].ino = n
  BY <1>1, PathTypes, Zenon
<1>3. path = inode_map[k].path /\ path \in Seq(Name)
  <2>1. path = inode_map[k].path
    BY <1>1, <1>2, PathOfEntry, Zenon
  <2>2. path \in Seq(Name) \cup {None}
    BY <1>1, PathTypes, Zenon
  <2> QED BY <2>1, <2>2
<1>4. PICK g \in seen : NumberIn(ino, g) = n /\ (g \notin moved => Leads(at, path, g))
  BY <1>2, <1>3, Zenon DEF PathsLead, EntryLeads
<1>5. f \in seen /\ NumberIn(ino, f) = n
  BY Zenon DEF PathsLead, Given
<1> HIDE DEF path, f
<1>6. CASE g # f
  BY <1>4, <1>5, <1>6, Zenon DEF Excused, f
<1>7. CASE g = f /\ g \notin moved
  <2>1. Resolve(path) = g
    BY <1>1, <1>3, <1>4, <1>7, LeadsResolves, Zenon
  <2> QED BY <1>7, <2>1, Zenon DEF path, f
<1>8. CASE g = f /\ g \in moved
  BY <1>8, Zenon DEF Excused, f
<1> QED BY <1>6, <1>7, <1>8

\* Requests that add nothing to the map.
LEMMA PathsKept ==
  ASSUME IInv, PathsLead, UNCHANGED <<ino, at, moved, inode_map, seen>>,
         \A n \in Node : meant'[n] \in {meant[n], None} \/ (n = 1 /\ meant'[n] = Root)
  PROVE  PathsLead'
<1>1. NumberIn(ino, Root) = 1 /\ Root \in seen
  BY Zenon DEF NumberIn, PathsLead
<1>2. \A n \in Node : Given(meant'[n], n, ino, seen)
  BY <1>1, Zenon DEF PathsLead, Given
<1> QED BY <1>2, Zenon DEF PathsLead

LEMMA Reached ==
  ASSUME NEW want, NEW file, NEW err, last' = [want |-> want, file |-> file, err |-> err],
         want # None /\ file \notin {None, want} => Excused(want),
         err = "unknown" => want = None, UNCHANGED <<ino, moved, seen>>
  PROVE  FileReached'
<1>1. last'.want = want /\ last'.file = file /\ last'.err = err
  BY Zenon
<1>2. \A f : Number(f)' = NumberIn(ino, f)
  BY Zenon DEF Number, NumberIn
<1> QED BY <1>1, <1>2, Zenon DEF FileReached, Excused

LEMMA QuietReached ==
  ASSUME last' = Quiet
  PROVE  FileReached'
<1>1. last'.want = None /\ last'.err = "none"
  BY DEF Quiet
<1>2. "none" # "unknown"
  OBVIOUS
<1> QED BY <1>1, <1>2, Zenon DEF FileReached

\* Answers: the file is the one meant, none, or one that is excused.
LEMMA AnswerReaches ==
  ASSUME IInv, PathsLead, NEW want, NEW file, NEW err, Answer(want, file, err),
         want # None /\ file \notin {None, want} => Excused(want),
         err = "unknown" => want = None
  PROVE  PathsLead' /\ FileReached'
<1>1. /\ last' = [want |-> want, file |-> file, err |-> err]
      /\ UNCHANGED <<ino, at, moved, inode_map, meant, seen>>
  BY Zenon DEF Answer, hostVars
<1>2. PathsLead'
  BY <1>1, PathsKept, Zenon
<1>3. FileReached'
  <2>1. UNCHANGED <<ino, moved, seen>>
    BY <1>1, Zenon
  <2> QED BY <1>1, <2>1, Reached
<1> QED BY <1>2, <1>3

LEMMA HostReaches ==
  ASSUME IInv, PathsLead,
         \/ \E f \in File, p \in Places : HostCreate(f, p) \/ HostRename(f, p)
         \/ \E f \in File : HostRemove(f)
  PROVE  PathsLead' /\ FileReached'
<1>1. UNCHANGED <<ino, inode_map, meant, seen>> /\ last' = Quiet
  BY DEF HostCreate, HostRename, HostRemove
<1>2. FileReached'
  BY <1>1, QuietReached, Zenon
<1>3. at \in Tree /\ inode_map \in Seq(Entry) /\ OnePlaceEach(at)
  BY Zenon DEF IInv, TypeOK, Tree, Entry, PathsLead
<1>4. PICK f \in File, p \in Free \cup {None} :
        /\ at' = [at EXCEPT ![f] = p]
        /\ \/ at[f] = None /\ moved' = moved
           \/ moved' = moved \cup Below(f)
  <2>1. ASSUME NEW f \in File, NEW p \in Places, HostCreate(f, p)
        PROVE  p \in Free /\ at' = [at EXCEPT ![f] = p] /\ at[f] = None /\ moved' = moved
    BY <2>1, Zenon DEF HostCreate
  <2>2. ASSUME NEW f \in File, NEW p \in Places, HostRename(f, p)
        PROVE  p \in Free /\ at' = [at EXCEPT ![f] = p] /\ moved' = moved \cup Below(f)
    BY <2>2, Zenon DEF HostRename
  <2>3. ASSUME NEW f \in File, HostRemove(f)
        PROVE  at' = [at EXCEPT ![f] = None] /\ moved' = moved \cup Below(f)
    BY <2>3, Zenon DEF HostRemove
  <2>4. None \in Free \cup {None} /\ \A p \in Free : p \in Free \cup {None}
    BY Zenon
  <2> QED BY <2>1, <2>2, <2>3, <2>4, Zenon
<1>5. OnePlaceEach(at')
  <2>1. \A h \in File : at'[h] = IF h = f THEN p ELSE at[h]
    BY <1>3, <1>4 DEF Tree
  <2>2. p # None => \A h \in File : at[h] # p
    BY <1>4, Zenon DEF Free
  <2> QED BY <1>3, <2>1, <2>2, Zenon DEF OnePlaceEach
<1>6. ASSUME NEW k \in DOMAIN inode_map
      PROVE  EntryLeads(inode_map[k], ino, at', seen, moved')
  <2> DEFINE e == inode_map[k]
  <2>1. PICK g \in seen : NumberIn(ino, g) = e.ino /\ (g \notin moved => Leads(at, e.path, g))
    BY Zenon DEF PathsLead, EntryLeads
  <2>2. e.path \in Seq(Name)
    <3>1. e \in Entry
      BY <1>3
    <3> QED BY <3>1 DEF Entry
  <2> HIDE DEF e
  <2>3. ASSUME g \notin moved' PROVE Leads(at', e.path, g)
    <3>1. g \notin moved /\ (at[f] = None \/ g \notin Below(f))
      BY <1>4, <2>3, Zenon
    <3> QED BY <1>3, <1>4, <2>1, <2>2, <3>1, LeadsKept, Zenon
  <2> QED BY <2>1, <2>3, Zenon DEF EntryLeads, e
<1>7. PathsLead'
  BY <1>1, <1>5, <1>6, Zenon DEF PathsLead
<1> QED BY <1>2, <1>7

\* LOOKUP: the new entry leads to the file found.
LEMMA LookupReaches ==
  ASSUME IInv, PathsLead, NEW n, NEW name \in Name, NEW x, Lookup(n, name, x)
  PROVE  PathsLead' /\ FileReached'
<1> DEFINE parent == FindInodePath(n)
           path == Append(parent, name)
           f == Resolve(path)
<1>1. CASE \E err \in {"silent", "host"} : Answer(None, None, err)
  <2>1. \A err \in {"silent", "host"} : err = "unknown" => None = None
    OBVIOUS
  <2> QED BY <1>1, <2>1, AnswerReaches, Zenon
<1>2. CASE ~\E err \in {"silent", "host"} : Answer(None, None, err)
  <2>1. /\ parent # None /\ f \in File
        /\ inode_map' = IF FindInodePath(ino[f]) # None THEN inode_map
                        ELSE <<[ino |-> ino[f], path |-> path]>> \o inode_map
        /\ meant' = [meant EXCEPT ![ino[f]] = f]
        /\ seen' = seen \cup {f} /\ last' = Quiet
        /\ UNCHANGED hostVars
    BY <1>2, Zenon DEF Lookup
  <2>2. path \in Seq(Name)
    <3>1. parent \in Seq(Name)
      BY <2>1, MapFacts, PathTypes
    <3> QED BY <3>1
  <2>3. Leads(at, path, f)
    <3>1. f \in Host /\ at \in Tree
      BY <2>1, Zenon DEF Host, IInv, TypeOK, Tree
    <3> HIDE DEF path
    <3> QED BY <2>2, <3>1, ResolveLeads, Zenon
  <2> HIDE DEF f, path, parent
  <2>4. UNCHANGED <<ino, at, moved>> /\ inode_map \in Seq(Entry)
    BY <2>1, Zenon DEF hostVars, IInv, TypeOK, Entry
  <2> DEFINE e == [ino |-> ino[f], path |-> path]
  <2>5. f # Root /\ NumberIn(ino, f) = ino[f]
    <3>1. f # Root
      BY <2>1, ConstAssumption
    <3> QED BY <3>1, Zenon DEF NumberIn
  <2>6. e.ino = ino[f] /\ e.path = path
    OBVIOUS
  <2> HIDE DEF e
  <2>7. EntryLeads(e, ino, at, seen', moved)
    BY <2>1, <2>3, <2>5, <2>6, Zenon DEF EntryLeads
  <2>8. \A k \in DOMAIN inode_map : EntryLeads(inode_map[k], ino, at, seen', moved)
    BY <2>1, Zenon DEF PathsLead, EntryLeads
  <2>9. ASSUME NEW k \in DOMAIN inode_map'
        PROVE  inode_map'[k] = e \/ \E j \in DOMAIN inode_map : inode_map'[k] = inode_map[j]
    <3>1. CASE inode_map' = inode_map
      BY <3>1, <2>9, Zenon
    <3>2. CASE inode_map' = <<e>> \o inode_map
      <4>1. /\ DOMAIN inode_map' = 1 .. Len(inode_map) + 1 /\ inode_map'[1] = e
            /\ \A j \in 1 .. Len(inode_map) : inode_map'[j + 1] = inode_map[j]
            /\ Len(inode_map) \in Nat /\ DOMAIN inode_map = 1 .. Len(inode_map)
        BY <2>4, <3>2
      <4>2. CASE k # 1
        <5>1. k - 1 \in 1 .. Len(inode_map) /\ (k - 1) + 1 = k
          BY <4>1, <4>2
        <5> QED BY <4>1, <5>1, Zenon
      <4> QED BY <4>1, <4>2, Zenon
    <3> QED BY <2>1, <3>1, <3>2, Zenon DEF e
  <2>10. \A k \in DOMAIN inode_map' : EntryLeads(inode_map'[k], ino, at, seen', moved)
    BY <2>7, <2>8, <2>9, Zenon
  <2>11. ASSUME NEW k \in Node PROVE Given(meant'[k], k, ino, seen')
    <3>1. meant'[k] = IF k = ino[f] THEN f ELSE meant[k]
      BY <2>1 DEF IInv, TypeOK
    <3>2. Given(meant[k], k, ino, seen')
      BY <2>1, Zenon DEF PathsLead, Given
    <3>3. Given(f, ino[f], ino, seen')
      BY <2>1, <2>5, Zenon DEF Given
    <3> QED BY <3>1, <3>2, <3>3, Zenon
  <2>12. PathsLead'
    BY <2>1, <2>4, <2>10, <2>11, Zenon DEF PathsLead
  <2>13. FileReached'
    BY <2>1, QuietReached, Zenon
  <2> QED BY <2>12, <2>13
<1> QED BY <1>1, <1>2

\* GETATTR, OPEN and OPENDIR
LEMMA NodeReaches ==
  ASSUME IInv, PathsLead, NEW n \in Usable, NEW x, Getattr(n, x) \/ Open(n, x) \/ Opendir(n, x)
  PROVE  PathsLead' /\ FileReached'
<1>1. n \in Node
  BY DEF Usable, IInv, TypeOK
<1> DEFINE path == FindInodePath(n)  f == Resolve(path)
<1>2. TargetPath(n) = path /\ (meant[n] # None => path # None)
  <2>1. path = PathIn(inode_map, n) /\ PathIn(inode_map, 1) = <<>>
    BY MapFacts, Zenon
  <2>2. meant[n] # None => path # None
    BY <1>1, <2>1, MapFacts, Zenon
  <2> QED BY <2>1, <2>2, Zenon DEF TargetPath
<1>3. path # None /\ meant[n] # None /\ f \notin {None, meant[n]} => Excused(meant[n])
  BY <1>1, PathReaches, Zenon
<1>4. /\ "host" # "unknown" /\ "silent" # "unknown" /\ "none" # "unknown"
  OBVIOUS
<1>5. \/ path = None /\ Answer(meant[n], None, "unknown")
      \/ Answer(meant[n], None, "host") \/ Answer(meant[n], None, "silent")
      \/ path # None /\ Answer(meant[n], f, "none")
      \/ path # None /\ Grant(n, f, path)
  BY <1>2, Zenon DEF Getattr, Open, Opendir
<1> HIDE DEF f, path
<1>6. CASE path # None /\ Grant(n, f, path)
  <2>1. /\ last' = [want |-> meant[n], file |-> f, err |-> "none"]
        /\ UNCHANGED <<ino, at, moved, inode_map, meant, seen>>
    BY <1>6, Zenon DEF Grant, hostVars
  <2>2. PathsLead'
    BY <2>1, PathsKept, Zenon
  <2>3. FileReached'
    BY <1>3, <1>4, <1>6, <2>1, Reached, Zenon
  <2> QED BY <2>2, <2>3
<1>7. CASE path # None /\ Answer(meant[n], f, "none")
  BY <1>3, <1>4, <1>7, AnswerReaches, Zenon
<1>8. CASE path = None /\ Answer(meant[n], None, "unknown")
  BY <1>2, <1>8, AnswerReaches, Zenon
<1>9. CASE Answer(meant[n], None, "host") \/ Answer(meant[n], None, "silent")
  BY <1>4, <1>9, AnswerReaches, Zenon
<1> QED BY <1>5, <1>6, <1>7, <1>8, <1>9, Zenon

LEMMA PathsStep ==
  ASSUME IInv, PathsLead, Next
  PROVE  PathsLead' /\ FileReached'
<1>1. ASSUME NEW d \in Fd, NEW x, Read(d, x)
      PROVE  PathsLead' /\ FileReached'
  <2>1. "host" # "unknown" /\ "none" # "unknown"
    OBVIOUS
  <2>2. held[d] # None => fds[d].file = held[d]
    BY Zenon DEF IInv, HandlesBalanced
  <2> QED BY <1>1, <2>1, <2>2, AnswerReaches, Zenon DEF Read
<1>2. ASSUME UNCHANGED <<ino, at, moved, inode_map, meant, seen>>, last' = Quiet
      PROVE  PathsLead' /\ FileReached'
  BY <1>2, PathsKept, QuietReached, Zenon
<1>3. ASSUME NEW d \in Fd, Readdirplus(d) \/ Release(d) \/ Releasedir(d)
      PROVE  PathsLead' /\ FileReached'
  BY <1>2, <1>3, Zenon DEF Readdirplus, Release, Releasedir, Close, hostVars
<1>4. ASSUME NEW n \in Usable, Forget(n)
      PROVE  PathsLead' /\ FileReached'
  <2>1. /\ UNCHANGED <<ino, at, moved, inode_map, seen>> /\ last' = Quiet
        /\ meant' = [meant EXCEPT ![n] = None]
    BY <1>4, Zenon DEF Forget, hostVars
  <2>2. \A k \in Node : meant'[k] \in {meant[k], None}
    BY <2>1 DEF IInv, TypeOK
  <2> QED BY <2>1, <2>2, PathsKept, QuietReached, Zenon
<1>5. ASSUME NEW x, Reset(x)
      PROVE  PathsLead' /\ FileReached'
  <2>1. /\ UNCHANGED <<ino, at, moved, inode_map, seen>> /\ last' = Quiet
        /\ meant' = [n \in Node |-> IF n = 1 THEN Root ELSE None]
    BY <1>5, Zenon DEF Reset, hostVars
  <2>2. \A k \in Node : meant'[k] \in {meant[k], None} \/ (k = 1 /\ meant'[k] = Root)
    BY <2>1
  <2> QED BY <2>1, <2>2, PathsKept, QuietReached, Zenon
<1>6. ASSUME InitSession \/ Flush \/ Destroy \/ Unsupported
      PROVE  PathsLead' /\ FileReached'
  <2>1. "unsupported" # "unknown" /\ "none" # "unknown"
    OBVIOUS
  <2> QED BY <1>6, <2>1, AnswerReaches, Zenon DEF InitSession, Flush, Destroy, Unsupported
<1> QED BY <1>1, <1>3, <1>4, <1>5, <1>6, HostReaches, LookupReaches, NodeReaches, ZenonT(30) DEF Next

LEMMA InitPaths == Init => PathsLead /\ FileReached
<1> SUFFICES ASSUME Init PROVE PathsLead /\ FileReached
  OBVIOUS
<1>1. /\ at \in Trees /\ inode_map = <<[ino |-> 1, path |-> <<>>]>> /\ seen = {Root}
      /\ meant = [n \in Node |-> IF n = 1 THEN Root ELSE None] /\ last = Quiet
  BY Zenon DEF Init
<1>2. OnePlaceEach(at)
  BY <1>1, TreesAssumption, Zenon DEF OnePlaceEach
<1>3. Leads(at, <<>>, Root)
  <2> DEFINE c == [k \in 0 .. 0 |-> Root]
  <2>1. c \in [0 .. Len(<<>>) -> Host] /\ c[0] = Root /\ c[Len(<<>>)] = Root
    BY DEF Host
  <2>2. \A k \in 1 .. Len(<<>>) : FALSE
    OBVIOUS
  <2> HIDE DEF c
  <2> QED BY <2>1, <2>2, Zenon DEF Leads, IsRoute
<1>4. NumberIn(ino, Root) = 1
  BY Zenon DEF NumberIn
<1>5. ASSUME NEW k \in DOMAIN inode_map PROVE EntryLeads(inode_map[k], ino, at, seen, moved)
  <2>1. inode_map[k].ino = 1 /\ inode_map[k].path = <<>>
    BY <1>1
  <2> QED BY <1>1, <1>3, <1>4, <2>1, Zenon DEF EntryLeads
<1>6. ASSUME NEW n \in Node PROVE Given(meant[n], n, ino, seen)
  <2>1. meant[n] = IF n = 1 THEN Root ELSE None
    BY <1>1
  <2> QED BY <1>1, <1>4, <2>1, Zenon DEF Given
<1>7. FileReached
  BY <1>1 DEF Quiet, FileReached
<1> QED BY <1>1, <1>2, <1>5, <1>6, <1>7, Zenon DEF PathsLead

(***************************************************************************)
(* A request for a node reaches the file the guest was given it for, in    *)
(* any host tree under any changes, unless that file was renamed or        *)
(* removed (itself or a directory above it) or LOOKUP found another file   *)
(* with its inode number; and no request for a node LOOKUP gave is         *)
(* refused as unknown.                                                     *)
(***************************************************************************)
THEOREM RequestsReachFiles == Spec => []FileReached
<1>1. Init => PathsLead /\ FileReached
  BY InitPaths
<1>2. IInv /\ PathsLead /\ FileReached /\ [Next]_vars => (PathsLead /\ FileReached)'
  <2> SUFFICES ASSUME IInv, PathsLead, FileReached, [Next]_vars
               PROVE  (PathsLead /\ FileReached)'
    OBVIOUS
  <2>1. CASE Next
    BY <2>1, PathsStep, Zenon
  <2>2. CASE UNCHANGED vars
    <3>1. UNCHANGED <<ino, at, moved, inode_map, meant, seen, last>>
      BY <2>2 DEF vars
    <3>2. PathsLead'
      BY <3>1, PathsKept, Zenon
    <3>3. FileReached'
      BY <3>1, Zenon DEF FileReached, Number
    <3> QED BY <3>2, <3>3
  <2> QED BY <2>1, <2>2
<1> QED BY <1>1, <1>2, Invariant, PTL DEF Spec
=============================================================================
