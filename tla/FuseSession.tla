----------------------------- MODULE FuseSession -----------------------------
(***************************************************************************)
(* The FUSE requests virtio-fs answers: the map from inode numbers to host *)
(* paths that LOOKUP builds, the directory streams and descriptors held    *)
(* open for the guest, and the host directory tree beneath, which others   *)
(* change meanwhile.                                                       *)
(*                                                                         *)
(* A request is one step.  A path is the sequence of names below the       *)
(* shared directory.  Attributes and file contents are left out: last says *)
(* which host file a request reached and which one the guest asked for.    *)
(***************************************************************************)
EXTENDS Naturals, Sequences, FiniteSets

CONSTANTS
  File,        \* host files and directories below the shared directory
  Dir,         \* those that are directories
  Root,        \* the shared directory itself
  Name,        \* names of directory entries
  Trees,       \* where the files can be at first, as at below
  MaxChanges,  \* bound on the changes of the host's tree
  Numberings,  \* the host inode numbers (st_ino) the files can have
  MaxFd,       \* descriptors the host grants the process
  None         \* no file, no descriptor, no path

Fd == 1 .. MaxFd
Host == File \cup {Root}

ASSUME ConstAssumption ==
  /\ Dir \subseteq File /\ Root \notin File
  /\ None \notin Host \cup Seq(Name) \cup [file : Host, path : Seq(Name)]
  /\ None \notin (Host \cup {None}) \X Name
  /\ Numberings \subseteq [File -> Nat \ {0}]
  /\ MaxFd \in Nat /\ MaxChanges \in Nat
  /\ Trees \subseteq [File -> {None} \cup (Dir \cup {Root}) \X Name]

\* A directory has one entry by each name.
ASSUME TreesAssumption ==
  \A t \in Trees : \A f, g \in File : t[f] = t[g] /\ t[f] # None => f = g

VARIABLES
  ino, at,      \* the host: inode numbers; where each file is: <<dir, name>>
  moved,        \* history: files that were renamed or removed
  changes,      \* changes of the tree so far
  inode_map,    \* the list of known inodes: [ino, path]
  shared_dir,   \* whether shared_dir is a string, and not NULL
  fds,          \* open descriptors and directory streams: [file, path]
  meant,        \* the guest: which file it was given each node id for
  listed,       \* node ids it was given by READDIRPLUS only
  held,         \* descriptors it holds, and the file it opened
  lost,         \* history: descriptors open when the device was reset
  seen,         \* history: files that LOOKUP found
  last          \* the last request: [want, file, err]

hostVars == <<ino, at, moved, changes>>
vars == <<ino, at, moved, changes, inode_map, shared_dir, fds, meant, listed, held, lost, seen, last>>

\* Node 1 is the root; the others are host inode numbers.
Number(f) == IF f = Root THEN 1 ELSE ino[f]
Node == {1} \cup UNION {{n[f] : f \in File} : n \in Numberings}

Quiet == [want |-> None, file |-> None, err |-> "none"]

\* virtio_fs_init: the map holds the root, which has the empty path.
Init ==
  /\ ino \in Numberings /\ at \in Trees /\ moved = {} /\ changes = 0
  /\ inode_map = <<[ino |-> 1, path |-> <<>>]>> /\ shared_dir = TRUE
  /\ fds = [d \in Fd |-> None]
  /\ meant = [n \in Node |-> IF n = 1 THEN Root ELSE None] /\ listed = {}
  /\ held = [d \in Fd |-> None] /\ lost = {} /\ seen = {Root}
  /\ last = Quiet

-----------------------------------------------------------------------------
(* The host (external).                                                    *)

Child(d, name) ==
  IF \E f \in File : at[f] = <<d, name>>
  THEN CHOOSE f \in File : at[f] = <<d, name>> ELSE None

\* The file a path leads to now.
Resolve(path) ==
  LET reached[k \in 0 .. Len(path)] ==
        IF k = 0 THEN Root ELSE Child(reached[k - 1], path[k])
  IN  reached[Len(path)]

\* f and everything below it: what is in every set that holds f and, with a
\* directory, its entries.
Below(f) ==
  {g \in File : \A S \in SUBSET File :
     f \in S /\ (\A h \in File : at[h] # None /\ at[h][1] \in S => h \in S) => g \in S}

Places == {<<d, name>> : d \in {Root} \cup {g \in Dir : at[g] # None}, name \in Name}
Free == {p \in Places : \A f \in File : at[f] # p}

HostCreate(f, p) ==
  /\ changes < MaxChanges /\ changes' = changes + 1
  /\ at[f] = None /\ p \in Free
  /\ at' = [at EXCEPT ![f] = p]
  /\ last' = Quiet
  /\ UNCHANGED <<ino, moved, inode_map, shared_dir, fds, meant, listed, held, lost, seen>>

HostRename(f, p) ==
  /\ changes < MaxChanges /\ changes' = changes + 1
  /\ at[f] # None /\ p \in Free /\ p[1] \notin Below(f)
  /\ at' = [at EXCEPT ![f] = p]
  /\ moved' = moved \cup Below(f)
  /\ last' = Quiet
  /\ UNCHANGED <<ino, inode_map, shared_dir, fds, meant, listed, held, lost, seen>>

HostRemove(f) ==
  /\ changes < MaxChanges /\ changes' = changes + 1
  /\ at[f] # None /\ Below(f) = {f}
  /\ at' = [at EXCEPT ![f] = None]
  /\ moved' = moved \cup {f}
  /\ last' = Quiet
  /\ UNCHANGED <<ino, inode_map, shared_dir, fds, meant, listed, held, lost, seen>>

-----------------------------------------------------------------------------
(* Requests.  fault: nothing, "mem" (an allocation fails) or "host" (the   *)
(* host refuses the system call).                                          *)

\* find_inode_path: the path of the first entry with the number.
FindInodePath(n) ==
  LET hits == {k \in DOMAIN inode_map : inode_map[k].ino = n}
  IN  IF hits = {} THEN None
      ELSE inode_map[CHOOSE k \in hits : \A j \in hits : k <= j].path

\* A request that changes nothing; err "silent": no reply was written.
Answer(want, file, err) ==
  /\ last' = [want |-> want, file |-> file, err |-> err]
  /\ UNCHANGED <<hostVars, inode_map, shared_dir, fds, meant, listed, held, lost, seen>>

\* As if only the name made up the path.
Lookup_NoParent(n, name, fault) ==
  LET path == <<name>>
      f == Resolve(path)
  IN
  IF fault = "mem" \/ FindInodePath(n) = None THEN Answer(None, None, "silent")
  ELSE IF fault = "host" \/ f \notin File THEN Answer(None, None, "host")
  ELSE /\ inode_map' = IF FindInodePath(ino[f]) # None THEN inode_map
                       ELSE <<[ino |-> ino[f], path |-> path]>> \o inode_map
       /\ meant' = [meant EXCEPT ![ino[f]] = Child(meant[n], name)]
       /\ seen' = seen \cup {f} /\ last' = Quiet
       /\ UNCHANGED <<hostVars, shared_dir, fds, listed, held, lost>>

(***************************************************************************)
(* LOOKUP.  An inode already in the map keeps the path it has; the answer  *)
(* names the inode found by the new path.                                  *)
(***************************************************************************)
Lookup(n, name, fault) ==
  LET parent == FindInodePath(n)
      path == Append(parent, name)
      f == Resolve(path)
  IN
  IF fault = "mem" \/ parent = None THEN Answer(None, None, "silent")
  ELSE IF fault = "host" \/ f \notin File THEN Answer(None, None, "host")
  ELSE /\ inode_map' = IF FindInodePath(ino[f]) # None THEN inode_map
                       ELSE <<[ino |-> ino[f], path |-> path]>> \o inode_map
       /\ meant' = [meant EXCEPT ![ino[f]] = f]
       /\ listed' = listed \ {ino[f]}
       /\ seen' = seen \cup {f} /\ last' = Quiet
       /\ UNCHANGED <<hostVars, shared_dir, fds, held, lost>>

\* The path GETATTR and OPEN use: shared_dir, which may be NULL, for the root.
TargetPath(n) == IF n = 1 THEN <<>> ELSE FindInodePath(n)

\* GETATTR
Getattr(n, fault) ==
  IF TargetPath(n) = None THEN Answer(meant[n], None, "unknown")
  ELSE LET f == Resolve(TargetPath(n)) IN
       IF fault = "host" \/ f \notin Host \/ (n = 1 /\ ~shared_dir)
       THEN Answer(meant[n], None, "host")
       ELSE Answer(meant[n], f, "none")

\* open() and opendir() grant the lowest free descriptor.
Unused == {d \in Fd : fds[d] = None}
LowestFd == CHOOSE d \in Unused : \A e \in Unused : d <= e

\* The guest gets a descriptor for f, which it asked for by node n.
Grant(n, f, path) ==
  /\ fds' = [fds EXCEPT ![LowestFd] = [file |-> f, path |-> path]]
  /\ held' = [held EXCEPT ![LowestFd] = f]
  /\ last' = [want |-> meant[n], file |-> f, err |-> "none"]
  /\ UNCHANGED <<hostVars, inode_map, shared_dir, meant, listed, lost, seen>>

\* OPEN
Open(n, fault) ==
  IF TargetPath(n) = None THEN Answer(meant[n], None, "unknown")
  ELSE LET f == Resolve(TargetPath(n)) IN
       IF fault = "host" \/ f \notin Host \/ (n = 1 /\ ~shared_dir) \/ Unused = {}
       THEN Answer(meant[n], None, "host")
       ELSE Grant(n, f, TargetPath(n))

\* As if the stream stayed open when its handle cannot be allocated.
Opendir_KeepStream(n, fault) ==
  LET path == FindInodePath(n) IN
  IF path = None THEN Answer(None, None, "silent")
  ELSE LET f == Resolve(path) IN
       IF fault = "host" \/ f \notin Dir \cup {Root} \/ Unused = {}
       THEN Answer(None, None, "silent")
       ELSE IF fault = "mem"
       THEN /\ fds' = [fds EXCEPT ![LowestFd] = [file |-> f, path |-> path]]
            /\ last' = [Quiet EXCEPT !.err = "silent"]
            /\ UNCHANGED <<hostVars, inode_map, shared_dir, meant, listed, held, lost, seen>>
       ELSE Grant(n, f, path)

(***************************************************************************)
(* OPENDIR.  The root is found in the map too.  If the handle cannot be    *)
(* allocated the stream is closed again, and no reply is written.          *)
(***************************************************************************)
Opendir(n, fault) ==
  LET path == FindInodePath(n) IN
  IF path = None THEN Answer(meant[n], None, "silent")
  ELSE LET f == Resolve(path) IN
       IF fault # "none" \/ f \notin Dir \cup {Root} \/ Unused = {}
       THEN Answer(meant[n], None, "silent")
       ELSE Grant(n, f, path)

(***************************************************************************)
(* READDIRPLUS on stream d: the names come from the open directory, their  *)
(* attributes and numbers from the path it was opened by; a name without   *)
(* attributes is skipped.  Nothing is added to the map.                    *)
(***************************************************************************)
Readdirplus(d) ==
  LET names == {name \in Name : Child(fds[d].file, name) # None}
      found == {Resolve(Append(fds[d].path, name)) : name \in names} \cap File
  IN
  /\ held[d] \in Dir \cup {Root}
  /\ listed' = listed \cup {ino[f] : f \in {g \in found : meant[ino[g]] = None}}
  /\ last' = Quiet
  /\ UNCHANGED <<hostVars, inode_map, shared_dir, fds, meant, held, lost, seen>>

\* READ from descriptor d
Read(d, fault) ==
  /\ held[d] # None
  /\ IF fault # "none" THEN Answer(held[d], None, "host")
     ELSE Answer(held[d], fds[d].file, "none")

\* close() or closedir(), for a handle the guest gives back
Close(d) ==
  /\ held[d] # None
  /\ fds' = [fds EXCEPT ![d] = None]
  /\ held' = [held EXCEPT ![d] = None]
  /\ last' = Quiet
  /\ UNCHANGED <<hostVars, inode_map, shared_dir, meant, listed, lost, seen>>

\* RELEASE, and RELEASEDIR for a stream
Release(d) == Close(d)
Releasedir(d) == held[d] \in Dir \cup {Root} /\ Close(d)

\* FORGET: the guest drops the node; the device only acknowledges.
Forget(n) ==
  /\ n # 1
  /\ meant' = [meant EXCEPT ![n] = None] /\ listed' = listed \ {n}
  /\ last' = Quiet
  /\ UNCHANGED <<hostVars, inode_map, shared_dir, fds, held, lost, seen>>

\* INIT, FLUSH and DESTROY are acknowledged; others are refused.
InitSession == Answer(None, None, "none")
Flush == Answer(None, None, "none")
Destroy == Answer(None, None, "none")
Unsupported == Answer(None, None, "unsupported")

\* As if the map were cleared with the rest of the device.
Reset_ClearMap(fault) ==
  /\ shared_dir' = (shared_dir /\ fault = "none")
  /\ inode_map' = IF shared_dir THEN <<>> ELSE inode_map
  /\ meant' = [n \in Node |-> IF n = 1 THEN Root ELSE None] /\ listed' = {}
  /\ held' = [d \in Fd |-> None]
  /\ lost' = lost \cup {d \in Fd : held[d] # None}
  /\ last' = Quiet
  /\ UNCHANGED <<hostVars, fds, seen>>

(***************************************************************************)
(* virtio_fs_update_status(0): the map survives, and so do the descriptors *)
(* that the guest no longer knows of.  If shared_dir cannot be copied it   *)
(* is NULL from then on.                                                   *)
(***************************************************************************)
Reset(fault) ==
  /\ shared_dir' = (shared_dir /\ fault = "none")
  /\ meant' = [n \in Node |-> IF n = 1 THEN Root ELSE None] /\ listed' = {}
  /\ held' = [d \in Fd |-> None]
  /\ lost' = lost \cup {d \in Fd : held[d] # None}
  /\ last' = Quiet
  /\ UNCHANGED <<hostVars, inode_map, fds, seen>>

-----------------------------------------------------------------------------
\* The node ids the guest can name.
Usable == {n \in Node : meant[n] # None} \cup listed

Next ==
  \/ \E f \in File, p \in Places : HostCreate(f, p) \/ HostRename(f, p)
  \/ \E f \in File : HostRemove(f)
  \/ \E n \in Usable, name \in Name, x \in {"none", "mem", "host"} : Lookup(n, name, x)
  \/ \E n \in Usable, x \in {"none", "host"} : Getattr(n, x) \/ Open(n, x)
  \/ \E n \in Usable, x \in {"none", "mem", "host"} : Opendir(n, x)
  \/ \E d \in Fd : Readdirplus(d) \/ Release(d) \/ Releasedir(d)
  \/ \E d \in Fd, x \in {"none", "mem", "host"} : Read(d, x)
  \/ \E n \in Usable : Forget(n)
  \/ \E x \in {"none", "mem"} : Reset(x)
  \/ InitSession \/ Flush \/ Destroy \/ Unsupported

Spec == Init /\ [][Next]_vars

-----------------------------------------------------------------------------
\* The type invariant.
TypeOK ==
  /\ ino \in Numberings /\ at \in [File -> {None} \cup (Dir \cup {Root}) \X Name]
  /\ changes \in 0 .. MaxChanges /\ moved \subseteq File /\ seen \subseteq Host
  /\ inode_map \in Seq([ino : Node, path : Seq(Name)])
  /\ shared_dir \in BOOLEAN
  /\ fds \in [Fd -> {None} \cup [file : Host, path : Seq(Name)]]
  /\ meant \in [Node -> Host \cup {None}] /\ listed \subseteq Node
  /\ held \in [Fd -> Host \cup {None}] /\ lost \subseteq Fd
  /\ last \in [want : Host \cup {None}, file : Host \cup {None},
               err : {"none", "silent", "unknown", "host", "unsupported"}]

(***************************************************************************)
(* The map holds one entry per inode and always the root, and every node   *)
(* id LOOKUP gave the guest has one until the guest forgets it, whatever   *)
(* resets, refused lookups and changes of the host come between.           *)
(***************************************************************************)
NodesResolve ==
  /\ \A j, k \in DOMAIN inode_map : inode_map[j].ino = inode_map[k].ino => j = k
  /\ FindInodePath(1) = <<>>
  /\ \A n \in Node : meant[n] # None => FindInodePath(n) # None

(***************************************************************************)
(* A request for a node reaches the file the guest was given it for,       *)
(* unless the host renamed or removed that file, or LOOKUP met another     *)
(* file with its inode number (the device number is not looked at), or     *)
(* READDIRPLUS alone gave the node away.                                   *)
(***************************************************************************)
FileReached ==
  /\ last.want # None /\ last.file \notin {None, last.want} =>
       \/ last.want \in moved
       \/ \E f \in seen \ {last.want} : Number(f) = Number(last.want)
  /\ last.err = "unknown" => last.want = None

(***************************************************************************)
(* A descriptor is open exactly if the guest holds it or a reset took it   *)
(* from the guest, and it still leads to the file it was opened for: no    *)
(* refused request leaves a stream open, and none is closed too early.     *)
(***************************************************************************)
HandlesBalanced ==
  \A d \in Fd :
    /\ fds[d] # None <=> (held[d] # None \/ d \in lost)
    /\ held[d] # None => fds[d].file = held[d] /\ d \notin lost
=============================================================================
