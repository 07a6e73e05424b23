------------------------------ MODULE Streams ------------------------------
(***************************************************************************)
(* File systems and streams (sledge/stream.c): mount, open, recv and send, *)
(* with one of the two devices that serve files under /sd: posixfs.c on    *)
(* hosted systems, rpi2/fatfs.c on the Raspberry Pi.  The files themselves *)
(* are external.  Paths are strings cut at their first slashes, as tuples. *)
(*                                                                         *)
(* Cells are those that hold strings: paths and what posixfs_open has      *)
(* read.  gc frees the ones mark_tree does not reach, and the next string  *)
(* may take their place.                                                   *)
(***************************************************************************)
EXTENDS Naturals, Sequences, SequencesExt

CONSTANTS
  Devices,      \* what may be mounted at /sd: subset of {"posix", "fat"}
  Paths,        \* for each of them, paths that programs open
  OtherPoints,  \* mount points of file systems that programs mount
  FileNames,    \* names of the files that paths name
  Data,         \* strings that programs send
  MaxStreams,   \* model bound: streams opened
  MaxMounts,    \* model bound: file systems
  MaxCells,     \* model bound: cells in use
  MaxSends      \* model bound: sends

ASSUME StreamsAssumption ==
  /\ Devices \subseteq {"posix", "fat"}
  /\ MaxStreams \in Nat /\ MaxMounts \in Nat /\ MaxCells \in Nat
  /\ MaxSends \in Nat

VARIABLES
  fs_list,     \* mounted file systems, the newest first: [point, device]
  streams,     \* streams held by the program: [fs, path]; path is a cell
  cells,       \* contents of every cell used so far
  free,        \* cells freed by gc
  file_cell,   \* _file_cell of posixfs.c: a cell, or 0 for nil
  files,       \* the files on the card or disk: name -> content or NotFound
  got,         \* what the last operation received: at most one [stream, data]
  asked,       \* ghost: the path each stream was opened with
  fresh,       \* ghost: the stream opened last, unless gc ran since; or 0
  sends        \* sends so far

ghosts == <<asked, fresh, sends>>
vars == <<fs_list, streams, cells, free, file_cell, files, got, ghosts>>

Nil == 0
SdPoint == <<"/sd">>
NilData == <<"nil">>
NotFound == <<"not found">>
Freed == <<"freed">>

Init ==
  /\ \E d \in Devices : fs_list = <<[point |-> SdPoint, device |-> d]>>
  /\ streams = <<>> /\ cells = <<>> /\ free = {}
  /\ file_cell = Nil
  /\ files \in [FileNames -> {NotFound, <<"old">>}]
  /\ got = {}
  /\ asked = <<>> /\ fresh = 0 /\ sends = 0

-----------------------------------------------------------------------------
(* Cells *)

\* cell_alloc takes a freed cell before a new one.
NewCells(used) ==
  IF free \ used # {} THEN free \ used
  ELSE {Len(cells) + (IF Len(cells) + 1 \in used THEN 2 ELSE 1)}

Fill(cs, n, s) == IF n > Len(cs) THEN Append(cs, s) ELSE [cs EXCEPT ![n] = s]

-----------------------------------------------------------------------------
(* The devices.  A path that goes on with a slash after /sd names a file. *)

NamesFile(path) == Len(path) = 3 /\ path[2] = "/"
FileOf(path) == path[3]

Content(path) == IF NamesFile(path) THEN files[FileOf(path)] ELSE NotFound

\* posixfs_open: the whole file is read into a cell that every stream shares.
PosixOpenKeeps(path, p) ==
  IF Content(path) # NotFound
  THEN \E d \in NewCells({p}) :
         /\ cells' = Fill(Fill(cells, p, path), d, Content(path))
         /\ free' = free \ {p, d}
         /\ file_cell' = d
  ELSE /\ cells' = Fill(cells, p, path)
       /\ free' = free \ {p}
       /\ UNCHANGED file_cell
PosixOpen(path, p) ==
  IF NamesFile(path)
  THEN \E d \in NewCells({p}) :
         /\ cells' = Fill(Fill(cells, p, path), d, Content(path))
         /\ free' = free \ {p, d}
         /\ file_cell' = d
  ELSE /\ cells' = Fill(cells, p, path)
       /\ free' = free \ {p}
       /\ file_cell' = Nil

\* posixfs_read
PosixRead == IF file_cell = Nil THEN NilData ELSE cells[file_cell]

\* fatfs_read: the file that the path names now, with one zero byte more;
\* nothing if there is none.
FatRead(path) ==
  IF Content(path) = NotFound THEN <<>> ELSE Append(Content(path), "0")

\* fatfs_write: the file is created anew (FA_CREATE_ALWAYS).
FatWrite(path, data) == [files EXCEPT ![FileOf(path)] = data]

-----------------------------------------------------------------------------
(* stream.c *)

\* fs_mount, by a program.
Mount(point) ==
  /\ Len(fs_list) < MaxMounts
  /\ fs_list' = <<[point |-> point, device |-> "program"]>> \o fs_list
  /\ got' = {}
  /\ UNCHANGED <<streams, cells, free, file_cell, files, ghosts>>

\* fs_open takes the first file system of the list whose mount point the path
\* starts with.
Serving(path) == {k \in DOMAIN fs_list : IsPrefix(fs_list[k].point, path)}
FirstOf(ks) == CHOOSE k \in ks : \A j \in ks : k <= j

\* A path that nothing serves gives nil.
OpenNothing(path) ==
  /\ Serving(path) = {}
  /\ got' = {}
  /\ UNCHANGED <<fs_list, streams, cells, free, file_cell, files, ghosts>>

Open(path) ==
  /\ Serving(path) # {}
  /\ Len(streams) < MaxStreams /\ Len(cells) + 2 <= MaxCells
  /\ \E p \in NewCells({}) :
       LET fs == fs_list[FirstOf(Serving(path))] IN
       /\ IF fs.device = "posix" THEN PosixOpen(path, p)
          ELSE /\ cells' = Fill(cells, p, path)
               /\ free' = free \ {p}
               /\ UNCHANGED file_cell
       /\ streams' = Append(streams, [fs |-> fs, path |-> p])
  /\ asked' = Append(asked, path)
  /\ fresh' = Len(streams')
  /\ got' = {}
  /\ UNCHANGED <<fs_list, files, sends>>

\* stream_read
Recv(s) ==
  /\ s \in DOMAIN streams
  /\ LET stream == streams[s] IN
     got' = {[stream |-> s, data |->
               CASE stream.fs.device = "posix" -> PosixRead
                 [] stream.fs.device = "fat" -> FatRead(cells[stream.path])
                 [] OTHER -> <<"program">>]}
  /\ UNCHANGED <<fs_list, streams, cells, free, file_cell, files, ghosts>>

\* stream_write; posixfs_write does nothing.
Send(s, data) ==
  /\ s \in DOMAIN streams
  /\ sends < MaxSends
  /\ files' = IF streams[s].fs.device = "fat"
              THEN FatWrite(cells[streams[s].path], data) ELSE files
  /\ sends' = sends + 1
  /\ got' = {}
  /\ UNCHANGED <<fs_list, streams, cells, free, file_cell, asked, fresh>>

-----------------------------------------------------------------------------
(* alloc.c *)

\* mark_tree follows a stream to its path.  Nothing points to _file_cell.
MarkedNot == {}
Marked == {streams[s].path : s \in DOMAIN streams}

Gc ==
  /\ free' = DOMAIN cells \ Marked
  /\ cells' = [n \in DOMAIN cells |-> IF n \in free' THEN Freed ELSE cells[n]]
  /\ fresh' = 0
  /\ got' = {}
  /\ UNCHANGED <<fs_list, streams, file_cell, files, asked, sends>>

\* Some other string is made.
AllocString(s) ==
  /\ Len(cells) < MaxCells
  /\ \E n \in NewCells({}) :
       /\ cells' = Fill(cells, n, s)
       /\ free' = free \ {n}
  /\ got' = {}
  /\ UNCHANGED <<fs_list, streams, file_cell, files, ghosts>>

Next ==
  \/ \E point \in OtherPoints : Mount(point)
  \/ \E path \in Paths[Last(fs_list).device] :
       Open(path) \/ OpenNothing(path) \/ AllocString(path)
  \/ \E s \in DOMAIN streams : Recv(s) \/ \E data \in Data : Send(s, data)
  \/ Gc

Spec == Init /\ [][Next]_vars

-----------------------------------------------------------------------------
(* Properties *)

\* Cells in use are numbered from 1; the paths of streams are not free.
TypeOK ==
  /\ free \subseteq DOMAIN cells
  /\ \A s \in DOMAIN streams :
       streams[s].path \in DOMAIN cells \ free
  /\ file_cell \in {Nil} \cup DOMAIN cells
  /\ files \in [FileNames -> {NotFound} \cup Seq({"old", "new"})]

\* What a stream's file gives, as its device delivers it.
Expected(s) ==
  CASE streams[s].fs.device = "fat" -> FatRead(asked[s])
    [] streams[s].fs.device = "posix" ->
         IF NamesFile(asked[s]) THEN Content(asked[s]) ELSE NilData
    [] OTHER -> <<"program">>


\* (recv (open path)), as every program loads a file, gives that file on
\* hosted systems too: until the next open or gc.
OpenThenRecv ==
  \A g \in got : g.stream = fresh => g.data = Expected(g.stream)
=============================================================================
