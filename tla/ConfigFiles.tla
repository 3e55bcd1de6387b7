---------------------------- MODULE ConfigFiles ----------------------------
(***************************************************************************)
(* How uploaded files become the configuration of the tunnel:              *)
(* checkconfigfile() of vpn.c, which the threads of the daemon call before *)
(* a restart, while children of the HTTP server upload (HttpUpload).       *)
(*                                                                         *)
(* The tables img_path and aasave_path are static and shared.  An entry of *)
(* aasave_path is a buffer that strcpy() and memcpy() write without a      *)
(* final NUL: it is the sequence of its characters after "/home/config/",  *)
(* and a name shorter than the one before keeps the tail of it.            *)
(***************************************************************************)
EXTENDS HttpUpload

CONSTANTS Threads,     \* the threads that restart the tunnel
          Chars,       \* the characters of names
          MinFiles,    \* how many files make a set; 5 in the code
          MaxBatches   \* bound on the calls of checkconfigfile()

ASSUME ConfigAssumption ==
    /\ Names \subseteq Seq(Chars) \ {<<>>}
    /\ IsFiniteSet(Names) /\ Cardinality(Names) <= 9 \* the tables have ten entries
    /\ MinFiles \in Nat \ {0} /\ MaxBatches \in Nat

VARIABLES
    config,      \* /home/config: the inodes of the paths that are there
    img_path,    \* names, by index
    aasave_path, \* paths, by index
    thread,      \* where each thread is, with ptr, img_num and i
    batches,     \* how many batches there have been
    overlapped,  \* history: has one batch begun before another had ended?
    kept,        \* history: the inodes in /home when the last batch began
    found        \* history: the names it has read

tables  == <<img_path, aasave_path>>
history == <<batches, overlapped, kept, found>>
uploads == <<home, inodes, child>>
vars    == <<uploads, config, tables, thread, history>>

Indices == 0 .. Cardinality(Names)
Idle    == [pc |-> "idle", left |-> {}, seen |-> {}, img_num |-> 0, i |-> 0]

\* opendir(): what is there now will be returned by readdir(); what comes later,
\* or goes, may be or not.
OpenDir(t) ==
    /\ thread[t].pc = "idle" /\ batches < MaxBatches
    /\ thread' = [thread EXCEPT ![t] = [Idle EXCEPT !.pc = "scan", !.left = DOMAIN home]]
    /\ batches' = batches + 1
    /\ overlapped' = (\E u \in Threads \ {t} : thread[u].pc # "idle")
    /\ kept' = Range(home) /\ found' = {}
    /\ UNCHANGED <<uploads, config, tables>>

NoNames == [k \in Indices |-> {}]
NoPaths == [k \in Indices |-> <<>>]
AllIdle == [t \in Threads |-> Idle]

\* The daemon is started again: its static tables are empty.
StartsAgain ==
    /\ img_path' = NoNames /\ aasave_path' = NoPaths /\ thread' = AllIdle
    /\ UNCHANGED <<uploads, config, history>>

\* exit(1): all threads of the process end, the batch of another one too.
OpenDirFails(t) == thread[t].pc = "idle" /\ StartsAgain

\* The daemon is killed during a batch, or the device loses its power.
DaemonRestarts == thread # AllIdle /\ StartsAgain

\* What the buffer holds after a name has been copied into it.
CopyName(buffer, n) == n \o SubSeq(buffer, Len(n) + 1, Len(buffer))

\* The index is advanced between the source and the destination.
ReadDir(t) ==
    /\ thread[t].pc = "scan"
    /\ \E n \in (thread[t].left \cup DOMAIN home) \ thread[t].seen :
          LET k == thread[t].img_num IN
          /\ img_path' = [img_path EXCEPT ![k] = {n}]
          /\ aasave_path' = [aasave_path EXCEPT ![k + 1] = CopyName(@, n)]
          /\ thread' = [thread EXCEPT ![t].img_num = k + 1, ![t].seen = @ \cup {n}]
          /\ found' = found \cup {n}
    /\ UNCHANGED <<uploads, config, batches, overlapped, kept>>

\* Every name that was there from the beginning has been returned.
AllRead(t) == (thread[t].left \cap DOMAIN home) \subseteq thread[t].seen

BatchOf(k) == [Idle EXCEPT !.pc = "move", !.img_num = k]

\* Mutant: any number of files will do.
CloseDirAnyNumber(t) ==
    /\ thread[t].pc = "scan" /\ AllRead(t)
    /\ thread' = [thread EXCEPT ![t] = BatchOf(@.img_num)]
    /\ UNCHANGED <<uploads, config, tables, history>>
\* Too few files: MISSFILE, which the caller ignores.
CloseDir(t) ==
    /\ thread[t].pc = "scan" /\ AllRead(t)
    /\ thread' = [thread EXCEPT ![t] = IF @.img_num < MinFiles THEN Idle ELSE BatchOf(@.img_num)]
    /\ UNCHANGED <<uploads, config, tables, history>>

Advance(t) ==
    thread' = IF thread[t].i + 1 = thread[t].img_num THEN [thread EXCEPT ![t] = Idle]
                                                     ELSE [thread EXCEPT ![t].i = @ + 1]

PathsAfter(n, path) ==
    [p \in DOMAIN config \cup {path} |-> IF p = path THEN home[n] ELSE config[p]]

Rename(n, path) ==
    /\ home' = Restrict(home, DOMAIN home \ {n})
    /\ config' = PathsAfter(n, path)

\* Mutant: the first destination for all.
MoveToFirst(t) ==
    /\ thread[t].pc = "move"
    /\ \E n \in img_path[thread[t].i] : n \in DOMAIN home /\ Rename(n, aasave_path[1])
    /\ Advance(t)
    /\ UNCHANGED <<inodes, child, tables, history>>
Move(t) ==
    /\ thread[t].pc = "move" /\ aasave_path[thread[t].i] # <<>>
    /\ \E n \in img_path[thread[t].i] :
          n \in DOMAIN home /\ Rename(n, aasave_path[thread[t].i])
    /\ Advance(t)
    /\ UNCHANGED <<inodes, child, tables, history>>

\* mv fails, as it must without a source or a destination, which counts as OK.
MoveFails(t) ==
    /\ thread[t].pc = "move"
    /\ Advance(t)
    /\ UNCHANGED <<uploads, config, tables, history>>

\* system() itself fails, which ends the loop.
SystemFails(t) ==
    /\ thread[t].pc = "move"
    /\ thread' = [thread EXCEPT ![t] = Idle]
    /\ UNCHANGED <<uploads, config, tables, history>>

ThreadStep(t) ==
    \/ OpenDir(t) \/ OpenDirFails(t) \/ ReadDir(t) \/ CloseDir(t)
    \/ Move(t) \/ MoveFails(t) \/ SystemFails(t)

Init ==
    /\ UploadInit
    /\ config = [p \in {} |-> 0]
    /\ img_path = NoNames /\ aasave_path = NoPaths /\ thread = AllIdle
    /\ batches = 0 /\ overlapped = FALSE /\ kept = {} /\ found = {}

Next ==
    \/ \E t \in Threads : ThreadStep(t)
    \/ DaemonRestarts
    \/ \E u \in Uploads :
          UploadStep(u) /\ UNCHANGED <<config, tables, thread, history>>

Spec == Init /\ [][Next]_vars

(***************************************************************************)
(* Properties.                                                             *)
(***************************************************************************)
\* Every variable has its type, and the files that were moved are there.
TypeOK ==
    /\ UploadTypeOK
    /\ Range(config) \subseteq DOMAIN inodes /\ DOMAIN config \subseteq Seq(Chars)
    /\ img_path \in [Indices -> SUBSET Names]
    /\ aasave_path \in [Indices -> Seq(Chars)]
    /\ thread \in [Threads -> [pc : {"idle", "scan", "move"}, left : SUBSET Names,
                               seen : SUBSET Names, img_num : Nat, i : Nat]]
    /\ \A t \in Threads : thread[t].pc = "move" => thread[t].i < thread[t].img_num
    /\ batches \in Nat /\ overlapped \in BOOLEAN
    /\ kept \subseteq DOMAIN inodes /\ found \subseteq Names

\* vpn.c:102: a batch may stop between any two moves, skip what it cannot move
\* and give files the paths of others, but no move goes over what an earlier one has
\* moved: each file that was uploaded when the batch began is in one of the
\* directories until another begins.  Two batches at once can lose files; and so can
\* one with a name that begins with another: the shorter name, with the old tail of
\* its buffer (vpn.c:75), can be the longer one.
PrefixFree(names) == \A m, n \in names : IsPrefix(m, n) => m = n
NothingLost == ~overlapped /\ PrefixFree(found) => kept \subseteq Range(home) \cup Range(config)

\* vpn.c:106 "updated %s failed": when that is not printed, the file has been
\* updated with the one uploaded for it; what is in /home/config was uploaded as
\* what it is there.
MovedToItsName == \A p \in DOMAIN config : p = inodes[config[p]].name
=============================================================================
