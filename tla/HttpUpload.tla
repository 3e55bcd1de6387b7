----------------------------- MODULE HttpUpload -----------------------------
(***************************************************************************)
(* What uploads do to the files: write_file() of src/http_post.c in        *)
(* several children at once.  How a child takes the body from its          *)
(* connection is in HttpSession; here a body is a number of lines, as      *)
(* read_line() returns them, and a child whose client has gone takes no    *)
(* further step.                                                           *)
(*                                                                         *)
(* Clients name files of the directory that vpn.c collects uploads from;   *)
(* of name.new only the name is kept.  A file is an inode: it stays the    *)
(* same file for those who have opened it when it is moved.                *)
(***************************************************************************)
EXTENDS Integers, Sequences, FiniteSets, Functions, SequencesExt

CONSTANTS Uploads,   \* the uploads; each is made by one child
          Names,     \* the names of the files
          Present,   \* those that are there at the start
          MaxBlocks  \* bound on the lines of a body

ASSUME UploadAssumption ==
    /\ IsFiniteSet(Present) /\ Present \subseteq Names
    /\ MaxBlocks \in Nat \ {0}

VARIABLES
    home,   \* the directory: the inodes of the names that are there
    inodes, \* all inodes: the name each was created under, and its lines
    child   \* the children: pc, the inode, the offset, lines read and in all

LineEnds == {"lf", "cr", "crlf"}
Block    == [by : Uploads, at : 1 .. MaxBlocks, end : LineEnds]
Inode    == [name : Names, blocks : Seq(Block)]
Child    == [pc : {"headers", "writing", "done"}, inode : Nat, off : Nat,
             read : Nat, total : 0 .. MaxBlocks,
             short : BOOLEAN,         \* history: has a write failed?
             before : SUBSET Uploads] \* history: the uploads made before it

NoFile == [pc |-> "headers", inode |-> 0, off |-> 0, read |-> 0, total |-> 0,
           short |-> FALSE, before |-> {}]

\* open() with O_CREAT and without O_TRUNC.
OpenFile(u) ==
    /\ child[u].pc = "headers"
    /\ \E n \in Names, k \in 1 .. MaxBlocks :
          LET new == n \notin DOMAIN home
              i   == IF new THEN Len(inodes) + 1 ELSE home[n]
          IN  /\ inodes' = IF new THEN Append(inodes, [name |-> n, blocks |-> <<>>]) ELSE inodes
              /\ home' = [m \in DOMAIN home \cup {n} |-> IF m = n THEN i ELSE home[m]]
              /\ child' = [child EXCEPT ![u] =
                    [NoFile EXCEPT !.pc = "writing", !.inode = i, !.total = k,
                                   !.before = {v \in Uploads : child[v].pc = "done"}]]

Blocks(u) == inodes[child[u].inode].blocks

Reads(u) == child[u].pc = "writing" /\ child[u].read < child[u].total

\* read_line(): whatever ends the line is one LF in the buffer.
ReadLine(line) == [line EXCEPT !.end = "lf"]

\* A write goes to the child's own offset, over what another has written there.
Put(u, off) ==
    \E e \in LineEnds :
       LET b == ReadLine([by |-> u, at |-> child[u].read + 1, end |-> e])
       IN  inodes' = [inodes EXCEPT ![child[u].inode].blocks =
                        IF off = Len(@) THEN Append(@, b) ELSE [@ EXCEPT ![off + 1] = b]]

\* Mutant: the file is opened for appending.
AppendBlock(u) ==
    /\ Reads(u)
    /\ Put(u, Len(Blocks(u)))
    /\ child' = [child EXCEPT ![u].off = @ + 1, ![u].read = @ + 1]
    /\ UNCHANGED home
WriteBlock(u) ==
    /\ Reads(u)
    /\ Put(u, child[u].off)
    /\ child' = [child EXCEPT ![u].off = @ + 1, ![u].read = @ + 1]
    /\ UNCHANGED home

\* No room: the result of write() is not looked at, and the block is skipped.
WriteFails(u) ==
    /\ Reads(u)
    /\ child' = [child EXCEPT ![u].read = @ + 1, ![u].short = TRUE]
    /\ UNCHANGED <<home, inodes>>

\* The client is told that the upload is there.
CloseFile(u) ==
    /\ child[u].pc = "writing" /\ child[u].read = child[u].total
    /\ child' = [child EXCEPT ![u].pc = "done"]
    /\ UNCHANGED <<home, inodes>>

UploadStep(u) == OpenFile(u) \/ WriteBlock(u) \/ WriteFails(u) \/ CloseFile(u)

UploadInit ==
    LET old == SetToSeq(Present) IN
    /\ home = [n \in Present |-> CHOOSE i \in DOMAIN old : old[i] = n]
    /\ inodes = [i \in DOMAIN old |-> [name |-> old[i], blocks |-> <<>>]]
    /\ child = [u \in Uploads |-> NoFile]

(***************************************************************************)
(* Properties.                                                             *)
(***************************************************************************)
UploadTypeOK ==
    /\ DOMAIN home \subseteq Names /\ Range(home) \subseteq DOMAIN inodes
    /\ inodes \in Seq(Inode)
    /\ child \in [Uploads -> Child]
    /\ \A u \in Uploads : child[u].pc # "headers" =>
          child[u].inode \in DOMAIN inodes /\ child[u].off <= Len(Blocks(u))

\* http_post.c:260: when the client has been told that its upload is there, and
\* no write has failed, each line is in its place, in the file it was opened as,
\* wherever that has been moved meanwhile; or an upload to the same file that
\* was not complete before has put its own line there.  Every line ends in LF,
\* whatever ended it when it was sent.
UploadStored ==
    \A u \in Uploads : child[u].pc = "done" /\ ~child[u].short =>
        \A k \in 1 .. child[u].total :
            LET b == Blocks(u)[k] IN
            \/ b = [by |-> u, at |-> k, end |-> "lf"]
            \/ b.by \notin child[u].before \cup {u}
               /\ child[b.by].inode = child[u].inode /\ (b.at = k \/ child[b.by].short)
=============================================================================
