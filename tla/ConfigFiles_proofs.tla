-------------------------- MODULE ConfigFiles_proofs --------------------------
(***************************************************************************)
(* Theorems about ConfigFiles and the uploads of HttpUpload, for any       *)
(* number of children, of threads that restart the tunnel, of files and of *)
(* blocks, and any interleaving of their steps.                            *)
(***************************************************************************)
EXTENDS ConfigFiles, FiniteSetTheorems, SequenceTheorems, TLAPS

(***************************************************************************)
(* The files at the start: each name has an inode of its own.              *)
(***************************************************************************)
LEMMA OldFiles ==
    LET old == SetToSeq(Present) IN
    /\ old \in Seq(Names)
    /\ \A n \in Present : \E i \in DOMAIN old : old[i] = n
<1> DEFINE old == SetToSeq(Present)
           c == Cardinality(Present)
<1>1. c \in Nat /\ ExistsBijection(1 .. c, Present)
  BY FS_CardinalityType, UploadAssumption
<1>2. PICK g \in Bijection(1 .. c, Present) : TRUE
  BY <1>1 DEF ExistsBijection
<1>3. old \in [1 .. c -> Present] /\ IsInjective(old)
  BY <1>2 DEF SetToSeq, Bijection, Injection
<1>4. old \in Injection(1 .. c, Present)
  BY <1>3 DEF Injection
<1>5. Cardinality(1 .. c) = c
  BY <1>1, FS_Interval
<1>6. old \in Surjection(1 .. c, Present)
  BY <1>4, <1>5, FS_Injection, UploadAssumption
<1>7. \A n \in Present : \E i \in 1 .. c : old[i] = n
  BY <1>6 DEF Surjection
<1>8. old \in Seq(Present)
  BY <1>1, <1>3, SeqDef
<1>9. old \in Seq(Names)
  BY <1>8, UploadAssumption, SeqMonotonic
<1>. QED  BY <1>3, <1>7, <1>9

\* The directory at the start is injective, into the inodes.
LEMMA FirstFiles ==
    ASSUME UploadInit
    PROVE  /\ DOMAIN home = Present /\ Range(home) \subseteq DOMAIN inodes
           /\ IsInjective(home)
           /\ inodes \in Seq(Inode)
<1> DEFINE old == SetToSeq(Present)
<1>1. old \in Seq(Names) /\ \A n \in Present : \E i \in DOMAIN old : old[i] = n
  BY OldFiles
<1>2. /\ home = [n \in Present |-> CHOOSE i \in DOMAIN old : old[i] = n]
      /\ inodes = [i \in DOMAIN old |-> [name |-> old[i], blocks |-> <<>>]]
  BY DEF UploadInit
<1> HIDE DEF old
<1>3. DOMAIN home = Present /\ DOMAIN inodes = DOMAIN old
  BY <1>2
<1>4. \A n \in Present : home[n] \in DOMAIN old /\ old[home[n]] = n
  <2> TAKE n \in Present
  <2>1. home[n] = CHOOSE i \in DOMAIN old : old[i] = n
    BY <1>2
  <2>. QED  BY <1>1, <2>1
<1>5. Len(old) \in Nat /\ DOMAIN old = 1 .. Len(old) /\ \A i \in DOMAIN old : old[i] \in Names
  BY <1>1
<1>6. <<>> \in Seq(Block)
  BY EmptySeq
<1>7. \A i \in 1 .. Len(old) : [name |-> old[i], blocks |-> <<>>] \in Inode
  BY <1>5, <1>6 DEF Inode
<1>8. inodes \in [1 .. Len(old) -> Inode]
  BY <1>2, <1>5, <1>7
<1>9. inodes \in Seq(Inode)
  BY <1>5, <1>8, SeqDef
<1>. QED  BY <1>3, <1>4, <1>9 DEF Range, IsInjective

(***************************************************************************)
(* What the steps of an upload do to the files.                            *)
(***************************************************************************)
\* A step keeps the inodes that there are, and none becomes shorter.
Grown ==
    /\ DOMAIN inodes \subseteq DOMAIN inodes'
    /\ \A i \in DOMAIN inodes :
          inodes'[i].name = inodes[i].name /\ Len(inodes[i].blocks) <= Len(inodes'[i].blocks)

\* One block is written at the child's offset, or behind the last; the others
\* stay.
LEMMA WriteEffect ==
    ASSUME UploadTypeOK, NEW u \in Uploads, WriteBlock(u)
    PROVE  LET i == child[u].inode
               k == child[u].off + 1
               before == inodes[i].blocks
               after == inodes'[i].blocks
           IN  /\ inodes' \in Seq(Inode) /\ DOMAIN inodes' = DOMAIN inodes
               /\ \A j \in DOMAIN inodes : inodes'[j].name = inodes[j].name
               /\ \A j \in DOMAIN inodes : j # i => inodes'[j] = inodes[j]
               /\ i \in DOMAIN inodes
               /\ k \in 1 .. Len(before) + 1
               /\ Len(after) = IF k = Len(before) + 1 THEN k ELSE Len(before)
               /\ after[k] = [by |-> u, at |-> child[u].read + 1, end |-> "lf"]
               /\ \A m \in 1 .. Len(before) : m # k => after[m] = before[m]
<1> DEFINE i == child[u].inode
           k == child[u].off + 1
           before == inodes[i].blocks
           after == inodes'[i].blocks
           b == [by |-> u, at |-> child[u].read + 1, end |-> "lf"]
<1>1. /\ child[u] \in Child /\ child[u].pc = "writing" /\ child[u].read < child[u].total
      /\ i \in DOMAIN inodes /\ child[u].off <= Len(before)
      /\ inodes \in Seq(Inode)
  BY DEF UploadTypeOK, WriteBlock, Reads, Blocks
<1>2. b \in Block
  BY <1>1, UploadAssumption DEF Block, LineEnds, Child
<1>3. inodes[i] \in Inode /\ before \in Seq(Block)
  <2>1. inodes[i] \in Inode
    BY <1>1
  <2>. QED  BY <2>1 DEF Inode
<1>4. k \in 1 .. Len(before) + 1
  BY <1>1, <1>3 DEF Child
<1> DEFINE new == IF child[u].off = Len(before) THEN Append(before, b)
                  ELSE [before EXCEPT ![child[u].off + 1] = b]
<1>5. /\ new \in Seq(Block)
      /\ Len(new) = IF k = Len(before) + 1 THEN k ELSE Len(before)
      /\ new[k] = b
      /\ \A m \in 1 .. Len(before) : m # k => new[m] = before[m]
  <2> HIDE DEF before, b
  <2>1. CASE child[u].off = Len(before)
    BY <1>2, <1>3, <2>1, AppendProperties
  <2>2. CASE child[u].off # Len(before)
    <3>1. k \in 1 .. Len(before) /\ child[u].off \in Nat
      BY <1>1, <1>3, <1>4, <2>2 DEF Child
    <3>2. new = [before EXCEPT ![k] = b]
      BY <2>2
    <3> HIDE DEF new, k
    <3>. QED  BY <1>2, <1>3, <3>1, <3>2, ExceptSeq
  <2>. QED  BY <2>1, <2>2
<1>6. inodes' = [inodes EXCEPT ![i].blocks = new]
  <2>1. PICK e \in LineEnds :
           LET r == ReadLine([by |-> u, at |-> child[u].read + 1, end |-> e])
           IN  inodes' = [inodes EXCEPT ![i].blocks =
                            IF child[u].off = Len(@) THEN Append(@, r)
                                                     ELSE [@ EXCEPT ![child[u].off + 1] = r]]
    BY DEF WriteBlock, Put
  <2>2. ReadLine([by |-> u, at |-> child[u].read + 1, end |-> e]) = b
    BY DEF ReadLine
  <2>. QED  BY <2>1, <2>2
<1> HIDE DEF new
<1>7. inodes' = [inodes EXCEPT ![i] = [@ EXCEPT !.blocks = new]]
  BY <1>6
<1>8. [inodes[i] EXCEPT !.blocks = new] \in Inode
  BY <1>3, <1>5 DEF Inode
<1>9. inodes' \in Seq(Inode) /\ DOMAIN inodes' = DOMAIN inodes
  BY <1>1, <1>7, <1>8
<1>10. after = new
  BY <1>1, <1>3, <1>7 DEF Inode
<1>11. \A j \in DOMAIN inodes : inodes'[j].name = inodes[j].name /\ (j # i => inodes'[j] = inodes[j])
  BY <1>1, <1>7 DEF Inode
<1>. QED  BY <1>1, <1>4, <1>5, <1>9, <1>10, <1>11

\* The name n of the directory is that of the inode i.
Linked(n, i) == home' = [m \in DOMAIN home \cup {n} |-> IF m = n THEN i ELSE home[m]]

\* A file is opened: the one that has the name, or a new and empty one.
LEMMA OpenEffect ==
    ASSUME UploadTypeOK, NEW u \in Uploads, OpenFile(u)
    PROVE  \E n \in Names, i \in DOMAIN inodes' :
              /\ inodes' \in Seq(Inode)
              /\ \/ n \in DOMAIN home /\ i = home[n] /\ inodes' = inodes
                 \/ n \notin DOMAIN home /\ i \notin DOMAIN inodes
                    /\ DOMAIN inodes' = DOMAIN inodes \cup {i}
                    /\ inodes'[i].blocks = <<>>
                    /\ \A j \in DOMAIN inodes : inodes'[j] = inodes[j]
              /\ Linked(n, i)
              /\ \E k \in 1 .. MaxBlocks : child' = [child EXCEPT ![u] =
                    [NoFile EXCEPT !.pc = "writing", !.inode = i, !.total = k,
                                   !.before = {v \in Uploads : child[v].pc = "done"}]]
<1>1. PICK n \in Names, k \in 1 .. MaxBlocks :
          LET new == n \notin DOMAIN home
              i   == IF new THEN Len(inodes) + 1 ELSE home[n]
          IN  /\ inodes' = IF new THEN Append(inodes, [name |-> n, blocks |-> <<>>]) ELSE inodes
              /\ home' = [m \in DOMAIN home \cup {n} |-> IF m = n THEN i ELSE home[m]]
              /\ child' = [child EXCEPT ![u] =
                    [NoFile EXCEPT !.pc = "writing", !.inode = i, !.total = k,
                                   !.before = {v \in Uploads : child[v].pc = "done"}]]
  BY DEF OpenFile
<1>2. inodes \in Seq(Inode) /\ Range(home) \subseteq DOMAIN inodes
  BY DEF UploadTypeOK
<1>3. CASE n \in DOMAIN home
  <2>1. home[n] \in DOMAIN inodes
    BY <1>2, <1>3 DEF Range
  <2>. QED  BY <1>1, <1>2, <1>3, <2>1 DEF Linked
<1>4. CASE n \notin DOMAIN home
  <2> DEFINE i == Len(inodes) + 1
             f == [name |-> n, blocks |-> <<>>]
  <2>1. f \in Inode
    BY EmptySeq DEF Inode
  <2>2. inodes' = Append(inodes, f)
    BY <1>1, <1>4
  <2>3. /\ inodes' \in Seq(Inode) /\ Len(inodes') = i /\ i \in Nat
        /\ \A j \in 1 .. Len(inodes) : inodes'[j] = inodes[j]
        /\ inodes'[i] = f
    <3> HIDE DEF f
    <3>. QED  BY <1>2, <2>1, <2>2, AppendProperties
  <2>4. DOMAIN inodes = 1 .. Len(inodes) /\ DOMAIN inodes' = 1 .. i /\ Len(inodes) \in Nat
    BY <1>2, <2>3
  <2>5. i \notin DOMAIN inodes /\ DOMAIN inodes' = DOMAIN inodes \cup {i} /\ i \in DOMAIN inodes'
    BY <2>4
  <2>6. inodes'[i].blocks = <<>>
    BY <2>3
  <2>7. home' = [m \in DOMAIN home \cup {n} |-> IF m = n THEN i ELSE home[m]]
    BY <1>1, <1>4
  <2>8. child' = [child EXCEPT ![u] =
                    [NoFile EXCEPT !.pc = "writing", !.inode = i, !.total = k,
                                   !.before = {v \in Uploads : child[v].pc = "done"}]]
    BY <1>1, <1>4
  <2>9. \A j \in DOMAIN inodes : inodes'[j] = inodes[j]
    BY <2>3, <2>4
  <2>10. Linked(n, i)
    BY <2>7 DEF Linked
  <2> HIDE DEF i, f
  <2>. QED  BY <1>4, <2>3, <2>5, <2>6, <2>8, <2>9, <2>10
<1>. QED  BY <1>3, <1>4

LEMMA BlocksType ==
    ASSUME UploadTypeOK, NEW i \in DOMAIN inodes
    PROVE  inodes[i] \in Inode /\ inodes[i].blocks \in Seq(Block) /\ Len(inodes[i].blocks) \in Nat
<1>1. inodes[i] \in Inode
  BY DEF UploadTypeOK
<1>. QED  BY <1>1 DEF Inode

LEMMA UploadGrows ==
    ASSUME UploadTypeOK, NEW u \in Uploads, UploadStep(u)
    PROVE  Grown
<1>0. \A i \in DOMAIN inodes : Len(inodes[i].blocks) \in Nat
  BY BlocksType
<1>1. CASE OpenFile(u)
  <2>1. /\ DOMAIN inodes \subseteq DOMAIN inodes'
        /\ \A j \in DOMAIN inodes : inodes'[j] = inodes[j]
    BY <1>1, OpenEffect
  <2>. QED  BY <1>0, <2>1 DEF Grown
<1>2. CASE WriteBlock(u)
  <2> DEFINE w == child[u].inode
  <2>1. /\ DOMAIN inodes' = DOMAIN inodes
        /\ \A j \in DOMAIN inodes : inodes'[j].name = inodes[j].name
        /\ \A j \in DOMAIN inodes : j # w => inodes'[j] = inodes[j]
    BY <1>2, WriteEffect
  <2>2. w \in DOMAIN inodes /\ Len(inodes[w].blocks) <= Len(inodes'[w].blocks)
    <3>1. w \in DOMAIN inodes
      BY <1>2, WriteEffect
    <3>2. LET k == child[u].off + 1 IN
            Len(inodes'[w].blocks) = IF k = Len(inodes[w].blocks) + 1 THEN k ELSE Len(inodes[w].blocks)
      BY <1>2, WriteEffect
    <3> HIDE DEF w
    <3>. QED  BY <1>0, <3>1, <3>2
  <2> HIDE DEF w
  <2>. QED  BY <1>0, <2>1, <2>2 DEF Grown
<1>3. CASE WriteFails(u) \/ CloseFile(u)
  BY <1>0, <1>3 DEF WriteFails, CloseFile, Grown
<1>. QED  BY <1>1, <1>2, <1>3 DEF UploadStep

(***************************************************************************)
(* Types.                                                                  *)
(***************************************************************************)
\* A step changes the record of the child that takes it.
LEMMA ChildKeeps ==
    ASSUME UploadTypeOK, NEW u \in Uploads, UploadStep(u)
    PROVE  /\ child' \in [Uploads -> Child]
           /\ \A v \in Uploads : v # u => child'[v] = child[v]
           /\ \E c \in Child : child' = [child EXCEPT ![u] = c]
<1>0. child \in [Uploads -> Child] /\ child[u] \in Child
  BY DEF UploadTypeOK
<1>1. CASE OpenFile(u)
  <2>1. PICK i \in DOMAIN inodes', k \in 1 .. MaxBlocks : child' = [child EXCEPT ![u] =
                    [NoFile EXCEPT !.pc = "writing", !.inode = i, !.total = k,
                                   !.before = {v \in Uploads : child[v].pc = "done"}]]
    BY <1>1, OpenEffect
  <2>2. i \in Nat /\ k \in 0 .. MaxBlocks
    <3>1. inodes' \in Seq(Inode)
      BY <1>1, OpenEffect
    <3>. QED  BY <3>1, UploadAssumption
  <2>3. [NoFile EXCEPT !.pc = "writing", !.inode = i, !.total = k,
                       !.before = {v \in Uploads : child[v].pc = "done"}] \in Child
    BY <2>2 DEF NoFile, Child
  <2>. QED  BY <1>0, <2>1, <2>3
<1>2. CASE WriteBlock(u)
  <2>1. [child[u] EXCEPT !.off = @ + 1, !.read = @ + 1] \in Child
    <3>1. child[u].off + 1 \in Nat /\ child[u].read + 1 \in Nat
      BY <1>0 DEF Child
    <3>. QED  BY <1>0, <3>1, Zenon DEF Child
  <2>2. child' = [child EXCEPT ![u] = [child[u] EXCEPT !.off = @ + 1, !.read = @ + 1]]
    BY <1>0, <1>2 DEF WriteBlock
  <2>. QED  BY <1>0, <2>1, <2>2
<1>3. CASE WriteFails(u)
  <2>1. [child[u] EXCEPT !.read = @ + 1, !.short = TRUE] \in Child
    <3>1. child[u].read + 1 \in Nat
      BY <1>0 DEF Child
    <3>. QED  BY <1>0, <3>1 DEF Child
  <2>2. child' = [child EXCEPT ![u] = [child[u] EXCEPT !.read = @ + 1, !.short = TRUE]]
    BY <1>0, <1>3 DEF WriteFails
  <2>. QED  BY <1>0, <2>1, <2>2
<1>4. CASE CloseFile(u)
  <2>1. [child[u] EXCEPT !.pc = "done"] \in Child
    BY <1>0 DEF Child
  <2>2. child' = [child EXCEPT ![u] = [child[u] EXCEPT !.pc = "done"]]
    BY <1>0, <1>4 DEF CloseFile
  <2>. QED  BY <1>0, <2>1, <2>2
<1>. QED  BY <1>1, <1>2, <1>3, <1>4 DEF UploadStep

\* A step that keeps the inode, and the end, of each child's file.
LEMMA UploadType ==
    ASSUME UploadTypeOK, NEW u \in Uploads, UploadStep(u)
    PROVE  UploadTypeOK'
<1>0. child \in [Uploads -> Child] /\ child[u] \in Child
  BY DEF UploadTypeOK
<1>1. Grown /\ child' \in [Uploads -> Child] /\ \A v \in Uploads : v # u => child'[v] = child[v]
  BY UploadGrows, ChildKeeps
<1>2. inodes' \in Seq(Inode)
  <2>1. CASE OpenFile(u)
    BY <2>1, OpenEffect
  <2>2. CASE WriteBlock(u)
    BY <2>2, WriteEffect
  <2>3. CASE WriteFails(u) \/ CloseFile(u)
    BY <2>3 DEF WriteFails, CloseFile, UploadTypeOK
  <2>. QED  BY <2>1, <2>2, <2>3 DEF UploadStep
<1>3. DOMAIN home' \subseteq Names /\ Range(home') \subseteq DOMAIN inodes'
  <2>1. CASE OpenFile(u)
    <3>1. PICK n \in Names, i \in DOMAIN inodes' :
             Linked(n, i)
      BY <2>1, OpenEffect
    <3>2. DOMAIN home \subseteq Names /\ Range(home) \subseteq DOMAIN inodes'
      BY <1>1 DEF UploadTypeOK, Grown
    <3>. QED  BY <3>1, <3>2 DEF Range, Linked
  <2>2. CASE WriteBlock(u) \/ WriteFails(u) \/ CloseFile(u)
    <3>1. home' = home
      BY <2>2 DEF WriteBlock, WriteFails, CloseFile
    <3>. QED  BY <1>1, <3>1 DEF UploadTypeOK, Grown
  <2>. QED  BY <2>1, <2>2 DEF UploadStep
<1>4. ASSUME NEW v \in Uploads, child'[v].pc # "headers"
      PROVE  child'[v].inode \in DOMAIN inodes' /\ child'[v].off <= Len(Blocks(v)')
  <2>0. Blocks(v)' = inodes'[child'[v].inode].blocks
    BY DEF Blocks
  <2>1. CASE v # u
    <3>1. child'[v] = child[v] /\ child[v].pc # "headers" /\ child[v] \in Child
      BY <1>0, <1>1, <1>4, <2>1
    <3>2. child[v].inode \in DOMAIN inodes /\ child[v].off <= Len(Blocks(v)) /\ child[v].off \in Nat
      BY <3>1 DEF UploadTypeOK, Child
    <3>3. Len(Blocks(v)) <= Len(Blocks(v)') /\ Len(Blocks(v)) \in Nat
      BY <1>1, <3>1, <3>2, BlocksType DEF Grown, Blocks
    <3>4. child[v].inode \in DOMAIN inodes'
      BY <1>1, <3>2 DEF Grown
    <3>5. Len(Blocks(v)') \in Nat
      BY <1>2, <2>0, <3>1, <3>4 DEF Inode
    <3>. QED  BY <3>1, <3>2, <3>3, <3>4, <3>5
  <2>2. CASE v = u /\ OpenFile(u)
    <3>1. PICK i \in DOMAIN inodes' : child'[u].inode = i /\ child'[u].off = 0
      <4>1. PICK i \in DOMAIN inodes', k \in 1 .. MaxBlocks : child' = [child EXCEPT ![u] =
                    [NoFile EXCEPT !.pc = "writing", !.inode = i, !.total = k,
                                   !.before = {w \in Uploads : child[w].pc = "done"}]]
        BY <2>2, OpenEffect
      <4>. QED  BY <1>0, <4>1 DEF NoFile
    <3>2. inodes'[i] \in Inode
      BY <1>2
    <3>3. Len(inodes'[i].blocks) \in Nat
      BY <3>2 DEF Inode
    <3>. QED  BY <2>0, <2>2, <3>1, <3>3
  <2>3. CASE v = u /\ WriteBlock(u)
    <3> DEFINE i == child[u].inode
               o == child[u].off
    <3>1. /\ i \in DOMAIN inodes /\ DOMAIN inodes' = DOMAIN inodes
          /\ o + 1 \in 1 .. Len(inodes[i].blocks) + 1
          /\ Len(inodes'[i].blocks) =
                IF o + 1 = Len(inodes[i].blocks) + 1 THEN o + 1 ELSE Len(inodes[i].blocks)
      BY <2>3, WriteEffect
    <3>2. child'[u].inode = i /\ child'[u].off = o + 1
      BY <1>0, <2>3 DEF WriteBlock, Child
    <3>3. Len(inodes[i].blocks) \in Nat /\ o \in Nat
      BY <1>0, <3>1, BlocksType DEF Child
    <3> HIDE DEF i, o
    <3>. QED  BY <2>0, <2>3, <3>1, <3>2, <3>3
  <2>4. CASE v = u /\ (WriteFails(u) \/ CloseFile(u))
    <3>1. /\ inodes' = inodes /\ child'[u].inode = child[u].inode
          /\ child'[u].off = child[u].off /\ child[u].pc # "headers"
      BY <1>0, <2>4 DEF WriteFails, CloseFile, Reads, Child
    <3>. QED  BY <2>0, <2>4, <3>1 DEF UploadTypeOK, Blocks
  <2>. QED  BY <2>1, <2>2, <2>3, <2>4 DEF UploadStep
<1>. QED  BY <1>1, <1>2, <1>3, <1>4 DEF UploadTypeOK

\* The number of files of a batch: as many as the names it has read.
BatchSize ==
    \A t \in Threads :
        /\ thread[t].img_num <= Cardinality(Names)
        /\ thread[t].pc = "scan" => thread[t].img_num = Cardinality(thread[t].seen)

Thread == [pc : {"idle", "scan", "move"}, left : SUBSET Names,
           seen : SUBSET Names, img_num : Nat, i : Nat]

\* There are places for the name that is read, and the one that is moved.
LEMMA InTables ==
    ASSUME TypeOK, BatchSize, NEW t \in Threads
    PROVE  /\ Cardinality(Names) \in Nat
           /\ thread[t] \in Thread
           /\ thread[t].pc = "scan" => \A n \in Names \ thread[t].seen :
                 /\ thread[t].img_num < Cardinality(Names)
                 /\ Cardinality(thread[t].seen \cup {n}) = thread[t].img_num + 1
           /\ thread[t].pc = "move" => thread[t].i \in Indices
<1>1. IsFiniteSet(Names) /\ Cardinality(Names) \in Nat
  BY ConfigAssumption, FS_CardinalityType
<1>2. thread[t] \in Thread
  BY DEF TypeOK, Thread
<1>3. ASSUME thread[t].pc = "scan", NEW n \in Names \ thread[t].seen
      PROVE  /\ thread[t].img_num < Cardinality(Names)
             /\ Cardinality(thread[t].seen \cup {n}) = thread[t].img_num + 1
  <2> DEFINE seen == thread[t].seen
  <2>1. seen \in SUBSET Names /\ seen \cup {n} \in SUBSET Names
    BY <1>2 DEF Thread
  <2>2. IsFiniteSet(seen) /\ Cardinality(seen) \in Nat
    BY <1>1, <2>1, FS_Subset, FS_CardinalityType
  <2>3. Cardinality(seen \cup {n}) = Cardinality(seen) + 1
    BY <1>3, <2>2, FS_AddElement
  <2>4. Cardinality(seen \cup {n}) <= Cardinality(Names)
    BY <1>1, <2>1, FS_Subset
  <2>5. thread[t].img_num = Cardinality(seen)
    BY <1>3 DEF BatchSize
  <2> HIDE DEF seen
  <2>6. thread[t].img_num + 1 <= Cardinality(Names)
    BY <2>3, <2>4, <2>5
  <2>7. Cardinality(seen \cup {n}) = thread[t].img_num + 1
    BY <2>3, <2>5
  <2>. QED  BY <1>1, <2>2, <2>5, <2>6, <2>7 DEF seen
<1>4. ASSUME thread[t].pc = "move" PROVE thread[t].i \in Indices
  <2>1. thread[t].i < thread[t].img_num /\ thread[t].img_num <= Cardinality(Names)
    BY <1>4 DEF TypeOK, BatchSize
  <2>2. thread[t].i \in Nat /\ thread[t].img_num \in Nat
    BY <1>2 DEF Thread
  <2>. QED  BY <1>1, <2>1, <2>2 DEF Indices
<1>. QED  BY <1>1, <1>2, <1>3, <1>4

\* What a thread's own record must be.
ThreadOK(r) ==
    /\ r \in Thread
    /\ r.pc = "move" => r.i < r.img_num
    /\ r.img_num <= Cardinality(Names)
    /\ r.pc = "scan" => r.img_num = Cardinality(r.seen)

LEMMA ThreadChanges ==
    ASSUME TypeOK, BatchSize, NEW t \in Threads, NEW r, ThreadOK(r),
           thread' = [thread EXCEPT ![t] = r]
    PROVE  /\ thread' \in [Threads -> Thread]
           /\ \A u \in Threads : thread'[u].pc = "move" => thread'[u].i < thread'[u].img_num
           /\ BatchSize'
<1>1. thread \in [Threads -> Thread]
  BY DEF TypeOK, Thread
<1>2. thread' \in [Threads -> Thread]
  BY <1>1 DEF ThreadOK
<1>3. \A u \in Threads : thread'[u] = r \/ thread'[u] = thread[u]
  BY <1>1
<1>. QED  BY <1>2, <1>3 DEF ThreadOK, TypeOK, BatchSize

\* A thread goes on, or ends its batch, with a record that is in order.
LEMMA ThreadMoves ==
    ASSUME TypeOK, BatchSize, NEW t \in Threads, ThreadStep(t), ~OpenDirFails(t)
    PROVE  \E r \in Thread : ThreadOK(r) /\ thread' = [thread EXCEPT ![t] = r]
<1>1. /\ thread[t] \in Thread /\ thread \in [Threads -> Thread]
      /\ Cardinality(Names) \in Nat /\ IsFiniteSet(Names)
      /\ DOMAIN home \subseteq Names
  BY InTables, ConfigAssumption DEF TypeOK, Thread, UploadTypeOK
<1>2. ThreadOK(Idle)
  BY <1>1 DEF ThreadOK, Idle, Thread
<1>3. CASE OpenDir(t)
  <2> DEFINE r == [Idle EXCEPT !.pc = "scan", !.left = DOMAIN home]
  <2>1. r \in Thread /\ r.img_num = 0 /\ r.seen = {} /\ r.pc = "scan"
    BY <1>1 DEF Idle, Thread
  <2>2. ThreadOK(r)
    <3> HIDE DEF r
    <3>. QED  BY <1>1, <2>1, FS_EmptySet DEF ThreadOK
  <2>. QED  BY <1>3, <2>1, <2>2 DEF OpenDir
<1>4. CASE ReadDir(t)
  <2>1. PICK n \in Names \ thread[t].seen :
           thread' = [thread EXCEPT ![t].img_num = thread[t].img_num + 1, ![t].seen = @ \cup {n}]
    BY <1>1, <1>4 DEF ReadDir, Thread
  <2> DEFINE r == [thread[t] EXCEPT !.img_num = thread[t].img_num + 1, !.seen = @ \cup {n}]
  <2>2. thread' = [thread EXCEPT ![t] = r]
    BY <1>1, <2>1
  <2>3. /\ r \in Thread /\ r.img_num = thread[t].img_num + 1
        /\ r.seen = thread[t].seen \cup {n} /\ r.pc = "scan"
    BY <1>1, <1>4 DEF ReadDir, Thread
  <2>4. r.img_num <= Cardinality(Names) /\ r.img_num = Cardinality(r.seen)
    <3>1. /\ thread[t].img_num < Cardinality(Names)
          /\ Cardinality(thread[t].seen \cup {n}) = thread[t].img_num + 1
      BY <1>4, <2>1, InTables DEF ReadDir
    <3>2. thread[t].img_num \in Nat
      BY <1>1 DEF Thread
    <3> HIDE DEF r
    <3>. QED  BY <1>1, <2>3, <3>1, <3>2
  <2> HIDE DEF r
  <2>. QED  BY <2>2, <2>3, <2>4 DEF ThreadOK
<1>5. CASE CloseDir(t)
  <2> DEFINE k == thread[t].img_num
             r == IF k < MinFiles THEN Idle ELSE BatchOf(k)
  <2>1. thread' = [thread EXCEPT ![t] = r]
    BY <1>5 DEF CloseDir
  <2>2. k \in Nat /\ k <= Cardinality(Names) /\ MinFiles \in Nat \ {0}
    BY <1>1, ConfigAssumption DEF BatchSize, Thread
  <2> HIDE DEF k
  <2>3. CASE ~(k < MinFiles)
    <3>1. BatchOf(k) \in Thread /\ BatchOf(k).i = 0 /\ BatchOf(k).img_num = k /\ BatchOf(k).pc = "move"
      BY <2>2 DEF BatchOf, Idle, Thread
    <3>2. ThreadOK(BatchOf(k))
      BY <2>2, <2>3, <3>1 DEF ThreadOK
    <3>. QED  BY <2>1, <2>3, <3>1, <3>2
  <2>. QED  BY <1>2, <2>1, <2>3 DEF ThreadOK
<1>6. ASSUME thread[t].pc = "move", Advance(t)
      PROVE  \E r \in Thread : ThreadOK(r) /\ thread' = [thread EXCEPT ![t] = r]
  <2> DEFINE next == [thread[t] EXCEPT !.i = @ + 1]
             r == IF thread[t].i + 1 = thread[t].img_num THEN Idle ELSE next
  <2>1. thread' = [thread EXCEPT ![t] = r]
    BY <1>1, <1>6 DEF Advance
  <2>2. next \in Thread /\ next.pc = "move" /\ next.i = thread[t].i + 1 /\ next.img_num = thread[t].img_num
    BY <1>1, <1>6 DEF Thread
  <2>3. thread[t].i < thread[t].img_num /\ thread[t].img_num <= Cardinality(Names)
    BY <1>6 DEF TypeOK, BatchSize
  <2>4. thread[t].i \in Nat /\ thread[t].img_num \in Nat
    BY <1>1 DEF Thread
  <2>5. CASE thread[t].i + 1 # thread[t].img_num
    <3> HIDE DEF next
    <3>1. ThreadOK(next)
      BY <2>2, <2>3, <2>4, <2>5 DEF ThreadOK
    <3>. QED  BY <2>1, <2>2, <2>5, <3>1
  <2>. QED  BY <1>2, <2>1, <2>5 DEF ThreadOK
<1>7. CASE Move(t) \/ MoveFails(t)
  BY <1>6, <1>7 DEF Move, MoveFails
<1>8. CASE SystemFails(t)
  BY <1>2, <1>8 DEF SystemFails, ThreadOK
<1>. QED  BY <1>3, <1>4, <1>5, <1>7, <1>8 DEF ThreadStep

(***************************************************************************)
(* No file has two paths: what a move puts at a path of /home/config has   *)
(* left /home.                                                             *)
(***************************************************************************)
OnePath ==
    /\ IsInjective(home) /\ IsInjective(config)
    /\ Range(home) \cap Range(config) = {}

FilesInv == TypeOK /\ BatchSize /\ OnePath

\* A name goes from /home, and its file to a path of /home/config; the rest stays.
LEMMA MoveEffect ==
    ASSUME TypeOK, BatchSize, NEW t \in Threads, Move(t)
    PROVE  LET path == aasave_path[thread[t].i] IN
           /\ thread[t].i \in Indices /\ path \in Seq(Chars) /\ path # <<>>
           /\ \E n \in DOMAIN home :
                 /\ DOMAIN home' = DOMAIN home \ {n}
                 /\ \A m \in DOMAIN home' : home'[m] = home[m]
                 /\ DOMAIN config' = DOMAIN config \cup {path}
                 /\ config'[path] = home[n]
                 /\ \A p \in DOMAIN config : p # path => config'[p] = config[p]
<1> DEFINE path == aasave_path[thread[t].i]
<1>1. thread[t].i \in Indices
  BY InTables DEF Move
<1>2. path \in Seq(Chars) /\ path # <<>>
  BY <1>1 DEF Move, TypeOK
<1>3. PICK n \in DOMAIN home : Rename(n, path)
  BY DEF Move
<1>. QED  BY <1>1, <1>2, <1>3 DEF Rename, Restrict, PathsAfter

LEMMA MoveKeepsOnePath ==
    ASSUME FilesInv, NEW t \in Threads, Move(t)
    PROVE  /\ OnePath'
           /\ Range(home') \subseteq Range(home)
           /\ Range(config') \subseteq Range(home) \cup Range(config)
           /\ DOMAIN home' \subseteq DOMAIN home
           /\ DOMAIN config' \subseteq Seq(Chars)
<1> DEFINE path == aasave_path[thread[t].i]
<1>1. path \in Seq(Chars) /\ DOMAIN config \subseteq Seq(Chars)
  BY MoveEffect DEF FilesInv, TypeOK
<1>2. PICK n \in DOMAIN home :
        /\ DOMAIN home' = DOMAIN home \ {n}
        /\ \A m \in DOMAIN home' : home'[m] = home[m]
        /\ DOMAIN config' = DOMAIN config \cup {path}
        /\ config'[path] = home[n]
        /\ \A p \in DOMAIN config : p # path => config'[p] = config[p]
  BY MoveEffect DEF FilesInv
<1> HIDE DEF path
<1>3. /\ \A a, b \in DOMAIN home : home[a] = home[b] => a = b
      /\ \A a, b \in DOMAIN config : config[a] = config[b] => a = b
      /\ \A a \in DOMAIN home, b \in DOMAIN config : home[a] # config[b]
  BY DEF FilesInv, OnePath, IsInjective, Range
<1>4. IsInjective(home') /\ IsInjective(config')
  BY <1>2, <1>3 DEF IsInjective
<1>5. \A a \in DOMAIN home', b \in DOMAIN config' : home'[a] # config'[b]
  BY <1>2, <1>3
<1>. QED  BY <1>1, <1>2, <1>4, <1>5 DEF OnePath, Range

LEMMA UploadKeepsOnePath ==
    ASSUME FilesInv, NEW u \in Uploads, UploadStep(u), config' = config
    PROVE  OnePath' /\ Range(home) \subseteq Range(home')
<1>1. CASE OpenFile(u)
  <2>1. PICK n \in Names, i \in DOMAIN inodes' :
           /\ Linked(n, i)
           /\ (n \in DOMAIN home /\ i = home[n]) \/ (n \notin DOMAIN home /\ i \notin DOMAIN inodes)
    BY <1>1, OpenEffect DEF FilesInv, TypeOK
  <2>2. Range(home) \subseteq DOMAIN inodes /\ Range(config) \subseteq DOMAIN inodes
    BY DEF FilesInv, TypeOK, UploadTypeOK
  <2>3. CASE n \in DOMAIN home /\ i = home[n]
    <3>1. DOMAIN home' = DOMAIN home /\ \A m \in DOMAIN home : home'[m] = home[m]
      BY <2>1, <2>3 DEF Linked
    <3>. QED  BY <3>1 DEF FilesInv, OnePath, IsInjective, Range
  <2>4. CASE n \notin DOMAIN home /\ i \notin DOMAIN inodes
    <3>1. /\ DOMAIN home' = DOMAIN home \cup {n} /\ home'[n] = i
          /\ \A m \in DOMAIN home : home'[m] = home[m]
      BY <2>1, <2>4 DEF Linked
    <3>. QED  BY <2>2, <2>4, <3>1 DEF FilesInv, OnePath, IsInjective, Range
  <2>. QED  BY <2>1, <2>3, <2>4
<1>2. CASE WriteBlock(u) \/ WriteFails(u) \/ CloseFile(u)
  BY <1>2 DEF WriteBlock, WriteFails, CloseFile, FilesInv, OnePath
<1>. QED  BY <1>1, <1>2 DEF UploadStep

\* The buffer begins with the name that is copied into it.
Begins(n, path) == Len(n) <= Len(path) /\ \A k \in 1 .. Len(n) : path[k] = n[k]

LEMMA CopyNameType ==
    ASSUME NEW buffer \in Seq(Chars), NEW n \in Names
    PROVE  CopyName(buffer, n) \in Seq(Chars) /\ Begins(n, CopyName(buffer, n))
<1> DEFINE rest == SubSeq(buffer, Len(n) + 1, Len(buffer))
<1>1. n \in Seq(Chars) /\ Len(n) \in Nat
  BY ConfigAssumption
<1>2. rest \in Seq(Chars)
  <2>1. Len(buffer) \in Int /\ Len(n) + 1 \in Int
        /\ \A i \in Len(n) + 1 .. Len(buffer) : buffer[i] \in Chars
    BY <1>1
  <2>. QED  BY <2>1, SubSeqProperties
<1>3. CopyName(buffer, n) = n \o rest
  BY DEF CopyName
<1> HIDE DEF rest
<1>4. /\ n \o rest \in Seq(Chars) /\ Len(n \o rest) = Len(n) + Len(rest) /\ Len(rest) \in Nat
      /\ \A k \in 1 .. Len(n) : (n \o rest)[k] = n[k]
  <2>1. \A k \in 1 .. Len(n) + Len(rest) :
           (n \o rest)[k] = IF k <= Len(n) THEN n[k] ELSE rest[k - Len(n)]
    BY <1>1, <1>2, ConcatProperties
  <2>2. Len(rest) \in Nat /\ \A k \in 1 .. Len(n) : k \in 1 .. Len(n) + Len(rest) /\ k <= Len(n)
    BY <1>1, <1>2
  <2>. QED  BY <1>1, <1>2, <2>1, <2>2, ConcatProperties
<1>. QED  BY <1>1, <1>3, <1>4 DEF Begins

\* Two names that one path begins with: one of them begins with the other.
LEMMA BothBegin ==
    ASSUME NEW m \in Names, NEW n \in Names, NEW path, Begins(m, path), Begins(n, path)
    PROVE  IsPrefix(m, n) \/ IsPrefix(n, m)
<1>1. m \in Seq(Chars) /\ n \in Seq(Chars) /\ Len(m) \in Nat /\ Len(n) \in Nat
  BY ConfigAssumption
<1>2. ASSUME NEW x \in Seq(Chars), NEW y \in Seq(Chars), Begins(x, path), Begins(y, path),
             Len(x) <= Len(y)
      PROVE  IsPrefix(x, y)
  <2>1. Len(x) \in Nat /\ Len(y) \in Nat
    BY <1>2
  <2>2. \A k \in 1 .. Len(x) : k \in 1 .. Len(y) /\ x[k] \in Chars /\ x[k] = y[k]
    BY <1>2, <2>1 DEF Begins
  <2> DEFINE a == SubSeq(x, 1, Len(x))
             b == SubSeq(y, 1, Len(x))
  <2>3. \A k \in 1 .. Len(x) : y[k] \in Chars
    BY <2>2
  <2>4. a \in Seq(Chars) /\ Len(a) = Len(x) /\ \A k \in 1 .. Len(x) : a[k] = x[k]
    <3>1. /\ a \in Seq(Chars) /\ Len(a) = IF 1 <= Len(x) THEN Len(x) - 1 + 1 ELSE 0
          /\ \A k \in 1 .. Len(x) - 1 + 1 : a[k] = x[1 + k - 1]
      BY <2>1, <2>2, SubSeqProperties
    <3> HIDE DEF a
    <3>. QED  BY <2>1, <3>1
  <2>5. b \in Seq(Chars) /\ Len(b) = Len(x) /\ \A k \in 1 .. Len(x) : b[k] = y[k]
    <3>1. /\ b \in Seq(Chars) /\ Len(b) = IF 1 <= Len(x) THEN Len(x) - 1 + 1 ELSE 0
          /\ \A k \in 1 .. Len(x) - 1 + 1 : b[k] = y[1 + k - 1]
      BY <2>1, <2>3, SubSeqProperties
    <3> HIDE DEF b
    <3>. QED  BY <2>1, <3>1
  <2> HIDE DEF a, b
  <2>6. a = b
    BY <2>2, <2>4, <2>5, SeqEqual
  <2>. QED  BY <1>2, <2>6 DEF IsPrefix, a, b
<1>3. Len(m) <= Len(n) \/ Len(n) <= Len(m)
  BY <1>1
<1>. QED  BY <1>1, <1>2, <1>3

\* A name is entered in the tables; entry 0 of the paths is none of them.
LEMMA ReadEffect ==
    ASSUME TypeOK, BatchSize, NEW t \in Threads, ReadDir(t)
    PROVE  LET k == thread[t].img_num IN
           \E n \in Names \ thread[t].seen :
              /\ k + 1 \in Indices /\ k \in Nat
              /\ img_path' \in [Indices -> SUBSET Names]
              /\ aasave_path' \in [Indices -> Seq(Chars)]
              /\ Begins(n, aasave_path'[k + 1])
              /\ \A j \in Indices : j # k + 1 => aasave_path'[j] = aasave_path[j]
              /\ img_path' = [img_path EXCEPT ![k] = {n}] /\ k \in Indices
              /\ thread' = [thread EXCEPT ![t].img_num = k + 1, ![t].seen = @ \cup {n}]
              /\ found' = found \cup {n}
<1> DEFINE k == thread[t].img_num
<1>1. PICK n \in (thread[t].left \cup DOMAIN home) \ thread[t].seen :
          /\ img_path' = [img_path EXCEPT ![k] = {n}]
          /\ aasave_path' = [aasave_path EXCEPT ![k + 1] = CopyName(aasave_path[k + 1], n)]
          /\ thread' = [thread EXCEPT ![t].img_num = k + 1, ![t].seen = @ \cup {n}]
          /\ found' = found \cup {n}
  BY DEF ReadDir
<1>2. thread[t] \in Thread /\ Cardinality(Names) \in Nat
  BY InTables
<1>3. n \in Names \ thread[t].seen /\ k \in Nat
  BY <1>1, <1>2 DEF Thread, TypeOK, UploadTypeOK
<1>4. k < Cardinality(Names)
  BY <1>3, InTables DEF ReadDir
<1>5. k + 1 \in Indices /\ k \in Indices
  BY <1>2, <1>3, <1>4 DEF Indices
<1>6. aasave_path \in [Indices -> Seq(Chars)] /\ img_path \in [Indices -> SUBSET Names]
  BY DEF TypeOK
<1> HIDE DEF k
<1>7. /\ CopyName(aasave_path[k + 1], n) \in Seq(Chars)
      /\ Begins(n, CopyName(aasave_path[k + 1], n))
  BY <1>3, <1>5, <1>6, CopyNameType
<1>8. img_path' \in [Indices -> SUBSET Names]
  BY <1>1, <1>3, <1>6
<1>9. /\ aasave_path' \in [Indices -> Seq(Chars)]
      /\ Begins(n, aasave_path'[k + 1])
      /\ \A j \in Indices : j # k + 1 => aasave_path'[j] = aasave_path[j]
  BY <1>1, <1>5, <1>6, <1>7
<1>. QED  BY <1>1, <1>3, <1>5, <1>8, <1>9 DEF k

LEMMA FilesStep ==
    ASSUME FilesInv, [Next]_vars
    PROVE  FilesInv'
<1>. USE DEF FilesInv
<1>1. ASSUME NEW t \in Threads, ThreadStep(t), ~OpenDirFails(t) PROVE FilesInv'
  <2>1. PICK r \in Thread : ThreadOK(r) /\ thread' = [thread EXCEPT ![t] = r]
    BY <1>1, ThreadMoves
  <2>2. /\ thread' \in [Threads -> Thread]
        /\ \A u \in Threads : thread'[u].pc = "move" => thread'[u].i < thread'[u].img_num
        /\ BatchSize'
    BY <2>1, ThreadChanges
  <2>3. inodes' = inodes /\ child' = child
    BY <1>1 DEF ThreadStep, OpenDir, ReadDir, CloseDir, Move, MoveFails, SystemFails, uploads
  <2>4. CASE OpenDir(t)
    <3>1. /\ batches' \in Nat /\ overlapped' \in BOOLEAN
          /\ kept' \subseteq DOMAIN inodes' /\ found' \subseteq Names
      BY <2>3, <2>4 DEF OpenDir, TypeOK, UploadTypeOK
    <3>. QED  BY <2>2, <2>4, <3>1 DEF OpenDir, TypeOK, UploadTypeOK, Blocks, Thread, OnePath, uploads, tables
  <2>5. CASE ReadDir(t)
    <3>1. img_path' \in [Indices -> SUBSET Names] /\ aasave_path' \in [Indices -> Seq(Chars)]
      BY <2>5, ReadEffect
    <3>. QED  BY <2>2, <2>5, <3>1 DEF ReadDir, TypeOK, UploadTypeOK, Blocks, Thread, OnePath, uploads, history
  <2>6. CASE CloseDir(t) \/ MoveFails(t) \/ SystemFails(t)
    BY <2>2, <2>6 DEF CloseDir, MoveFails, SystemFails, TypeOK, UploadTypeOK, Blocks, Thread, OnePath, uploads, tables, history
  <2>7. CASE Move(t)
    <3>1. /\ OnePath' /\ DOMAIN home' \subseteq Names /\ Range(home') \subseteq DOMAIN inodes'
          /\ Range(config') \subseteq DOMAIN inodes' /\ DOMAIN config' \subseteq Seq(Chars)
      BY <2>3, <2>7, MoveKeepsOnePath DEF TypeOK, UploadTypeOK
    <3>. QED  BY <2>2, <2>3, <2>7, <3>1 DEF Move, TypeOK, UploadTypeOK, Blocks, Thread, tables, history
  <2>. QED  BY <1>1, <2>4, <2>5, <2>6, <2>7 DEF ThreadStep
<1>2. CASE StartsAgain
  <2>1. ThreadOK(Idle) /\ Cardinality(Names) \in Nat
    BY ConfigAssumption, FS_CardinalityType DEF ThreadOK, Idle, Thread
  <2>2. AllIdle \in [Threads -> Thread] /\ \A t \in Threads : AllIdle[t] = Idle
    BY <2>1 DEF AllIdle, ThreadOK
  <2>3. NoNames \in [Indices -> SUBSET Names] /\ NoPaths \in [Indices -> Seq(Chars)]
    BY EmptySeq DEF NoNames, NoPaths
  <2>4. BatchSize' /\ \A t \in Threads : thread'[t].pc # "move"
    BY <1>2, <2>1, <2>2 DEF StartsAgain, BatchSize, ThreadOK, Idle
  <2>. QED  BY <1>2, <2>2, <2>3, <2>4 DEF StartsAgain, TypeOK, UploadTypeOK, Blocks, Thread, OnePath, uploads, history
<1>3. ASSUME NEW u \in Uploads, UploadStep(u), UNCHANGED <<config, tables, thread, history>>
      PROVE  FilesInv'
  <2>1. UploadTypeOK' /\ OnePath' /\ DOMAIN inodes \subseteq DOMAIN inodes'
    BY <1>3, UploadType, UploadKeepsOnePath, UploadGrows DEF TypeOK, Grown
  <2>. QED  BY <1>3, <2>1 DEF TypeOK, BatchSize, tables, history
<1>4. CASE UNCHANGED vars
  BY <1>4 DEF vars, uploads, tables, history, TypeOK, UploadTypeOK, Blocks, BatchSize, OnePath
<1>. QED  BY <1>1, <1>2, <1>3, <1>4 DEF Next, OpenDirFails, DaemonRestarts

LEMMA FilesInit ==
    ASSUME Init
    PROVE  FilesInv
<1>1. /\ DOMAIN home = Present /\ Range(home) \subseteq DOMAIN inodes
      /\ IsInjective(home) /\ inodes \in Seq(Inode)
  BY FirstFiles DEF Init
<1>2. child \in [Uploads -> Child] /\ \A u \in Uploads : child[u].pc = "headers"
  BY UploadAssumption DEF Init, UploadInit, NoFile, Child
<1>3. UploadTypeOK
  BY <1>1, <1>2, UploadAssumption DEF UploadTypeOK
<1>4. ThreadOK(Idle) /\ Cardinality(Names) \in Nat
  BY ConfigAssumption, FS_CardinalityType DEF ThreadOK, Idle, Thread
<1>5. thread \in [Threads -> Thread] /\ BatchSize /\ \A t \in Threads : thread[t].pc # "move"
  BY <1>4 DEF Init, AllIdle, ThreadOK, BatchSize, Idle
<1>6. img_path \in [Indices -> SUBSET Names] /\ aasave_path \in [Indices -> Seq(Chars)]
  BY EmptySeq DEF Init, NoNames, NoPaths
<1>7. DOMAIN config = {} /\ Range(config) = {} /\ IsInjective(config)
  BY DEF Init, Range, IsInjective
<1>8. /\ batches \in Nat /\ overlapped \in BOOLEAN
      /\ kept \subseteq DOMAIN inodes /\ found \subseteq Names
  BY DEF Init
<1>. QED  BY <1>1, <1>3, <1>5, <1>6, <1>7, <1>8 DEF FilesInv, TypeOK, OnePath, Thread

\* Every variable has its type: a batch stays within the tables, and a child's
\* offset within its file.
THEOREM TypeCorrect == Spec => []TypeOK
<1>1. Init => FilesInv
  BY FilesInit
<1>2. FilesInv /\ [Next]_vars => FilesInv'
  BY FilesStep
<1>3. FilesInv => TypeOK
  BY DEF FilesInv
<1>. QED  BY <1>1, <1>2, <1>3, PTL DEF Spec

(***************************************************************************)
(* A batch of a thread that is alone loses no file.                        *)
(***************************************************************************)
\* No two threads work on the tables.
Alone ==
    \A t, u \in Threads : thread[t].pc # "idle" /\ thread[u].pc # "idle" => t = u

\* Each entry is of a name that has been read, and the path begins with it.
PathsOfFound(t) ==
    \A j \in 1 .. thread[t].img_num :
        \E n \in found : img_path[j - 1] = {n} /\ Begins(n, aasave_path[j])

SourcesDistinct(t) ==
    \A j, k \in 1 .. thread[t].img_num : j # k => img_path[j - 1] # img_path[k - 1]

\* Before the moves all are in /home; what has been moved is at a path that no
\* later move goes to.
BatchKeeps(t) ==
    /\ thread[t].pc # "idle" => PathsOfFound(t) /\ SourcesDistinct(t)
    /\ thread[t].pc = "scan" => kept \subseteq Range(home) /\ found \subseteq thread[t].seen
    /\ thread[t].pc = "move" /\ PrefixFree(found) =>
          \A p \in DOMAIN config : config[p] \in kept =>
             \E j \in 1 .. thread[t].i - 1 : p = aasave_path[j]

KeepInv ==
    /\ aasave_path[0] = <<>>
    /\ ~overlapped => Alone /\ NothingLost /\ \A t \in Threads : BatchKeeps(t)

LEMMA KeepOpenDir ==
    ASSUME FilesInv, KeepInv, NEW t \in Threads, OpenDir(t)
    PROVE  KeepInv'
<1>1. thread \in [Threads -> Thread]
  BY DEF FilesInv, TypeOK, Thread
<1>2. /\ thread'[t].pc = "scan" /\ thread'[t].img_num = 0
      /\ \A u \in Threads \ {t} : thread'[u] = thread[u]
  BY <1>1 DEF OpenDir, Idle, Thread
<1>3. aasave_path' = aasave_path /\ kept' = Range(home') /\ found' = {}
  BY DEF OpenDir, uploads, tables
<1>4. ASSUME ~overlapped' PROVE \A u \in Threads \ {t} : thread'[u].pc = "idle"
  BY <1>2, <1>4 DEF OpenDir
<1>5. BatchKeeps(t)'
  BY <1>2, <1>3 DEF BatchKeeps, PathsOfFound, SourcesDistinct
<1>6. ~overlapped' => Alone' /\ \A u \in Threads : BatchKeeps(u)'
  BY <1>4, <1>5 DEF Alone, BatchKeeps
<1>7. NothingLost'
  BY <1>3 DEF NothingLost
<1>8. aasave_path'[0] = <<>>
  BY <1>3 DEF KeepInv
<1>. QED  BY <1>6, <1>7, <1>8 DEF KeepInv

\* A step of one thread, which is the only one at work, keeps what it kept.
LEMMA KeepOther ==
    ASSUME FilesInv, KeepInv, NEW t \in Threads, NEW r \in Thread,
           thread[t].pc # "idle", thread' = [thread EXCEPT ![t] = r],
           overlapped' = overlapped, NothingLost',
           aasave_path'[0] = <<>>, ~overlapped => BatchKeeps(t)'
    PROVE  KeepInv'
<1>1. thread \in [Threads -> Thread]
  BY DEF FilesInv, TypeOK, Thread
<1>2. \A u \in Threads \ {t} : thread'[u] = thread[u]
  BY <1>1
<1>3. ASSUME ~overlapped PROVE Alone' /\ \A u \in Threads : BatchKeeps(u)'
  <2>1. \A u \in Threads \ {t} : thread'[u].pc = "idle"
    BY <1>2, <1>3 DEF KeepInv, Alone
  <2>2. Alone'
    BY <2>1 DEF Alone
  <2>3. \A u \in Threads \ {t} : BatchKeeps(u)'
    BY <2>1 DEF BatchKeeps
  <2>. QED  BY <1>3, <2>2, <2>3
<1>. QED  BY <1>3 DEF KeepInv

LEMMA KeepReadDir ==
    ASSUME FilesInv, KeepInv, NEW t \in Threads, ReadDir(t)
    PROVE  KeepInv'
<1> DEFINE k == thread[t].img_num
<1>1. PICK n \in Names \ thread[t].seen :
         /\ k + 1 \in Indices /\ k \in Indices /\ k \in Nat
         /\ Begins(n, aasave_path'[k + 1])
         /\ \A j \in Indices : j # k + 1 => aasave_path'[j] = aasave_path[j]
         /\ img_path' = [img_path EXCEPT ![k] = {n}]
         /\ thread' = [thread EXCEPT ![t].img_num = k + 1, ![t].seen = @ \cup {n}]
         /\ found' = found \cup {n}
  BY ReadEffect DEF FilesInv
<1>2. /\ thread[t].pc = "scan" /\ home' = home /\ config' = config
      /\ overlapped' = overlapped /\ kept' = kept
      /\ Cardinality(Names) \in Nat
  BY InTables DEF ReadDir, uploads, FilesInv
<1>3. PICK r \in Thread : thread' = [thread EXCEPT ![t] = r]
  BY <1>2, ThreadMoves DEF FilesInv, ThreadStep, OpenDirFails
<1>4. thread \in [Threads -> Thread] /\ img_path \in [Indices -> SUBSET Names]
  BY DEF FilesInv, TypeOK, Thread
<1>5. /\ thread'[t].img_num = k + 1 /\ thread'[t].seen = thread[t].seen \cup {n}
      /\ thread'[t].pc = "scan"
  BY <1>1, <1>2, <1>4 DEF Thread
<1> HIDE DEF k
<1>6. /\ aasave_path'[0] = <<>> /\ img_path'[k] = {n}
      /\ \A j \in 1 .. k : aasave_path'[j] = aasave_path[j] /\ img_path'[j - 1] = img_path[j - 1]
  BY <1>1, <1>2, <1>4 DEF KeepInv, Indices
<1>7. ASSUME ~overlapped PROVE BatchKeeps(t)'
  <2>1. /\ kept \subseteq Range(home) /\ found \subseteq thread[t].seen
        /\ \A j \in 1 .. k : \E m \in found : img_path[j - 1] = {m} /\ Begins(m, aasave_path[j])
        /\ \A i, j \in 1 .. k : i # j => img_path[i - 1] # img_path[j - 1]
    BY <1>2, <1>7 DEF KeepInv, BatchKeeps, PathsOfFound, SourcesDistinct, k
  <2>2. \A j \in 1 .. k + 1 : j = k + 1 \/ j \in 1 .. k
    BY <1>1
  <2>3. k + 1 - 1 = k
    BY <1>1
  <2>4. ASSUME NEW j \in 1 .. k
        PROVE  \E m \in found : img_path'[j - 1] = {m} /\ Begins(m, aasave_path'[j])
    BY <1>6, <2>1
  <2>5. PathsOfFound(t)'
    <3>1. ASSUME NEW j \in 1 .. k + 1
          PROVE  \E m \in found' : img_path'[j - 1] = {m} /\ Begins(m, aasave_path'[j])
      <4>1. CASE j = k + 1
        BY <1>1, <1>6, <2>3, <4>1
      <4>2. CASE j \in 1 .. k
        BY <1>1, <2>4, <4>2
      <4>. QED  BY <2>2, <4>1, <4>2
    <3>. QED  BY <1>5, <3>1 DEF PathsOfFound
  <2>6. \A j \in 1 .. k : img_path'[j - 1] # img_path'[k]
    BY <1>1, <1>6, <2>1, <2>4
  <2>7. SourcesDistinct(t)'
    <3>1. ASSUME NEW i \in 1 .. k + 1, NEW j \in 1 .. k + 1, i # j
          PROVE  img_path'[i - 1] # img_path'[j - 1]
      <4>1. CASE i = k + 1
        <5>1. i - 1 = k /\ j \in 1 .. k
          BY <1>1, <2>2, <3>1, <4>1
        <5>2. img_path'[j - 1] # img_path'[k]
          BY <2>6, <5>1
        <5>. QED  BY <5>1, <5>2
      <4>2. CASE j = k + 1
        <5>1. j - 1 = k /\ i \in 1 .. k
          BY <1>1, <2>2, <3>1, <4>2
        <5>2. img_path'[i - 1] # img_path'[k]
          BY <2>6, <5>1
        <5>. QED  BY <5>1, <5>2
      <4>3. CASE i \in 1 .. k /\ j \in 1 .. k
        BY <1>6, <2>1, <3>1, <4>3
      <4>. QED  BY <2>2, <4>1, <4>2, <4>3
    <3>. QED  BY <1>5, <3>1 DEF SourcesDistinct
  <2>. QED  BY <1>1, <1>2, <1>5, <2>1, <2>5, <2>7 DEF BatchKeeps
<1>8. NothingLost'
  <2>1. PrefixFree(found)' => PrefixFree(found)
    BY <1>1 DEF PrefixFree
  <2>. QED  BY <1>2, <2>1 DEF KeepInv, NothingLost
<1>. QED  BY <1>2, <1>3, <1>6, <1>7, <1>8, KeepOther

LEMMA TablesStay ==
    ASSUME NEW t \in Threads, PathsOfFound(t), SourcesDistinct(t), UNCHANGED <<tables, found>>,
           thread'[t].img_num = thread[t].img_num
    PROVE  PathsOfFound(t)' /\ SourcesDistinct(t)'
BY DEF PathsOfFound, SourcesDistinct, tables

LEMMA KeepCloseDir ==
    ASSUME FilesInv, KeepInv, NEW t \in Threads, CloseDir(t)
    PROVE  KeepInv'
<1>1. thread[t].pc = "scan" /\ UNCHANGED <<history, home, config, tables>>
  BY DEF CloseDir, uploads
<1>2. PICK r \in Thread : thread' = [thread EXCEPT ![t] = r]
  BY <1>1, ThreadMoves DEF FilesInv, ThreadStep, OpenDirFails
<1>3. thread \in [Threads -> Thread]
  BY DEF FilesInv, TypeOK, Thread
<1>4. \/ thread'[t].pc = "idle"
      \/ thread'[t].pc = "move" /\ thread'[t].img_num = thread[t].img_num /\ thread'[t].i = 0
  BY <1>3 DEF CloseDir, BatchOf, Idle
<1>5. ASSUME ~overlapped PROVE BatchKeeps(t)'
  <2>1. kept \subseteq Range(home) /\ PathsOfFound(t) /\ SourcesDistinct(t)
    BY <1>1, <1>5 DEF KeepInv, BatchKeeps
  <2>2. \A p \in DOMAIN config : config[p] \notin kept
    BY <2>1 DEF FilesInv, OnePath, Range
  <2>3. thread'[t].pc # "idle" => PathsOfFound(t)' /\ SourcesDistinct(t)'
    BY <1>1, <1>4, <2>1, TablesStay DEF history
  <2>. QED  BY <1>1, <1>4, <2>2, <2>3 DEF BatchKeeps, history, tables
<1>6. NothingLost' /\ aasave_path'[0] = <<>>
  BY <1>1 DEF KeepInv, NothingLost, history, tables
<1>. QED  BY <1>1, <1>2, <1>5, <1>6, KeepOther DEF history

\* The thread ends its batch, or goes on to the next file.
LEMMA AdvanceEffect ==
    ASSUME FilesInv, NEW t \in Threads, thread[t].pc = "move", Advance(t)
    PROVE  /\ thread[t].i \in Nat
           /\ \/ thread'[t].pc = "idle"
              \/ /\ thread'[t].pc = "move" /\ thread'[t].img_num = thread[t].img_num
                 /\ thread'[t].i = thread[t].i + 1
<1>1. thread \in [Threads -> Thread]
  BY DEF FilesInv, TypeOK, Thread
<1>. QED  BY <1>1 DEF Advance, Idle, Thread

LEMMA KeepMoveFails ==
    ASSUME FilesInv, KeepInv, NEW t \in Threads, MoveFails(t) \/ SystemFails(t)
    PROVE  KeepInv'
<1>1. thread[t].pc = "move" /\ UNCHANGED <<history, home, config, tables>>
  BY DEF MoveFails, SystemFails, uploads
<1>2. PICK r \in Thread : thread' = [thread EXCEPT ![t] = r]
  BY <1>1, ThreadMoves DEF FilesInv, ThreadStep, OpenDirFails
<1>3. thread \in [Threads -> Thread]
  BY DEF FilesInv, TypeOK, Thread
<1>4. /\ thread[t].i \in Nat
      /\ \/ thread'[t].pc = "idle"
         \/ /\ thread'[t].pc = "move" /\ thread'[t].img_num = thread[t].img_num
            /\ thread'[t].i = thread[t].i + 1
  <2>1. CASE MoveFails(t)
    BY <2>1, AdvanceEffect DEF MoveFails
  <2>2. CASE SystemFails(t)
    <3>1. thread'[t].pc = "idle" /\ thread[t] \in Thread
      BY <1>3, <2>2 DEF SystemFails, Idle
    <3>. QED  BY <3>1 DEF Thread
  <2>. QED  BY <2>1, <2>2
<1>5. ASSUME ~overlapped PROVE BatchKeeps(t)'
  <2>1. /\ PathsOfFound(t) /\ SourcesDistinct(t)
        /\ PrefixFree(found) => \A p \in DOMAIN config : config[p] \in kept =>
              \E j \in 1 .. thread[t].i - 1 : p = aasave_path[j]
    BY <1>1, <1>5 DEF KeepInv, BatchKeeps
  <2>2. 1 .. thread[t].i - 1 \subseteq 1 .. (thread[t].i + 1) - 1
    BY <1>4
  <2>3. thread'[t].pc # "idle" => PathsOfFound(t)' /\ SourcesDistinct(t)'
    BY <1>1, <1>4, <2>1, TablesStay DEF history
  <2>. QED  BY <1>1, <1>4, <2>1, <2>2, <2>3 DEF BatchKeeps, history, tables
<1>6. NothingLost' /\ aasave_path'[0] = <<>>
  BY <1>1 DEF KeepInv, NothingLost, history, tables
<1>. QED  BY <1>1, <1>2, <1>5, <1>6, KeepOther DEF history

\* What the move replaces was not there when the batch began: no earlier move
\* went to this path, as no name that was read begins with another.
LEMMA KeepMove ==
    ASSUME FilesInv, KeepInv, NEW t \in Threads, Move(t)
    PROVE  KeepInv'
<1> DEFINE i == thread[t].i
           path == aasave_path[i]
<1>1. thread[t].pc = "move" /\ UNCHANGED <<history, tables>> /\ Advance(t)
  BY DEF Move
<1>2. PICK r \in Thread : thread' = [thread EXCEPT ![t] = r]
  BY <1>1, ThreadMoves DEF FilesInv, ThreadStep, OpenDirFails
<1>3. /\ i \in Nat
      /\ \/ thread'[t].pc = "idle"
         \/ /\ thread'[t].pc = "move" /\ thread'[t].img_num = thread[t].img_num
            /\ thread'[t].i = i + 1
  BY <1>1, AdvanceEffect
<1>4. path # <<>> /\ i < thread[t].img_num /\ thread[t].img_num \in Nat
  <2>1. thread[t] \in Thread
    BY InTables DEF FilesInv
  <2>. QED  BY <1>1, <2>1, MoveEffect DEF FilesInv, TypeOK, Thread
<1>5. PICK n \in DOMAIN home :
        /\ DOMAIN home' = DOMAIN home \ {n}
        /\ \A m \in DOMAIN home' : home'[m] = home[m]
        /\ DOMAIN config' = DOMAIN config \cup {path}
        /\ config'[path] = home[n]
        /\ \A p \in DOMAIN config : p # path => config'[p] = config[p]
  BY MoveEffect DEF FilesInv
<1> HIDE DEF path
<1>6. i # 0
  BY <1>4 DEF KeepInv, path, i
<1>7. ASSUME ~overlapped
      PROVE  /\ PathsOfFound(t) /\ SourcesDistinct(t)
             /\ PrefixFree(found) =>
                   /\ \A p \in DOMAIN config : config[p] \in kept =>
                         \E j \in 1 .. i - 1 : p = aasave_path[j]
                   /\ kept \subseteq Range(home) \cup Range(config)
  BY <1>1, <1>7 DEF KeepInv, BatchKeeps, NothingLost
<1> HIDE DEF i
<1>8. ASSUME ~overlapped, PrefixFree(found), path \in DOMAIN config PROVE config[path] \notin kept
  <2>1. SUFFICES ASSUME NEW j \in 1 .. i - 1, path = aasave_path[j] PROVE FALSE
    BY <1>7, <1>8
  <2>2. i \in 1 .. thread[t].img_num /\ j \in 1 .. thread[t].img_num /\ i # j
    BY <1>3, <1>4, <1>6 DEF i
  <2>3. PICK m \in found : img_path[j - 1] = {m} /\ Begins(m, path)
    BY <1>7, <1>8, <2>1, <2>2 DEF PathsOfFound
  <2>4. PICK n2 \in found : img_path[i - 1] = {n2} /\ Begins(n2, path)
    BY <1>7, <1>8, <2>2 DEF PathsOfFound, path, i
  <2>5. m \in Names /\ n2 \in Names
    BY DEF FilesInv, TypeOK
  <2>6. m = n2
    BY <1>8, <2>3, <2>4, <2>5, BothBegin DEF PrefixFree
  <2>7. img_path[i - 1] # img_path[j - 1]
    BY <1>7, <1>8, <2>2 DEF SourcesDistinct
  <2>. QED  BY <2>3, <2>4, <2>6, <2>7
<1>9. NothingLost'
  <2>1. ASSUME ~overlapped, PrefixFree(found), NEW f \in kept
        PROVE  f \in Range(home') \cup Range(config')
    <3>1. CASE f \in Range(home)
      <4>1. PICK m \in DOMAIN home : f = home[m]
        BY <3>1 DEF Range
      <4>. QED  BY <1>5, <4>1 DEF Range
    <3>2. CASE f \in Range(config)
      <4>1. PICK p \in DOMAIN config : f = config[p]
        BY <3>2 DEF Range
      <4>2. p # path
        BY <1>8, <2>1, <4>1
      <4>. QED  BY <1>5, <4>1, <4>2 DEF Range
    <3>. QED  BY <1>7, <2>1, <3>1, <3>2
  <2>. QED  BY <1>1, <2>1 DEF NothingLost, history
<1>10. ASSUME ~overlapped PROVE BatchKeeps(t)'
  <2>1. ASSUME PrefixFree(found), NEW p \in DOMAIN config', config'[p] \in kept
        PROVE  \E j \in 1 .. i : p = aasave_path[j]
    <3>1. CASE p = path
      BY <1>3, <1>6, <3>1 DEF path, i
    <3>2. CASE p # path
      <4>1. p \in DOMAIN config /\ config[p] \in kept
        BY <1>5, <2>1, <3>2
      <4>2. PICK j \in 1 .. i - 1 : p = aasave_path[j]
        BY <1>7, <1>10, <2>1, <4>1
      <4>. QED  BY <1>3, <4>2 DEF i
    <3>. QED  BY <3>1, <3>2
  <2>2. thread'[t].pc = "move" => thread'[t].i - 1 = i /\ thread'[t].img_num = thread[t].img_num
    BY <1>3
  <2>3. thread'[t].pc \in {"idle", "move"}
    BY <1>3
  <2>4. thread'[t].pc # "idle" => PathsOfFound(t)' /\ SourcesDistinct(t)'
    BY <1>1, <1>7, <1>10, <2>2, <2>3, TablesStay DEF history
  <2>. QED  BY <1>1, <2>1, <2>2, <2>3, <2>4 DEF BatchKeeps, history, tables
<1>11. aasave_path'[0] = <<>>
  BY <1>1 DEF KeepInv, tables
<1>. QED  BY <1>1, <1>2, <1>9, <1>10, <1>11, KeepOther DEF history

LEMMA KeepStep ==
    ASSUME FilesInv, KeepInv, [Next]_vars
    PROVE  KeepInv'
<1>1. ASSUME NEW t \in Threads, ThreadStep(t), ~OpenDirFails(t) PROVE KeepInv'
  BY <1>1, KeepOpenDir, KeepReadDir, KeepCloseDir, KeepMove, KeepMoveFails DEF ThreadStep
<1>2. CASE StartsAgain
  <2>1. \A t \in Threads : thread'[t].pc = "idle"
    BY <1>2 DEF StartsAgain, AllIdle, Idle
  <2>2. Alone' /\ \A t \in Threads : BatchKeeps(t)'
    BY <2>1 DEF Alone, BatchKeeps
  <2>3. 0 \in Indices
    BY ConfigAssumption, FS_CardinalityType DEF Indices
  <2>4. aasave_path'[0] = <<>>
    BY <1>2, <2>3 DEF StartsAgain, NoPaths
  <2>5. overlapped' = overlapped /\ (~overlapped => NothingLost')
    BY <1>2 DEF StartsAgain, KeepInv, NothingLost, uploads, history
  <2>. QED  BY <2>2, <2>4, <2>5 DEF KeepInv
<1>3. ASSUME NEW u \in Uploads, UploadStep(u), UNCHANGED <<config, tables, thread, history>>
      PROVE  KeepInv'
  <2>1. Range(home) \subseteq Range(home')
    BY <1>3, UploadKeepsOnePath
  <2>. QED  BY <1>3, <2>1 DEF KeepInv, Alone, NothingLost, BatchKeeps, PathsOfFound, SourcesDistinct, tables, history
<1>4. CASE UNCHANGED vars
  BY <1>4 DEF KeepInv, Alone, NothingLost, BatchKeeps, PathsOfFound, SourcesDistinct, vars, uploads, tables, history
<1>. QED  BY <1>1, <1>2, <1>3, <1>4 DEF Next, OpenDirFails, DaemonRestarts

\* Unless two threads work on the tables at once, or a name that was read begins
\* with another, each file that was uploaded when a batch of checkconfigfile()
\* began is in one of the directories until another begins, wherever the batch
\* stops, whatever names are read, and whatever is uploaded meanwhile.
THEOREM BatchLosesNothing == Spec => []NothingLost
<1>1. Init => KeepInv
  <2>1. ASSUME Init PROVE 0 \in Indices
    BY ConfigAssumption, FS_CardinalityType DEF Indices
  <2>2. ASSUME Init PROVE \A t \in Threads : thread[t].pc = "idle"
    BY <2>2 DEF Init, AllIdle, Idle
  <2>. QED  BY <2>1, <2>2 DEF Init, NoPaths, KeepInv, Alone, BatchKeeps, NothingLost
<1>2. KeepInv => NothingLost
  BY DEF KeepInv, NothingLost
<1>3. FilesInv /\ KeepInv /\ [Next]_vars => FilesInv' /\ KeepInv'
  BY FilesStep, KeepStep
<1>4. Init => FilesInv
  BY FilesInit
<1>. QED  BY <1>1, <1>2, <1>3, <1>4, PTL DEF Spec

(***************************************************************************)
(* A completed upload is there.                                            *)
(***************************************************************************)
\* Each block is one that a child of this inode has written, as read_line() returned
\* it, and at its place unless a write of that child has failed.
Genuine(j, k) ==
    LET b == inodes[j].blocks[k] IN
    /\ child[b.by].pc # "headers" /\ child[b.by].inode = j
    /\ b.at = k \/ child[b.by].short
    /\ b.end = "lf"

BlocksGenuine == \A j \in DOMAIN inodes : \A k \in 1 .. Len(inodes[j].blocks) : Genuine(j, k)

\* A child without a failed write is where it has read to, and no upload that
\* was complete before has a block in what it has written.
Written(u) ==
    child[u].pc # "headers" /\ ~child[u].short =>
        /\ child[u].off = child[u].read
        /\ \A k \in 1 .. child[u].off : Blocks(u)[k].by \notin child[u].before

Completed(u) ==
    /\ child[u].pc = "done" => child[u].read = child[u].total
    /\ child[u].pc # "done" => \A v \in Uploads : u \notin child[v].before
    /\ u \notin child[u].before

StoredInv == BlocksGenuine /\ \A u \in Uploads : Written(u) /\ Completed(u)

LEMMA StoredImplied ==
    ASSUME UploadTypeOK, StoredInv
    PROVE  UploadStored
<1>1. SUFFICES ASSUME NEW u \in Uploads, child[u].pc = "done", ~child[u].short,
                      NEW k \in 1 .. child[u].total
               PROVE  LET b == Blocks(u)[k] IN
                      \/ b = [by |-> u, at |-> k, end |-> "lf"]
                      \/ b.by \notin child[u].before \cup {u}
                         /\ child[b.by].inode = child[u].inode /\ (b.at = k \/ child[b.by].short)
  BY DEF UploadStored
<1> DEFINE b == Blocks(u)[k]
           j == child[u].inode
<1>2. j \in DOMAIN inodes /\ child[u].off <= Len(Blocks(u)) /\ child[u].off \in Nat
  BY <1>1 DEF UploadTypeOK, Child
<1>3. Blocks(u) \in Seq(Block) /\ Blocks(u) = inodes[j].blocks
  BY <1>2, BlocksType DEF Blocks
<1>4. child[u].off = child[u].total /\ b.by \notin child[u].before
  BY <1>1 DEF StoredInv, Written, Completed
<1>5. k \in 1 .. Len(inodes[j].blocks) /\ b \in Block
  BY <1>1, <1>2, <1>3, <1>4
<1>6. child[b.by].inode = j /\ (b.at = k \/ child[b.by].short) /\ b.end = "lf"
  BY <1>2, <1>3, <1>5 DEF StoredInv, BlocksGenuine, Genuine
<1>7. CASE b.by = u
  BY <1>1, <1>5, <1>6, <1>7 DEF Block
<1>8. CASE b.by # u
  BY <1>4, <1>6, <1>8
<1>. QED  BY <1>7, <1>8

LEMMA StoredOpen ==
    ASSUME UploadTypeOK, StoredInv, NEW u \in Uploads, OpenFile(u)
    PROVE  StoredInv'
<1>1. child \in [Uploads -> Child] /\ child[u].pc = "headers"
  BY DEF UploadTypeOK, OpenFile
<1>2. PICK i \in DOMAIN inodes' :
        /\ \/ inodes' = inodes
           \/ i \notin DOMAIN inodes /\ DOMAIN inodes' = DOMAIN inodes \cup {i} /\ inodes'[i].blocks = <<>>
        /\ \A j \in DOMAIN inodes : inodes'[j] = inodes[j]
        /\ \E k \in 1 .. MaxBlocks : child' = [child EXCEPT ![u] =
                    [NoFile EXCEPT !.pc = "writing", !.inode = i, !.total = k,
                                   !.before = {v \in Uploads : child[v].pc = "done"}]]
  BY OpenEffect
<1>3. /\ child'[u].pc = "writing" /\ child'[u].off = 0 /\ child'[u].read = 0
      /\ child'[u].before = {v \in Uploads : child[v].pc = "done"}
      /\ \A v \in Uploads \ {u} : child'[v] = child[v]
  BY <1>1, <1>2 DEF NoFile
<1>4. BlocksGenuine'
  <2>1. ASSUME NEW j \in DOMAIN inodes, NEW k \in 1 .. Len(inodes[j].blocks)
        PROVE  Genuine(j, k)'
    <3>1. inodes[j].blocks[k] \in Block
      BY <2>1, BlocksType
    <3>2. Genuine(j, k) /\ inodes[j].blocks[k].by \in Uploads
      BY <2>1, <3>1 DEF StoredInv, BlocksGenuine, Block
    <3>3. inodes[j].blocks[k].by # u
      BY <1>1, <3>2 DEF Genuine
    <3>. QED  BY <1>2, <1>3, <3>2, <3>3 DEF Genuine
  <2>2. ASSUME NEW j \in DOMAIN inodes', NEW k \in 1 .. Len(inodes'[j].blocks)
        PROVE  j \in DOMAIN inodes /\ inodes'[j] = inodes[j]
    <3>1. CASE j \in DOMAIN inodes
      BY <1>2, <3>1
    <3>2. CASE j \notin DOMAIN inodes
      <4>1. inodes'[j].blocks = <<>>
        BY <1>2, <3>2
      <4>2. Len(inodes'[j].blocks) = 0
        BY <4>1, EmptySeq
      <4>. QED  BY <2>2, <4>2
    <3>. QED  BY <3>1, <3>2
  <2>. QED  BY <2>1, <2>2 DEF BlocksGenuine
<1>5. \A v \in Uploads : Written(v)'
  <2>1. Written(u)'
    BY <1>3 DEF Written
  <2>2. ASSUME NEW v \in Uploads \ {u} PROVE Written(v)'
    <3>1. child'[v] = child[v] /\ Written(v)
      BY <1>3, <2>2 DEF StoredInv
    <3>2. child[v].pc # "headers" => Blocks(v)' = Blocks(v)
      BY <1>2, <3>1 DEF UploadTypeOK, Blocks
    <3>. QED  BY <3>1, <3>2 DEF Written
  <2>. QED  BY <2>1, <2>2
<1>6. \A v \in Uploads : Completed(v)'
  BY <1>1, <1>3 DEF StoredInv, Completed
<1>. QED  BY <1>4, <1>5, <1>6 DEF StoredInv

LEMMA StoredWrite ==
    ASSUME UploadTypeOK, StoredInv, NEW u \in Uploads, WriteBlock(u)
    PROVE  StoredInv'
<1> DEFINE i == child[u].inode
           o == child[u].off + 1
<1>1. child \in [Uploads -> Child] /\ child[u].pc = "writing"
  BY DEF UploadTypeOK, WriteBlock, Reads
<1>2. /\ DOMAIN inodes' = DOMAIN inodes /\ i \in DOMAIN inodes
      /\ \A j \in DOMAIN inodes : j # i => inodes'[j] = inodes[j]
      /\ o \in 1 .. Len(inodes[i].blocks) + 1
      /\ Len(inodes'[i].blocks) = IF o = Len(inodes[i].blocks) + 1 THEN o ELSE Len(inodes[i].blocks)
      /\ inodes'[i].blocks[o] = [by |-> u, at |-> child[u].read + 1, end |-> "lf"]
      /\ \A m \in 1 .. Len(inodes[i].blocks) : m # o => inodes'[i].blocks[m] = inodes[i].blocks[m]
  BY WriteEffect
<1>3. /\ child'[u].pc = "writing" /\ child'[u].inode = i /\ child'[u].short = child[u].short
      /\ child'[u].off = o /\ child'[u].read = child[u].read + 1
      /\ child'[u].before = child[u].before
      /\ \A v \in Uploads \ {u} : child'[v] = child[v]
  BY <1>1 DEF WriteBlock, Child
<1>4. Len(inodes[i].blocks) \in Nat /\ child[u].read \in Nat /\ child[u].off \in Nat
  BY <1>1, <1>2, BlocksType DEF Child
<1> HIDE DEF i, o
<1>5. \A v \in Uploads : /\ child'[v].pc = child[v].pc /\ child'[v].inode = child[v].inode
                         /\ child'[v].short = child[v].short /\ child'[v].before = child[v].before
  BY <1>1, <1>3 DEF i
<1>6. ASSUME NEW j \in DOMAIN inodes, NEW k \in 1 .. Len(inodes'[j].blocks), j # i \/ k # o
      PROVE  k \in 1 .. Len(inodes[j].blocks) /\ inodes'[j].blocks[k] = inodes[j].blocks[k]
  <2>1. CASE j # i
    BY <1>2, <1>6, <2>1
  <2>2. CASE j = i
    <3>1. k # o /\ k \in 1 .. Len(inodes'[i].blocks)
      BY <1>6, <2>2
    <3>2. k \in 1 .. Len(inodes[i].blocks)
      BY <1>2, <1>4, <3>1
    <3>. QED  BY <1>2, <2>2, <3>1, <3>2
  <2>. QED  BY <2>1, <2>2
<1>7. BlocksGenuine'
  <2>1. ASSUME NEW j \in DOMAIN inodes, NEW k \in 1 .. Len(inodes'[j].blocks)
        PROVE  Genuine(j, k)'
    <3>1. CASE j # i \/ k # o
      <4>1. k \in 1 .. Len(inodes[j].blocks) /\ inodes'[j].blocks[k] = inodes[j].blocks[k]
        BY <1>6, <2>1, <3>1
      <4>2. Genuine(j, k) /\ inodes[j].blocks[k] \in Block
        BY <4>1, BlocksType DEF StoredInv, BlocksGenuine
      <4>3. inodes[j].blocks[k].by \in Uploads
        BY <4>2 DEF Block
      <4>. QED  BY <1>5, <4>1, <4>2, <4>3 DEF Genuine
    <3>2. CASE j = i /\ k = o
      <4>1. LET b == inodes'[j].blocks[k] IN b.by = u /\ b.at = child[u].read + 1 /\ b.end = "lf"
        BY <1>2, <3>2
      <4>2. ~child[u].short => child[u].off = child[u].read
        BY <1>1 DEF StoredInv, Written
      <4>3. ~child[u].short => inodes'[j].blocks[k].at = k
        BY <3>2, <4>1, <4>2 DEF o
      <4>. QED  BY <1>3, <3>2, <4>1, <4>3 DEF Genuine
    <3>. QED  BY <3>1, <3>2
  <2>. QED  BY <1>2, <2>1 DEF BlocksGenuine
<1>8. ASSUME NEW v \in Uploads PROVE Written(v)'
  <2>1. SUFFICES ASSUME child[v].pc # "headers", ~child[v].short
                 PROVE  /\ child'[v].off = child'[v].read
                        /\ \A k \in 1 .. child'[v].off : Blocks(v)'[k].by \notin child[v].before
    BY <1>5 DEF Written
  <2>2. /\ child[v].off = child[v].read
        /\ \A k \in 1 .. child[v].off : Blocks(v)[k].by \notin child[v].before
    BY <2>1 DEF StoredInv, Written
  <2>3. child'[v].off = child'[v].read
    <3>1. CASE v = u
      BY <1>3, <2>2, <3>1 DEF o
    <3>2. CASE v # u
      BY <1>3, <2>2, <3>2
    <3>. QED  BY <3>1, <3>2
  <2> DEFINE j == child[v].inode
  <2>4. j \in DOMAIN inodes /\ Blocks(v) = inodes[j].blocks /\ Blocks(v)' = inodes'[j].blocks
    BY <1>5, <2>1 DEF UploadTypeOK, Blocks
  <2>5. u \notin child[v].before
    BY <1>1 DEF StoredInv, Completed
  <2>6. UploadTypeOK'
    BY UploadType DEF UploadStep
  <2>7. child'[v].off <= Len(inodes'[j].blocks) /\ child'[v].off \in Nat /\ child[v].off \in Nat
    BY <1>1, <1>5, <2>1, <2>4, <2>6 DEF UploadTypeOK, Child
  <2>8. Len(inodes'[j].blocks) \in Nat
    BY <1>2, <1>4, <2>4, BlocksType
  <2> HIDE DEF j
  <2>9. ASSUME NEW k \in 1 .. child'[v].off PROVE inodes'[j].blocks[k].by \notin child[v].before
    <3>1. CASE j = i /\ k = o
      <4>1. inodes'[j].blocks[k].by = u
        BY <1>2, <3>1
      <4>. QED  BY <2>5, <4>1
    <3>2. CASE j # i \/ k # o
      <4>1. k \in 1 .. Len(inodes'[j].blocks)
        BY <2>7, <2>8, <2>9
      <4>2. inodes'[j].blocks[k] = inodes[j].blocks[k]
        BY <1>6, <2>4, <3>2, <4>1
      <4>3. k \in 1 .. child[v].off
        <5>1. CASE v # u
          BY <1>3, <2>9, <5>1
        <5>2. CASE v = u
          <6>1. j = i /\ child'[v].off = child[v].off + 1 /\ o = child[v].off + 1
            BY <1>3, <5>2 DEF i, j, o
          <6>. QED  BY <2>7, <2>9, <3>2, <6>1
        <5>. QED  BY <5>1, <5>2
      <4>. QED  BY <2>2, <2>4, <4>2, <4>3
    <3>. QED  BY <3>1, <3>2
  <2>. QED  BY <2>3, <2>4, <2>9
<1>9. \A v \in Uploads : Completed(v)'
  BY <1>1, <1>3, <1>5 DEF StoredInv, Completed
<1>. QED  BY <1>7, <1>8, <1>9 DEF StoredInv

LEMMA StoredStep ==
    ASSUME UploadTypeOK, StoredInv, NEW u \in Uploads, UploadStep(u)
    PROVE  StoredInv'
<1>1. CASE WriteFails(u) \/ CloseFile(u)
  <2>1. child \in [Uploads -> Child] /\ inodes' = inodes /\ child[u].pc = "writing"
    BY <1>1 DEF UploadTypeOK, WriteFails, CloseFile, Reads
  <2>2. /\ child'[u].pc # "headers" /\ child'[u].inode = child[u].inode
        /\ child'[u].before = child[u].before /\ child'[u].off = child[u].off
        /\ \/ child'[u].short /\ child'[u].pc = "writing"
           \/ /\ child'[u].short = child[u].short /\ child'[u].read = child[u].read
              /\ child'[u].total = child[u].total /\ child[u].read = child[u].total
              /\ child'[u].pc = "done"
        /\ \A v \in Uploads \ {u} : child'[v] = child[v]
    BY <1>1, <2>1 DEF WriteFails, CloseFile, Child
  <2>3. BlocksGenuine'
    <3>1. ASSUME NEW j \in DOMAIN inodes, NEW k \in 1 .. Len(inodes[j].blocks)
          PROVE  Genuine(j, k)'
      <4>1. Genuine(j, k) /\ inodes[j].blocks[k] \in Block
        BY BlocksType DEF StoredInv, BlocksGenuine
      <4>2. inodes[j].blocks[k].by \in Uploads
        BY <4>1 DEF Block
      <4>. QED  BY <2>1, <2>2, <4>1, <4>2 DEF Genuine
    <3>. QED  BY <2>1, <3>1 DEF BlocksGenuine
  <2>4. \A v \in Uploads : Written(v)'
    <3>1. ASSUME NEW v \in Uploads \ {u} PROVE Written(v)'
      BY <2>1, <2>2, <3>1 DEF StoredInv, Written, Blocks
    <3>2. Written(u)'
      BY <2>1, <2>2 DEF StoredInv, Written, Blocks
    <3>. QED  BY <3>1, <3>2
  <2>5. \A v \in Uploads : Completed(v)'
    BY <2>1, <2>2 DEF StoredInv, Completed
  <2>. QED  BY <2>3, <2>4, <2>5 DEF StoredInv
<1>. QED  BY <1>1, StoredOpen, StoredWrite DEF UploadStep

\* A client that has been told that its upload is there, and none of whose
\* writes has failed, finds each block in its place, or that of an upload to the
\* same file that was not complete before.
THEOREM UploadsAreStored == Spec => []UploadStored
<1>1. Init => StoredInv
  <2>1. SUFFICES ASSUME Init PROVE StoredInv
    OBVIOUS
  <2>2. /\ \A i \in DOMAIN inodes : Len(inodes[i].blocks) = 0
        /\ \A u \in Uploads : child[u].pc = "headers" /\ child[u].before = {}
    BY <2>1, EmptySeq DEF Init, UploadInit, NoFile
  <2>. QED  BY <2>2 DEF StoredInv, BlocksGenuine, Written, Completed
<1>2. FilesInv /\ StoredInv /\ [Next]_vars => StoredInv'
  <2>1. ASSUME UNCHANGED <<inodes, child>>, StoredInv PROVE StoredInv'
    BY <2>1 DEF StoredInv, BlocksGenuine, Genuine, Written, Completed, Blocks
  <2>2. ASSUME NEW t \in Threads, ThreadStep(t) PROVE UNCHANGED <<inodes, child>>
    BY <2>2 DEF ThreadStep, OpenDir, OpenDirFails, StartsAgain, ReadDir, CloseDir, Move, MoveFails,
                SystemFails, uploads
  <2>3. DaemonRestarts \/ UNCHANGED vars => UNCHANGED <<inodes, child>>
    BY DEF DaemonRestarts, StartsAgain, vars, uploads
  <2>. QED  BY <2>1, <2>2, <2>3, StoredStep DEF Next, FilesInv, TypeOK
<1>3. FilesInv /\ StoredInv => UploadStored
  BY StoredImplied DEF FilesInv, TypeOK
<1>4. FilesInv /\ [Next]_vars => FilesInv'
  BY FilesStep
<1>5. Init => FilesInv
  BY FilesInit
<1>. QED  BY <1>1, <1>2, <1>3, <1>4, <1>5, PTL DEF Spec
=============================================================================
