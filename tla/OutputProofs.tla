---------------------------- MODULE OutputProofs ----------------------------
(***************************************************************************)
(* Safety of what becomes of a child's output: the drain that captures a   *)
(* stream (StreamDrain) and the bounded delivery of its chunks to a sink   *)
(* (BoundedDelivery).                                                      *)
(*                                                                         *)
(* A drain, for any configurations, bytes, chunks and cancellations: a     *)
(* capture that reports no storage failure is complete, and a spill file   *)
(* is reclaimed.  Held says where the bytes are at every await, in memory  *)
(* or in the file; Answered, that the handle the cleanup closes answers    *)
(* for whatever is on disk.                                                *)
(*                                                                         *)
(* Bounded delivery, for every set of chunks, every size and every         *)
(* capacity.  ProtocolInv ties the worker's program counter to the locks   *)
(* and to the flags of close: a worker that outlives the close result is   *)
(* abandoned, so a worker that passed the abandonment check did so before  *)
(* the session was taken, and still holds the operation lock the finalizer *)
(* needs.  HoldingInv says what the worker's local item is, and that no    *)
(* chunk is queued twice; with it the accounting is inductive.  OrderInv   *)
(* says that the writes begun, the item the worker holds and, until        *)
(* delivery is given up, the queue are in this order the accepted chunks;  *)
(* BytesInv, that the byte counter is the last of non-decreasing running   *)
(* totals over the queue, which can be shortened at the head without a sum *)
(* over the rest.                                                          *)
(***************************************************************************)
EXTENDS StreamDrain, BoundedDelivery, TLAPS, SequenceTheorems

-----------------------------------------------------------------------------
(* Prefixes of what was read. *)

Bytes == {"a", "h", "w", "m", "n", "lf", "cr", "L", "C"}

LEMMA UptoElements ==
    ASSUME NEW t \in Seq(Bytes), NEW n \in 0..Len(t)
    PROVE  Upto(t, n) \in Seq(Bytes) /\ Len(Upto(t,
        n)) = n /\ \A i \in 1..n : Upto(t, n)[i] = t[i]
<1>1. /\ 1 \in Int /\ n \in Int /\ Len(t) \in Nat /\ n - 1 + 1 = n
      /\ \A i \in 1..n : i \in 1..Len(t) /\ 1 + i - 1 = i
      /\ IF 1 <= n THEN n - 1 + 1 = n ELSE n = 0
  OBVIOUS
<1>2. \A i \in 1..n : t[i] \in Bytes
  BY <1>1, ElementOfSeq
<1>3. PICK u : u = SubSeq(t, 1, n)
  OBVIOUS
<1>4. /\ u \in Seq(Bytes) /\ Len(u) = IF 1 <= n THEN n - 1 + 1 ELSE 0
      /\ \A i \in 1..(n - 1 + 1) : u[i] = t[1 + i - 1]
  BY <1>1, <1>2, <1>3, SubSeqProperties
<1> QED
  BY <1>1, <1>3, <1>4 DEF Upto

LEMMA UptoAll ==
    ASSUME NEW t \in Seq(Bytes)
    PROVE  Upto(t, Len(t)) = t
  BY SubSeqFull DEF Upto

LEMMA PrefixElements ==
    ASSUME NEW s \in Seq(Bytes), NEW t \in Seq(Bytes)
    PROVE  IsPrefix(s, t) <=> Len(s) <= Len(t) /\ \A i \in 1..Len(s) : s[i] = t[i]
<1>1. SubSeq(s, 1, Len(s)) = s /\ Len(s) \in Nat /\ Len(t) \in Nat
  BY SubSeqFull
<1>2. CASE Len(s) <= Len(t)
  <2>1. Len(s) \in 0..Len(t)
    BY <1>1, <1>2
  <2>2. PICK u : u = SubSeq(t, 1, Len(s))
    OBVIOUS
  <2>3. u \in Seq(Bytes) /\ Len(u) = Len(s) /\ \A i \in 1..Len(s) : u[i] = t[i]
    BY <2>1, <2>2, UptoElements DEF Upto
  <2>4. s = u <=> \A i \in 1..Len(s) : s[i] = u[i]
    BY <2>3, SeqEqual
  <2> QED
    BY <1>1, <1>2, <2>2, <2>3, <2>4 DEF IsPrefix
<1>3. CASE ~ (Len(s) <= Len(t))
  BY <1>3 DEF IsPrefix
<1> QED
  BY <1>2, <1>3

LEMMA PrefixGrows ==
    ASSUME NEW s \in Seq(Bytes), NEW t \in Seq(Bytes), NEW u \in Seq(Bytes), IsPrefix(s, t)
    PROVE  IsPrefix(s, t \o u)
<1>1. PICK w : w = t \o u
  OBVIOUS
<1>2. w \in Seq(Bytes) /\ Len(w) = Len(t) + Len(u) /\ \A i \in 1..Len(t) : w[i] = t[i]
  BY <1>1, ConcatProperties
<1>3. Len(s) <= Len(t) /\ \A i \in 1..Len(s) : s[i] = t[i]
  BY PrefixElements
<1>4. Len(s) \in Nat /\ Len(t) \in Nat /\ Len(u) \in Nat
  OBVIOUS
<1>5. Len(s) <= Len(w) /\ \A i \in 1..Len(s) : i \in 1..Len(t)
  BY <1>2, <1>3, <1>4
<1> QED
  BY <1>1, <1>2, <1>3, <1>5, PrefixElements

\* Part of the next chunk after what is there.
LEMMA PrefixPart ==
    ASSUME NEW s \in Seq(Bytes), NEW u \in Seq(Bytes), NEW n \in 0..Len(u)
    PROVE  s \o Upto(u, n) \in Seq(Bytes) /\ IsPrefix(s \o Upto(u, n), s \o u)
<1>1. PICK v : v = Upto(u, n)
  OBVIOUS
<1>2. v \in Seq(Bytes) /\ Len(v) = n /\ \A i \in 1..n : v[i] = u[i]
  BY <1>1, UptoElements
<1>3. PICK x, y : x = s \o v /\ y = s \o u
  OBVIOUS
<1>4. /\ x \in Seq(Bytes) /\ Len(x) = Len(s) + Len(v) /\ \A i \in 1..Len(s) : x[i] = s[i]
      /\ \A i \in Len(s) + 1..Len(s) + Len(v) : x[i] = v[i - Len(s)]
  BY <1>2, <1>3, ConcatProperties
<1>5. /\ y \in Seq(Bytes) /\ Len(y) = Len(s) + Len(u) /\ \A i \in 1..Len(s) : y[i] = s[i]
      /\ \A i \in Len(s) + 1..Len(s) + Len(u) : y[i] = u[i - Len(s)]
  BY <1>3, ConcatProperties
<1>6. Len(s) \in Nat /\ Len(u) \in Nat /\ n <= Len(u)
  OBVIOUS
<1>7. ASSUME NEW i \in 1..Len(x) PROVE x[i] = y[i]
  <2>1. CASE i \in 1..Len(s)
    BY <1>4, <1>5, <2>1
  <2>2. CASE i \notin 1..Len(s)
    <3>1. i - Len(s) \in 1..n
      <4>1. i \in Nat /\ 1 <= i /\ i <= Len(s) + n
        BY <1>2, <1>4, <1>6
      <4>2. Len(s) < i
        BY <1>6, <2>2, <4>1
      <4> QED
        BY <1>6, <4>1, <4>2
    <3>2. i \in Len(s) + 1..Len(s) + Len(v) /\ i \in Len(s) + 1..Len(s) + Len(u)
      BY <1>2, <1>4, <1>6, <2>2
    <3> QED
      BY <1>2, <1>4, <1>5, <3>1, <3>2
  <2> QED
    BY <2>1, <2>2
<1>8. Len(x) <= Len(y)
  BY <1>2, <1>4, <1>5, <1>6
<1> QED
  BY <1>1, <1>3, <1>4, <1>5, <1>7, <1>8, PrefixElements

LEMMA PrefixCut ==
    ASSUME NEW s \in Seq(Bytes), NEW t \in Seq(Bytes), IsPrefix(s, t), NEW n \in 0..Len(s)
    PROVE  Upto(s, n) \in Seq(Bytes) /\ IsPrefix(Upto(s, n), t)
<1>1. PICK u : u = Upto(s, n)
  OBVIOUS
<1>2. u \in Seq(Bytes) /\ Len(u) = n /\ \A i \in 1..n : u[i] = s[i]
  BY <1>1, UptoElements
<1>3. Len(s) <= Len(t) /\ \A i \in 1..Len(s) : s[i] = t[i]
  BY PrefixElements
<1>4. Len(s) \in Nat /\ Len(t) \in Nat
  OBVIOUS
<1>5. Len(u) <= Len(t) /\ \A i \in 1..Len(u) : i \in 1..Len(s)
  BY <1>2, <1>3, <1>4
<1> QED
  BY <1>1, <1>2, <1>3, <1>5, PrefixElements

LEMMA SamePrefix ==
    ASSUME NEW s \in Seq(Bytes)
    PROVE  IsPrefix(s, s) /\ IsPrefix(<< >>, s)
<1>1. PICK e : e = << >> /\ e \in Seq(Bytes) /\ Len(e) = 0
  <2>1. << >> \in Seq(Bytes) /\ Len(<< >>) = 0
    OBVIOUS
  <2> QED
    BY <2>1
<1>2. Len(s) \in Nat /\ Len(s) <= Len(s) /\ 0 <= Len(s) /\ \A i \in 1..0 : FALSE
  OBVIOUS
<1>3. IsPrefix(s, s)
  BY <1>2, PrefixElements
<1>4. Len(e) <= Len(s) /\ \A i \in 1..Len(e) : e[i] = s[i]
  BY <1>1, <1>2
<1>5. IsPrefix(e, s)
  BY <1>1, <1>4, PrefixElements
<1> QED
  BY <1>1, <1>3, <1>5

-----------------------------------------------------------------------------
(* The inductive invariant. *)

Reading == {"read", "create", "write", "append", "discard", "fan"}

\* Who answers for the spill file: from its creation to the cleanup the handle
\* does, and only a file that became the capture's storage is to be kept.
Answered ==
    /\ file.open => file.handle
    /\ file.exists => file.handle
    /\ file.keep => config.keep /\ file.path
    /\ pc = "clean" => ~ file.open /\ (file.exists => file.keep)

\* Where the bytes are: in memory until the spill, then in the file, up to the
\* chunk in hand while it is appended.
Held ==
    /\ ~ file.path => file.data = << >>
    /\ file.path => config.capture = "file"
    /\ IsPrefix(file.data, consumed)
    /\ config.capture = "file" =>
          /\ ~ file.path => file.mem = consumed
          /\ file.path /\ ~ file.failed /\ ~ hidden =>
                IF pc = "append" THEN file.data \o chunk = consumed
                ELSE file.data = consumed

\* What is known at each await.
Stages ==
    /\ pc \in Reading => ~ hidden /\ returned = << >>
    /\ pc \in {"create", "write", "discard"} => config.capture = "file" /\ ~ file.path
    /\ pc = "append" => config.capture = "file" /\ file.path /\ ~ file.failed
    /\ pc \in {"flush", "readBack"} /\ config.capture = "file" => file.path

Reported ==
    config.capture = "file" /\ returned # << >> /\ ~ hidden /\ ~ returned[1].failed =>
        returned[1].kept = consumed

FileFields == {"mem", "data", "path", "handle", "keep", "open", "exists", "failed"}

Contents == /\ DOMAIN file = FileFields
            /\ file.mem \in Seq(Bytes) /\ file.data \in Seq(Bytes)
            /\ consumed \in Seq(Bytes) /\ chunk \in Seq(Bytes)

DrainInv == Contents /\ Answered /\ Held /\ Stages /\ Reported

LEMMA DrainInitial == DrainInit => DrainInv
<1> SUFFICES ASSUME DrainInit PROVE DrainInv
  OBVIOUS
<1>1. Contents /\ file.data = << >> /\ consumed = << >> /\ file.mem = << >>
  BY DEF DrainInit, Contents, FileFields
<1>2. IsPrefix(file.data, consumed)
  BY <1>1, SamePrefix DEF Contents
<1>3. pc \in {"read", "refused"} /\ ~ file.path /\ returned = << >> /\ ~ hidden
      /\ ~ file.open /\ ~ file.exists /\ ~ file.keep
  BY DEF DrainInit
<1> QED
  BY <1>1, <1>2, <1>3 DEF DrainInv, Answered, Held, Stages, Reported, Reading

\* A step that leaves the bytes and the file alone.
LEMMA DrainFrame ==
    ASSUME DrainInv, UNCHANGED << config, consumed, file, hidden, returned >>,
           chunk' \in Seq(Bytes), pc # "append", pc # "clean", pc' # "append", pc' # "clean",
           pc' \notin {"create", "write", "discard"},
           pc' \in Reading => pc \in Reading,
           pc' \in {"flush", "readBack"} /\ config.capture = "file" => file.path
    PROVE  DrainInv'
  BY DEF DrainInv, Contents, Answered, Held, Stages, Reported

LEMMA ReadKeeps == ASSUME DrainInv, Read PROVE DrainInv'
<1>1. PICK n \in 1..MaxChunk : \E bytes \in [1..n -> Symbols] :
         consumed' = consumed \o bytes /\ chunk' = bytes /\ Absorb(bytes)
  BY DEF Read
<1>2. PICK bytes \in [1..n -> Symbols] : consumed' = consumed \o bytes /\ chunk' = bytes /\ Absorb(bytes)
  BY <1>1
<1>3. bytes \in Seq(Bytes)
  <2>1. Symbols \subseteq Bytes
    BY DEF Symbols, Bytes
  <2>2. n \in Nat
    OBVIOUS
  <2> QED
    BY <2>1, <2>2
<1>4. /\ pc = "read" /\ UNCHANGED << config, hidden, returned >>
  BY DEF Read
<1>5. Contents /\ Answered /\ Held /\ Stages /\ Reported
  BY DEF DrainInv
<1>6. ~ hidden /\ returned = << >>
  BY <1>4, <1>5 DEF Stages, Reading
<1>7. /\ consumed \o bytes \in Seq(Bytes) /\ file.mem \o bytes \in Seq(Bytes)
  BY <1>3, <1>5, ConcatProperties DEF Contents
<1>8. IsPrefix(file.data, consumed \o bytes)
  BY <1>3, <1>5, PrefixGrows DEF Contents, Held
<1>9. /\ file' = IF config.capture = "file" /\ ~ file.path
                 THEN [file EXCEPT !.mem = file.mem \o bytes] ELSE file
      /\ pc' = CASE config.capture # "file" -> "fan"
                   [] file.path -> IF file.failed THEN "fan" ELSE "append"
                   [] OTHER -> IF ~ file.failed /\ Len(file.mem \o bytes) > config.threshold
                               THEN "create" ELSE "fan"
  BY <1>2 DEF Absorb
<1>10. CASE config.capture # "file"
  <2>1. pc' = "fan" /\ file' = file
    BY <1>5, <1>9, <1>10 DEF Held
  <2> QED
    BY <1>2, <1>3, <1>4, <1>5, <1>6, <1>7, <1>8, <1>10, <2>1
    DEF DrainInv, Contents, Answered, Held, Stages, Reported, Reading
<1>11. CASE config.capture = "file" /\ file.path
  <2>1. pc' = (IF file.failed THEN "fan" ELSE "append") /\ file' = file
    BY <1>9, <1>11
  <2>2. ~ file.failed => file.data = consumed
    BY <1>4, <1>5, <1>6, <1>11 DEF Held
  <2> QED
    BY <1>2, <1>3, <1>4, <1>5, <1>6, <1>7, <1>8, <1>11, <2>1, <2>2
    DEF DrainInv, Contents, Answered, Held, Stages, Reported, Reading
<1>12. CASE config.capture = "file" /\ ~ file.path
  <2>1. pc' \in {"create", "fan"}
    BY <1>9, <1>12
  <2>2. /\ file' = [file EXCEPT !.mem = file.mem \o bytes]
        /\ file.mem = consumed
    BY <1>5, <1>9, <1>12 DEF Held
  <2>3. /\ DOMAIN file' = FileFields /\ file'.mem = consumed \o bytes /\ file'.data = file.data
        /\ file'.path = file.path /\ file'.handle = file.handle /\ file'.keep = file.keep
        /\ file'.open = file.open /\ file'.exists = file.exists /\ file'.failed = file.failed
    BY <1>5, <2>2 DEF Contents, FileFields
  <2> QED
    BY <1>2, <1>3, <1>4, <1>5, <1>6, <1>7, <1>8, <1>12, <2>1, <2>3
    DEF DrainInv, Contents, Answered, Held, Stages, Reported, Reading
<1> QED
  BY <1>10, <1>11, <1>12

LEMMA CreateKeeps == ASSUME DrainInv, NEW ok, NEW hit, Create(ok, hit) PROVE DrainInv'
<1>1. Contents /\ Answered /\ Held /\ Stages /\ Reported
  BY DEF DrainInv
<1>2. /\ pc = "create" /\ UNCHANGED << config, consumed, chunk, hidden, returned >>
      /\ pc' \in {"stop", "write", "fan"}
      /\ file' = IF ok THEN [file EXCEPT !.handle = TRUE, !.open = TRUE, !.exists = TRUE]
                 ELSE [file EXCEPT !.failed = ~ hit]
  BY DEF Create
<1>3. /\ DOMAIN file' = FileFields /\ file'.mem = file.mem /\ file'.data = file.data
      /\ file'.path = file.path /\ file'.keep = file.keep
      /\ file'.open => file'.handle
      /\ file'.exists => file'.handle
  BY <1>1, <1>2 DEF Contents, Answered, FileFields
<1>4. ~ file.path /\ ~ hidden /\ returned = << >>
  BY <1>1, <1>2 DEF Stages, Reading
<1> QED
  BY <1>1, <1>2, <1>3, <1>4 DEF DrainInv, Contents, Answered, Held, Stages, Reported, Reading

LEMMA WriteKeeps == ASSUME DrainInv, NEW ok, NEW hit, WriteSpill(ok, hit) PROVE DrainInv'
<1>1. Contents /\ Answered /\ Held /\ Stages /\ Reported
  BY DEF DrainInv
<1>2. /\ pc = "write" /\ UNCHANGED << config, consumed, chunk, hidden, returned >>
      /\ pc' = (IF hit THEN "stop" ELSE IF ok THEN "fan" ELSE "discard")
      /\ file' = IF ok /\ ~ hit
                 THEN [file EXCEPT !.data = file.mem, !.mem = << >>,
                                   !.path = TRUE, !.keep = config.keep]
                 ELSE file
  BY DEF WriteSpill
<1>3. ~ file.path /\ ~ hidden /\ returned = << >>
  BY <1>1, <1>2 DEF Stages, Reading
<1>4. CASE ok /\ ~ hit
  <2>1. /\ DOMAIN file' = FileFields /\ file'.mem = << >> /\ file'.data = file.mem
        /\ file'.path /\ file'.keep = config.keep /\ file'.handle = file.handle
        /\ file'.open = file.open /\ file'.exists = file.exists /\ file'.failed = file.failed
        /\ pc' = "fan"
    BY <1>1, <1>2, <1>4 DEF Contents, FileFields
  <2>2. config.capture = "file" /\ file.mem = consumed
    BY <1>1, <1>2, <1>3 DEF Held, Stages
  <2>3. IsPrefix(file.mem, consumed) /\ << >> \in Seq(Bytes)
    BY <1>1, <2>2, SamePrefix DEF Contents
  <2> QED
    BY <1>1, <1>2, <1>3, <2>1, <2>2, <2>3
    DEF DrainInv, Contents, Answered, Held, Stages, Reported, Reading
<1>5. CASE ~ (ok /\ ~ hit)
  BY <1>1, <1>2, <1>3, <1>5 DEF DrainInv, Contents, Answered, Held, Stages, Reported, Reading
<1> QED
  BY <1>4, <1>5

LEMMA DiscardKeeps == ASSUME DrainInv, NEW hit, NEW gone, Discard(hit, gone) PROVE DrainInv'
<1>1. Contents /\ Answered /\ Held /\ Stages /\ Reported
  BY DEF DrainInv
<1>2. /\ pc = "discard" /\ UNCHANGED << config, consumed, chunk, hidden, returned >>
      /\ pc' = (IF hit THEN "stop" ELSE "fan") /\ (hit \/ gone)
      /\ file' = [file EXCEPT !.open = FALSE, !.exists = ~ gone, !.handle = hit, !.failed = ~ hit]
  BY DEF Discard
<1>3. /\ DOMAIN file' = FileFields /\ file'.mem = file.mem /\ file'.data = file.data
      /\ file'.path = file.path /\ file'.keep = file.keep
      /\ ~ file'.open /\ (file'.exists => file'.handle)
  BY <1>1, <1>2 DEF Contents, FileFields
<1>4. ~ file.path /\ ~ hidden /\ returned = << >>
  BY <1>1, <1>2 DEF Stages, Reading
<1> QED
  BY <1>1, <1>2, <1>3, <1>4 DEF DrainInv, Contents, Answered, Held, Stages, Reported, Reading

LEMMA AppendKeeps == ASSUME DrainInv, NEW ok, NEW hit, Append_(ok, hit) PROVE DrainInv'
<1>1. Contents /\ Answered /\ Held /\ Stages /\ Reported
  BY DEF DrainInv
<1>2. /\ pc = "append" /\ UNCHANGED << config, consumed, chunk, returned >>
      /\ pc' = (IF hit THEN "stop" ELSE "fan")
      /\ hidden' = (hidden \/ (~ ok /\ hit))
  BY DEF Append_
<1>3. PICK n \in (IF ok THEN {Len(chunk)} ELSE 0..Len(chunk) - 1) :
         file' = [file EXCEPT !.data = @ \o Upto(chunk, n), !.failed = ~ ok /\ ~ hit]
  BY DEF Append_
<1>4. chunk \in Seq(Bytes) /\ file.data \in Seq(Bytes) /\ consumed \in Seq(Bytes) /\ Len(chunk) \in Nat
  BY <1>1 DEF Contents
<1>5. n \in 0..Len(chunk) /\ (ok => n = Len(chunk))
  BY <1>3, <1>4
<1>6. /\ ~ hidden /\ returned = << >> /\ config.capture = "file" /\ file.path
      /\ file.data \o chunk = consumed
  BY <1>1, <1>2 DEF Stages, Reading, Held
<1>7. PICK d : d = file.data \o Upto(chunk, n)
  OBVIOUS
<1>8. d \in Seq(Bytes) /\ IsPrefix(d, consumed)
  BY <1>4, <1>5, <1>6, <1>7, PrefixPart
<1>9. ok => d = consumed
  BY <1>4, <1>5, <1>6, <1>7, UptoAll
<1>10. /\ DOMAIN file' = FileFields /\ file'.mem = file.mem /\ file'.data = d
       /\ file'.path = file.path /\ file'.keep = file.keep /\ file'.handle = file.handle
       /\ file'.open = file.open /\ file'.exists = file.exists
       /\ file'.failed <=> ~ ok /\ ~ hit
  BY <1>1, <1>3, <1>7 DEF Contents, FileFields
<1> QED
  BY <1>1, <1>2, <1>6, <1>8, <1>9, <1>10
  DEF DrainInv, Contents, Answered, Held, Stages, Reported, Reading

LEMMA FlushKeeps == ASSUME DrainInv, NEW ok, NEW hit, Flush(ok, hit) PROVE DrainInv'
<1>1. Contents /\ Answered /\ Held /\ Stages /\ Reported
  BY DEF DrainInv
<1>2. /\ pc = "flush" /\ UNCHANGED << config, consumed, chunk >>
      /\ hidden' = (hidden \/ (~ ok /\ hit))
  BY DEF Flush
<1>3. PICK n \in (IF ok THEN {Len(file.data)} ELSE 0..Len(file.data)) :
         file' = [file EXCEPT !.data = Upto(@, n), !.failed = @ \/ (~ ok /\ ~ hit)]
  BY DEF Flush
<1>4. file.data \in Seq(Bytes) /\ consumed \in Seq(Bytes) /\ Len(file.data) \in Nat
      /\ IsPrefix(file.data, consumed)
  BY <1>1 DEF Contents, Held
<1>5. n \in 0..Len(file.data) /\ (ok => n = Len(file.data))
  BY <1>3, <1>4
<1>6. PICK d : d = Upto(file.data, n)
  OBVIOUS
<1>7. d \in Seq(Bytes) /\ IsPrefix(d, consumed) /\ (ok => d = file.data)
  BY <1>4, <1>5, <1>6, PrefixCut, UptoAll
<1>8. file.data = << >> => d = << >>
  <2>1. ASSUME file.data = << >> PROVE d = << >>
    <3>1. n = Len(file.data)
      BY <1>5, <2>1
    <3> QED
      BY <1>4, <1>6, <2>1, <3>1, UptoAll
  <2> QED
    BY <2>1
<1>9. /\ DOMAIN file' = FileFields /\ file'.mem = file.mem /\ file'.data = d
      /\ file'.path = file.path /\ file'.keep = file.keep /\ file'.handle = file.handle
      /\ file'.open = file.open /\ file'.exists = file.exists
      /\ file'.failed <=> file.failed \/ (~ ok /\ ~ hit)
  BY <1>1, <1>3, <1>6 DEF Contents, FileFields
<1>10. config.capture = "file" => file.path
  BY <1>1, <1>2 DEF Stages
<1>11. config.capture = "file" /\ ~ file'.failed /\ ~ hidden' => d = consumed
  BY <1>1, <1>2, <1>7, <1>9, <1>10 DEF Held
<1>12. CASE returned' = returned /\ pc' \in {"finalize", "ended", "readBack"}
  BY <1>1, <1>2, <1>7, <1>8, <1>9, <1>10, <1>11, <1>12
  DEF DrainInv, Contents, Answered, Held, Stages, Reported, Reading
<1>13. CASE /\ returned' = << [kept |-> file'.data, codec |-> config.codec, dropped |-> 0,
                             failed |-> file'.failed] >>
            /\ pc' = "finish"
  <2>1. returned'[1].kept = d /\ returned'[1].failed = file'.failed
    BY <1>9, <1>13
  <2> QED
    BY <1>1, <1>2, <1>7, <1>8, <1>9, <1>10, <1>11, <1>13, <2>1
    DEF DrainInv, Contents, Answered, Held, Stages, Reported, Reading
<1> QED
  BY <1>12, <1>13 DEF Flush, FinalizeCancelled, Returns

LEMMA ReadBackKeeps == ASSUME DrainInv, NEW ok, NEW hit, ReadBack(ok, hit) PROVE DrainInv'
<1>1. Contents /\ Answered /\ Held /\ Stages /\ Reported
  BY DEF DrainInv
<1>2. /\ pc = "readBack" /\ UNCHANGED << config, consumed, chunk, hidden >>
      /\ file' = [file EXCEPT !.failed = @ \/ (~ ok /\ ~ hit)]
  BY DEF ReadBack
<1>3. /\ DOMAIN file' = FileFields /\ file'.mem = file.mem /\ file'.data = file.data
      /\ file'.path = file.path /\ file'.keep = file.keep /\ file'.handle = file.handle
      /\ file'.open = file.open /\ file'.exists = file.exists
      /\ file'.failed <=> file.failed \/ (~ ok /\ ~ hit)
  BY <1>1, <1>2 DEF Contents, FileFields
<1>4. config.capture = "file" => file.path
  BY <1>1, <1>2 DEF Stages
<1>5. CASE returned' = returned /\ pc' \in {"finalize", "ended"}
  BY <1>1, <1>2, <1>3, <1>4, <1>5
  DEF DrainInv, Contents, Answered, Held, Stages, Reported, Reading
<1>6. CASE /\ returned' = << [kept |-> file.data, codec |-> config.codec, dropped |-> 0,
                            failed |-> file'.failed] >>
           /\ pc' = "finish"
  <2>1. returned'[1].kept = file.data /\ returned'[1].failed = file'.failed
    BY <1>6
  <2> QED
    BY <1>1, <1>2, <1>3, <1>4, <1>6, <2>1
    DEF DrainInv, Contents, Answered, Held, Stages, Reported, Reading
<1> QED
  BY <1>5, <1>6 DEF ReadBack, FinalizeCancelled, Returns

LEMMA FinalizeKeeps == ASSUME DrainInv, Finalize PROVE DrainInv'
<1>1. Contents /\ Answered /\ Held /\ Stages /\ Reported
  BY DEF DrainInv
<1>2. pc = "finalize" /\ UNCHANGED << config, consumed, chunk, hidden, file >>
  BY DEF Finalize
<1>3. CASE config.capture # "file"
  <2>1. pc' \in {"finish", "flush"}
    BY <1>3 DEF Finalize, Returns
  <2> QED
    BY <1>1, <1>2, <1>3, <2>1
    DEF DrainInv, Contents, Answered, Held, Stages, Reported, Reading
<1>5. CASE config.capture = "file" /\ file.path
  <2>1. pc' = "flush" /\ returned' = returned
    BY <1>5 DEF Finalize
  <2> QED
    BY <1>1, <1>2, <1>5, <2>1
    DEF DrainInv, Contents, Answered, Held, Stages, Reported, Reading
<1>4. CASE config.capture = "file" /\ ~ file.path
  <2>1. returned' = << [kept |-> file.mem, codec |-> config.codec, dropped |-> 0,
                      failed |-> file.failed] >> /\ pc' = "finish"
    BY <1>4 DEF Finalize, Returns
  <2>2. returned'[1].kept = consumed
    BY <1>1, <1>4, <2>1 DEF Held
  <2> QED
    BY <1>1, <1>2, <1>4, <2>1, <2>2
    DEF DrainInv, Contents, Answered, Held, Stages, Reported, Reading
<1> QED
  BY <1>3, <1>4, <1>5

LEMMA CleanupKeeps == ASSUME DrainInv, Cleanup PROVE DrainInv'
<1>1. Contents /\ Answered /\ Held /\ Stages /\ Reported
  BY DEF DrainInv
<1>2. /\ pc = "ended" /\ pc' = "clean" /\ UNCHANGED << config, consumed, chunk, hidden, returned >>
      /\ file' = IF file.handle
                 THEN [file EXCEPT !.open = FALSE, !.exists = @ /\ file.keep] ELSE file
  BY DEF Cleanup
<1>3. /\ DOMAIN file' = FileFields /\ file'.mem = file.mem /\ file'.data = file.data
      /\ file'.path = file.path /\ file'.keep = file.keep /\ file'.handle = file.handle
      /\ file'.failed = file.failed
      /\ ~ file'.open /\ (file'.exists => file.keep /\ file.handle)
  BY <1>1, <1>2 DEF Contents, FileFields, Answered
<1> QED
  BY <1>1, <1>2, <1>3 DEF DrainInv, Contents, Answered, Held, Stages, Reported, Reading

LEMMA DrainStep == ASSUME DrainInv, [DrainNext]_drainVars PROVE DrainInv'
<1>1. chunk \in Seq(Bytes) /\ << >> \in Seq(Bytes)
  BY DEF DrainInv, Contents
<1>2. CASE CancelRead
  BY <1>1, <1>2, DrainFrame DEF CancelRead, Reading
<1>3. CASE FanOut
  <2>1. /\ pc = "fan" /\ pc' \in {"read", "ended"} /\ chunk' = << >>
        /\ UNCHANGED << config, consumed, file, hidden, returned >>
    BY <1>3 DEF FanOut, Echo
  <2> QED
    BY <1>1, <2>1, DrainFrame DEF Reading
<1>4. CASE Finish
  <2>1. /\ pc \in {"read", "stop"} /\ pc' \in {"ended", "finish", "finalize"}
        /\ UNCHANGED << config, consumed, chunk, file, hidden, returned >>
    BY <1>4 DEF Finish, Echo
  <2> QED
    BY <1>1, <2>1, DrainFrame DEF Reading
<1>5. CASE DiscardOnCancel
  BY <1>1, <1>5, DrainFrame DEF DiscardOnCancel, Reading
<1>6. CASE FinishLineView
  <2>1. /\ pc = "finish" /\ pc' = "ended"
        /\ UNCHANGED << config, consumed, chunk, file, hidden, returned >>
    BY <1>6 DEF FinishLineView
  <2> QED
    BY <1>1, <2>1, DrainFrame DEF Reading
<1>7. CASE UNCHANGED drainVars
  BY <1>7 DEF drainVars, DrainInv, Contents, Answered, Held, Stages, Reported
<1> QED
  BY <1>2, <1>3, <1>4, <1>5, <1>6, <1>7, ReadKeeps, CreateKeeps, WriteKeeps, DiscardKeeps,
     AppendKeeps, FlushKeeps, ReadBackKeeps, FinalizeKeeps, CleanupKeeps
  DEF DrainNext

\* The bytes of a file-backed capture are in memory or in the spill file, whose
\* handle answers for it (_FileAccumulator).
THEOREM DrainInvariance == DrainSpec => []DrainInv
<1>1. DrainInv /\ [DrainNext]_drainVars => DrainInv'
  BY DrainStep
<1> QED
  BY <1>1, DrainInitial, PTL DEF DrainSpec

\* A capture that reports no storage failure is complete, and the file holds a
\* prefix of the stream (_spill, _append, _flush_before_reading, _read_back).
THEOREM CaptureIsComplete == DrainSpec => []CompleteUnlessReported
<1>1. DrainInv => CompleteUnlessReported
  BY DEF DrainInv, Held, Reported, CompleteUnlessReported
<1> QED
  BY <1>1, DrainInvariance, PTL

\* After the cleanup no spill file is open or left behind unasked
\* (_finalize_capture_handles, _discard_failed_spill).
THEOREM SpillIsReclaimed == DrainSpec => []SpillReclaimed
<1>1. DrainInv => SpillReclaimed
  BY DEF DrainInv, Answered, SpillReclaimed
<1> QED
  BY <1>1, DrainInvariance, PTL

-----------------------------------------------------------------------------
(* Bounded delivery. *)

\* Locks, flags and program counters agree.
ProtocolInv ==
    /\ (opLock = "worker") <=> (worker \in {"check", "write", "writing"})
    /\ (opLock = "finalizer") <=> (session = "closing")
    /\ session # "open" => result
    /\ result <=> (run \notin {"running", "joining"})
    /\ result => abandoned \/ worker = "exited"
    /\ abandoned => result
    /\ session \in {"closing", "closed", "closeFailed"} =>
          worker \notin {"write", "writing"}

\* A result exists only after close stopped the intake.
ClosedInv == (run # "running") <=> closing

\* What the worker holds, and where.
HoldingInv ==
    /\ (item = NoItem) <=> (worker \in {"next", "exited"})
    /\ ~abandoned => active = item
    /\ abandoned => item = NoItem \/ item \in undelivered
    /\ item # NoItem => item \notin confirmed \cup failures \cup rejected
    /\ \A j, k \in DOMAIN queue : j # k => queue[j] # queue[k]
    /\ Waiting \subseteq Members(accepted)
    /\ confirmed \cup failures \subseteq Members(accepted)
    /\ item # NoItem => item \in Members(accepted)

IInv == TypeOK /\ ProtocolInv /\ ClosedInv /\ HoldingInv /\ LossAccounted

-----------------------------------------------------------------------------
\* Appending adds one member, at the end.
LEMMA AppendMembers ==
    ASSUME NEW S, NEW s \in Seq(S), NEW x \in S
    PROVE  /\ Members(Append(s, x)) = Members(s) \cup {x}
           /\ \A k \in DOMAIN s : Append(s, x)[k] = s[k]
           /\ Append(s, x)[Len(s) + 1] = x
           /\ DOMAIN Append(s, x) = DOMAIN s \cup {Len(s) + 1}
<1>1. /\ DOMAIN Append(s, x) = 1..(Len(s) + 1)
      /\ DOMAIN s = 1..Len(s)
      /\ \A k \in 1..Len(s) : Append(s, x)[k] = s[k]
      /\ Append(s, x)[Len(s) + 1] = x
  OBVIOUS
<1>2. 1..(Len(s) + 1) = (1..Len(s)) \cup {Len(s) + 1}
  OBVIOUS
<1> QED
  BY <1>1, <1>2 DEF Members

\* A sequence without repetitions loses exactly its head.
LEMMA TailMembers ==
    ASSUME NEW S, NEW s \in Seq(S), s # << >>,
           \A j, k \in DOMAIN s : j # k => s[j] # s[k]
    PROVE  /\ Head(s) \in S
           /\ Head(s) \in Members(s)
           /\ Tail(s) \in Seq(S)
           /\ Members(Tail(s)) = Members(s) \ {Head(s)}
           /\ \A j, k \in DOMAIN Tail(s) : j # k => Tail(s)[j] # Tail(s)[k]
<1>1. /\ Len(s) \in Nat \ {0}
      /\ DOMAIN s = 1..Len(s)
      /\ Head(s) = s[1]
      /\ Tail(s) \in Seq(S)
      /\ DOMAIN Tail(s) = 1..(Len(s) - 1)
      /\ \A k \in 1..(Len(s) - 1) : Tail(s)[k] = s[k + 1]
  OBVIOUS
<1>2. \A k \in 2..Len(s) : k - 1 \in 1..(Len(s) - 1) /\ Tail(s)[k - 1] = s[k]
  BY <1>1
<1>3. Members(Tail(s)) = {s[k] : k \in 2..Len(s)}
  <2>1. \A x \in Members(Tail(s)) : \E k \in 2..Len(s) : x = s[k]
    <3>1. \A k \in 1..(Len(s) - 1) : k + 1 \in 2..Len(s)
      BY <1>1
    <3> QED
      BY <1>1, <3>1 DEF Members
  <2>2. \A k \in 2..Len(s) : s[k] \in Members(Tail(s))
    BY <1>1, <1>2, ZenonT(60) DEF Members
  <2> QED
    BY <2>1, <2>2
<1>4. Members(s) = {s[k] : k \in 2..Len(s)} \cup {s[1]}
  BY <1>1 DEF Members
<1>5. s[1] \notin {s[k] : k \in 2..Len(s)}
  BY <1>1
<1>6. \A j, k \in DOMAIN Tail(s) : j # k => Tail(s)[j] # Tail(s)[k]
  BY <1>1
<1> QED
  BY <1>1, <1>3, <1>4, <1>5, <1>6 DEF Members

\* The empty sequence has no members.
LEMMA EmptyMembers == Members(<< >>) = {} /\ DOMAIN << >> = {}
  BY DEF Members

-----------------------------------------------------------------------------
LEMMA InitIInv == Init => IInv
<1> SUFFICES ASSUME Init PROVE IInv
  OBVIOUS
<1> USE DeliveryAssumption DEF Init
<1>0. << >> \in Seq(Items)
  OBVIOUS
<1>1. TypeOK
  <2>1. queue \in Seq(Items) /\ accepted \in Seq(Items) /\ begun \in Seq(Items)
    BY <1>0, Zenon
  <2>2. /\ worker \in WorkerStates
        /\ run \in RunStates
        /\ queuedBytes \in Int
        /\ emitted \in Nat
    BY DEF WorkerStates, RunStates
  <2> QED
    BY <2>1, <2>2, Zenon DEF TypeOK
<1>2. ProtocolInv /\ ClosedInv
  BY DEF ProtocolInv, ClosedInv
<1>3. HoldingInv
  BY EmptyMembers DEF HoldingInv, Waiting
<1>4. LossAccounted
  BY EmptyMembers DEF LossAccounted, Waiting, InFlight
<1> QED
  BY <1>1, <1>2, <1>3, <1>4 DEF IInv

\* Offering a chunk preserves the invariant.
LEMMA EnqueueStep ==
    ASSUME IInv, NEW i \in Items, Enqueue(i)
    PROVE  IInv'
<1> USE DeliveryAssumption
<1> USE DEF IInv, flags, queueVars
<1>1. CASE disabled \/ closing
  <2>1. /\ undelivered' = undelivered \cup {i}
        /\ UNCHANGED << queue, queuedBytes, rejected, accepted, active, closing,
                        abandoned, disabled, result, failures, begun, confirmed,
                        emitted, worker, item, opLock, session, run >>
        /\ late' = late \cup {i} \/ late' = late
        /\ i \notin Offered
    BY <1>1 DEF Enqueue
  <2>2. TypeOK' /\ ProtocolInv' /\ ClosedInv'
    BY <2>1 DEF TypeOK, ProtocolInv, ClosedInv
  <2>3. i \notin Waiting \cup InFlight \cup confirmed \cup failures \cup rejected
    BY <2>1 DEF Offered, HoldingInv, ProtocolInv, LossAccounted, InFlight
  <2> Members(accepted)' = Members(accepted) /\ Waiting' = Waiting
    BY <2>1 DEF Members, Waiting
  <2>4. HoldingInv'
    BY <2>1, <2>3 DEF HoldingInv
  <2>5. LossAccounted'
    BY <2>1, <2>3 DEF LossAccounted, InFlight
  <2> QED
    BY <2>2, <2>4, <2>5
<1>2. CASE ~(disabled \/ closing) /\ queuedBytes + Size[i] > Capacity
  <2>1. /\ rejected' = rejected \cup {i}
        /\ UNCHANGED << queue, queuedBytes, undelivered, late, accepted, active,
                        closing, abandoned, disabled, result, failures, begun,
                        confirmed, emitted, worker, item, opLock, session, run >>
        /\ i \notin Offered
    BY <1>2 DEF Enqueue, TypeOK
  <2>2. TypeOK' /\ ProtocolInv' /\ ClosedInv'
    BY <2>1 DEF TypeOK, ProtocolInv, ClosedInv
  <2>3. i \notin Waiting \cup InFlight \cup confirmed \cup failures \cup undelivered
    BY <2>1 DEF Offered, HoldingInv, ProtocolInv, LossAccounted, InFlight
  <2> Members(accepted)' = Members(accepted) /\ Waiting' = Waiting
    BY <2>1 DEF Members, Waiting
  <2>4. item # NoItem => item # i
    BY <2>1 DEF Offered, HoldingInv
  <2>5. HoldingInv'
    BY <2>1, <2>4 DEF HoldingInv
  <2>6. LossAccounted'
    BY <2>1, <2>3 DEF LossAccounted, InFlight
  <2> QED
    BY <2>2, <2>5, <2>6
<1>3. CASE ~(disabled \/ closing) /\ queuedBytes + Size[i] <= Capacity
  <2>1. /\ queue' = Append(queue, i)
        /\ queuedBytes' = queuedBytes + Size[i]
        /\ accepted' = Append(accepted, i)
        /\ UNCHANGED << undelivered, rejected, late, active, closing, abandoned,
                        disabled, result, failures, begun, confirmed, emitted,
                        worker, item, opLock, session, run >>
        /\ i \notin Offered
    BY <1>3 DEF Enqueue, TypeOK
  <2>2. queue \in Seq(Items) /\ accepted \in Seq(Items)
    BY DEF TypeOK
  <2>3. Waiting' = Waiting \cup {i}
    BY <2>1, <2>2, AppendMembers DEF Waiting
  <2>4. Members(accepted)' = Members(accepted) \cup {i}
    BY <2>1, <2>2, AppendMembers
  <2>5. ~result
    BY <1>3 DEF ClosedInv, ProtocolInv
  <2>6. TypeOK'
    <3>1. queuedBytes' \in Int
      BY <2>1 DEF TypeOK
    <3>2. queue' \in Seq(Items) /\ accepted' \in Seq(Items)
      BY <2>1, <2>2
    <3> QED
      BY <2>1, <3>1, <3>2 DEF TypeOK
  <2>7. ProtocolInv' /\ ClosedInv'
    BY <2>1 DEF ProtocolInv, ClosedInv
  <2>8. i \notin Waiting \cup InFlight \cup confirmed \cup failures
                 \cup undelivered \cup rejected
    BY <2>1 DEF Offered, HoldingInv, ProtocolInv, LossAccounted, InFlight
  <2>9. \A j, k \in DOMAIN queue' : j # k => queue'[j] # queue'[k]
    <3>1. \A k \in DOMAIN queue : queue[k] # i
      BY <2>8 DEF Waiting, Members
    <3>2. /\ \A k \in DOMAIN queue : queue'[k] = queue[k]
          /\ queue'[Len(queue) + 1] = i
          /\ DOMAIN queue' = DOMAIN queue \cup {Len(queue) + 1}
      BY <2>1, <2>2, AppendMembers
    <3> QED
      BY <3>1, <3>2 DEF HoldingInv
  <2>10. HoldingInv'
    BY <2>1, <2>3, <2>4, <2>9 DEF HoldingInv
  <2>11. LossAccounted'
    BY <2>1, <2>3, <2>4, <2>5, <2>8 DEF LossAccounted, InFlight
  <2> QED
    BY <2>6, <2>7, <2>10, <2>11
<1> QED
  BY <1>1, <1>2, <1>3, SMTT(30) DEF TypeOK

-----------------------------------------------------------------------------
\* A step that moves no item leaves the accounting alone.
LEMMA FrameAccounting ==
    ASSUME LossAccounted,
           UNCHANGED << queue, active, result, failures, undelivered, rejected,
                        accepted, confirmed >>
    PROVE  LossAccounted'
  BY DEF LossAccounted, Waiting, InFlight, Members

\* A step that moves no item and keeps the worker busy, or idle, leaves what it
\* holds alone.
LEMMA FrameHolding ==
    ASSUME HoldingInv,
           UNCHANGED << queue, active, abandoned, failures, undelivered,
                        rejected, accepted, confirmed, item >>,
           (worker \in {"next", "exited"}) <=> (worker' \in {"next", "exited"})
    PROVE  HoldingInv'
  BY DEF HoldingInv, Waiting, Members

\* Taking the oldest item moves it from the queue into the worker's hands.
LEMMA TakeNextStep ==
    ASSUME IInv, TakeNext
    PROVE  IInv'
<1> USE DEF IInv
<1>1. /\ worker = "next" /\ ~abandoned /\ queue # << >>
      /\ item' = Head(queue) /\ active' = Head(queue) /\ queue' = Tail(queue)
      /\ queuedBytes' = queuedBytes - Size[Head(queue)]
      /\ worker' = "acquire"
      /\ UNCHANGED << closing, abandoned, disabled, result, failures,
                      undelivered, rejected, late, accepted, begun, confirmed,
                      emitted, opLock, session, run >>
  BY DEF TakeNext, flags, accounting
<1>2. /\ Head(queue) \in Items
      /\ Head(queue) \in Waiting
      /\ Tail(queue) \in Seq(Items)
      /\ Waiting' = Waiting \ {Head(queue)}
      /\ \A j, k \in DOMAIN Tail(queue) : j # k => Tail(queue)[j] # Tail(queue)[k]
  BY <1>1, TailMembers DEF TypeOK, HoldingInv, Waiting
<1>3. active = NoItem /\ InFlight = {} /\ InFlight' = {Head(queue)}
  BY <1>1, <1>2, DeliveryAssumption DEF HoldingInv, InFlight
<1>4. TypeOK'
  <2>1. queuedBytes' \in Int
    BY <1>1, <1>2, DeliveryAssumption DEF TypeOK
  <2> QED
    BY <1>1, <1>2, <2>1 DEF TypeOK, WorkerStates
<1>5. ProtocolInv' /\ ClosedInv'
  BY <1>1 DEF ProtocolInv, ClosedInv
<1>6. Members(accepted)' = Members(accepted)
  BY <1>1
<1>7. HoldingInv'
  BY <1>1, <1>2, <1>3, <1>6, DeliveryAssumption DEF HoldingInv, LossAccounted
<1>8. ~result
  BY <1>1 DEF ProtocolInv
<1>9. LossAccounted'
  BY <1>1, <1>2, <1>3, <1>6, <1>8 DEF LossAccounted
<1> QED
  BY <1>4, <1>5, <1>7, <1>9

\* The steps of the worker thread preserve the invariant.
LEMMA WorkerStep ==
    ASSUME IInv, Worker \/ DestinationReturns
    PROVE  IInv'
<1> USE DeliveryAssumption
<1> USE DEF IInv, flags, accounting, queueVars
<1>1. CASE TakeNext
  BY <1>1, TakeNextStep
<1>2. CASE WorkerStops
  <2> USE <1>2 DEF WorkerStops
  <2>1. TypeOK' /\ ProtocolInv' /\ ClosedInv'
    BY DEF TypeOK, ProtocolInv, ClosedInv, WorkerStates
  <2> QED
    BY <2>1, FrameAccounting, FrameHolding
<1>3. CASE AcquireOperation
  <2> USE <1>3 DEF AcquireOperation
  <2>1. TypeOK' /\ ProtocolInv' /\ ClosedInv'
    BY DEF TypeOK, ProtocolInv, ClosedInv, WorkerStates
  <2> QED
    BY <2>1, FrameAccounting, FrameHolding
<1>4. CASE CheckAbandoned
  <2> USE <1>4 DEF CheckAbandoned
  <2>1. TypeOK' /\ ProtocolInv' /\ ClosedInv'
    BY DEF TypeOK, ProtocolInv, ClosedInv, WorkerStates
  <2> QED
    BY <2>1, FrameAccounting, FrameHolding
<1>5. CASE BeginWrite
  <2> USE <1>5 DEF BeginWrite
  <2>1. begun' \in Seq(Items)
    BY DEF TypeOK, HoldingInv
  <2>2. TypeOK' /\ ProtocolInv' /\ ClosedInv'
    BY <2>1 DEF TypeOK, ProtocolInv, ClosedInv, WorkerStates
  <2> QED
    BY <2>2, FrameAccounting, FrameHolding
<1>6. CASE DestinationReturns
  <2> USE <1>6 DEF DestinationReturns
  <2>1. TypeOK' /\ ProtocolInv' /\ ClosedInv'
    BY DEF TypeOK, ProtocolInv, ClosedInv, WorkerStates
  <2> QED
    BY <2>1, FrameAccounting, FrameHolding
<1>7. CASE SettleReturned
  <2> USE <1>7 DEF SettleReturned
  <2>1. TypeOK' /\ ProtocolInv' /\ ClosedInv'
    BY DEF TypeOK, ProtocolInv, ClosedInv, WorkerStates, HoldingInv
  <2> Waiting' = Waiting /\ Members(accepted)' = Members(accepted)
    BY DEF Waiting, Members
  <2>2. HoldingInv'
    BY DEF HoldingInv
  <2>3. LossAccounted'
    BY DEF LossAccounted, InFlight, HoldingInv, ProtocolInv
  <2> QED
    BY <2>1, <2>2, <2>3
<1>8. CASE SettleRaised /\ abandoned
  <2> USE <1>8 DEF SettleRaised
  <2>1. TypeOK' /\ ProtocolInv' /\ ClosedInv'
    BY DEF TypeOK, ProtocolInv, ClosedInv, WorkerStates
  <2> Waiting' = Waiting /\ Members(accepted)' = Members(accepted)
    BY DEF Waiting, Members
  <2>2. HoldingInv'
    BY DEF HoldingInv
  <2> QED
    BY <2>1, <2>2, FrameAccounting
<1>9. CASE SettleRaised /\ ~abandoned
  <2> USE <1>9 DEF SettleRaised, DiscardQueued
  <2>1. Waiting' = {} /\ Members(accepted)' = Members(accepted)
    BY EmptyMembers DEF Waiting
  <2>2. Waiting \subseteq Items /\ undelivered' = undelivered \cup Waiting
    BY DEF Waiting, Members, TypeOK
  <2>3. queue' \in Seq(Items) /\ DOMAIN queue' = {}
    BY EmptyMembers
  <2>4. TypeOK' /\ ProtocolInv' /\ ClosedInv'
    BY <2>2, <2>3 DEF TypeOK, ProtocolInv, ClosedInv, WorkerStates, HoldingInv
  <2>5. item # NoItem /\ item = active /\ ~result
    BY DEF HoldingInv, ProtocolInv
  <2>6. HoldingInv'
    BY <2>1, <2>2, <2>3, <2>5 DEF HoldingInv
  <2>7. LossAccounted'
    BY <2>1, <2>2, <2>5 DEF LossAccounted, InFlight
  <2> QED
    BY <2>4, <2>6, <2>7
<1> QED
  BY <1>1, <1>2, <1>3, <1>4, <1>5, <1>6, <1>7, <1>8, <1>9 DEF Worker

\* Building the close result empties the queue and the worker's hands into the
\* report.
LEMMA CloseReportsStep ==
    ASSUME IInv, CloseReports
    PROVE  IInv'
<1> USE DeliveryAssumption
<1> USE DEF IInv, CloseReports, DiscardQueued
<1>1. Waiting' = {} /\ InFlight' = {} /\ Members(accepted)' = Members(accepted)
  BY EmptyMembers DEF Waiting, InFlight
<1>2. /\ Waiting \subseteq Items
      /\ InFlight \subseteq Items
      /\ undelivered' = undelivered \cup Waiting \cup InFlight
  BY DEF Waiting, InFlight, Members, TypeOK
<1>3. queue' \in Seq(Items) /\ DOMAIN queue' = {}
  BY EmptyMembers
<1>4. ~result /\ ~abandoned /\ active = item
  BY DEF ProtocolInv, HoldingInv
<1>5. TypeOK'
  BY <1>2, <1>3 DEF TypeOK, RunStates
<1>6. ProtocolInv' /\ ClosedInv'
  BY <1>4 DEF ProtocolInv, HoldingInv, ClosedInv
<1>7. HoldingInv'
  BY <1>1, <1>2, <1>3, <1>4 DEF HoldingInv, InFlight
<1>8. LossAccounted'
  BY <1>1, <1>2, <1>4 DEF LossAccounted
<1> QED
  BY <1>5, <1>6, <1>7, <1>8

\* The other steps of the teardown and of the finalizer preserve the invariant.
LEMMA TeardownStep ==
    ASSUME IInv,
           \/ CloseBegins \/ Teardown \/ CloseAgain \/ FinalizerNotStarted
           \/ FinalizerAcquires \/ FinalizerCloses
    PROVE  IInv'
<1> USE DEF IInv, flags, accounting, queueVars
<1>1. CASE CloseReports
  BY <1>1, CloseReportsStep
<1>2. ASSUME \/ CloseBegins \/ TakeResult \/ TakeSession \/ SessionWaitEnds
             \/ CloseAgain \/ FinalizerNotStarted
             \/ FinalizerAcquires \/ FinalizerCloses
      PROVE  IInv'
  <2> USE DEF CloseBegins, TakeResult, TakeSession, SessionWaitEnds, CloseAgain,
              FinalizerNotStarted, FinalizerAcquires, FinalizerCloses
  <2>1. TypeOK'
    <3>1. /\ emitted' \in Nat
          /\ run' \in RunStates
          /\ session' \in {"open", "taken", "closing", "closed", "closeFailed"}
          /\ opLock' \in {"free", "worker", "finalizer"}
      BY <1>2 DEF TypeOK, RunStates
    <3>2. /\ closing' \in BOOLEAN
          /\ UNCHANGED << queue, queuedBytes, active, abandoned, disabled,
                          result, failures, undelivered, rejected, late,
                          accepted, begun, confirmed, worker, item >>
      BY <1>2 DEF TypeOK
    <3> QED
      BY <3>1, <3>2 DEF TypeOK
  <2>2. ProtocolInv' /\ ClosedInv'
    BY <1>2 DEF ProtocolInv, ClosedInv, TypeOK
  <2>3. HoldingInv'
    BY <1>2, FrameHolding
  <2>4. LossAccounted'
    BY <1>2, FrameAccounting
  <2> QED
    BY <2>1, <2>2, <2>3, <2>4
<1> QED
  BY <1>1, <1>2 DEF Teardown

-----------------------------------------------------------------------------
\* The invariant holds in every reachable state of bounded delivery.
THEOREM Invariance == Spec => []IInv
<1>1. IInv /\ [Next]_vars => IInv'
  <2> SUFFICES ASSUME IInv, [Next]_vars PROVE IInv'
    OBVIOUS
  <2>1. CASE Next
    BY <2>1, EnqueueStep, WorkerStep, TeardownStep DEF Next
  <2>2. CASE UNCHANGED vars
    <3> USE <2>2 DEF vars, queueVars, flags, accounting, IInv
    <3>1. TypeOK' /\ ProtocolInv' /\ ClosedInv'
      BY DEF TypeOK, ProtocolInv, ClosedInv
    <3> QED
      BY <3>1, FrameHolding, FrameAccounting
  <2> QED
    BY <2>1, <2>2
<1> QED
  BY InitIInv, <1>1, PTL DEF Spec

\* Type correctness of bounded delivery.
THEOREM TypeCorrect == Spec => []TypeOK
<1>1. IInv => TypeOK
  BY DEF IInv
<1> QED
  BY Invariance, <1>1, PTL

\* No accepted chunk is ever lost without being reported.
THEOREM NothingLostSilently == Spec => []LossAccounted
<1>1. IInv => LossAccounted
  BY DEF IInv
<1> QED
  BY Invariance, <1>1, PTL

\* The closing frame of the session neither races nor precedes a write.
THEOREM ClosingFrameIsLast == Spec => []ClosingFrameLast
<1>1. IInv => ClosingFrameLast
  BY DEF IInv, ProtocolInv, ClosingFrameLast, TypeOK
<1> QED
  BY Invariance, <1>1, PTL

\* Nothing is lost without being reported, and no write follows the closing
\* frame.
THEOREM DeliveryIsAccounted == Spec => []DeliveryAccounted
BY NothingLostSilently, ClosingFrameIsLast, PTL DEF DeliveryAccounted

-----------------------------------------------------------------------------
(***************************************************************************)
(* Order.  WritesArePrefix is not inductive: which item is written next is *)
(* known only from where every accepted item is.  OrderInv says that the   *)
(* writes begun, then the item in the worker's hands, then the queue are   *)
(* the accepted items in their order, until a failure or the close discards*)
(* the queue, and that nothing is queued after that.                       *)
(***************************************************************************)

\* The worker holds an item whose write it has not begun.
Unwritten == worker \in {"acquire", "check", "write"}

\* How many accepted items have left the queue towards a write.
Left == IF Unwritten THEN Len(begun) + 1 ELSE Len(begun)

OrderInv ==
    /\ \A k \in 1..Len(begun) : begun[k] = accepted[k]
    /\ Left <= Len(accepted)
    /\ Unwritten => item = accepted[Len(begun) + 1]
    /\ disabled \/ result => queue = << >>
    /\ ~(disabled \/ result) =>
          /\ Len(accepted) = Left + Len(queue)
          /\ \A k \in 1..Len(queue) : queue[k] = accepted[Left + k]

\* A step that moves no item leaves the order alone.
LEMMA FrameOrder ==
    ASSUME OrderInv,
           UNCHANGED << queue, accepted, begun, item, disabled, result >>,
           Unwritten' <=> Unwritten
    PROVE  OrderInv'
<1>1. Left' = Left
  BY DEF Left
<1> QED
  BY <1>1 DEF OrderInv

\* Offering a chunk extends the order at its end.
LEMMA EnqueueOrder ==
    ASSUME IInv, OrderInv, NEW i \in Items, Enqueue(i)
    PROVE  OrderInv'
<1>1. CASE UNCHANGED << queue, accepted >>
  BY <1>1, FrameOrder DEF Enqueue, flags, Unwritten
<1>2. CASE /\ ~(disabled \/ closing)
           /\ queue' = Append(queue, i) /\ accepted' = Append(accepted, i)
  <2>1. queue \in Seq(Items) /\ accepted \in Seq(Items) /\ begun \in Seq(Items)
    BY DEF IInv, TypeOK
  <2>2. ~(disabled \/ result) /\ ~(disabled' \/ result')
    BY <1>2 DEF Enqueue, IInv, ClosedInv, ProtocolInv, flags
  <2>3. /\ UNCHANGED << begun, item, worker >> /\ Left' = Left
    BY DEF Enqueue, Left, Unwritten
  <2>4. Left \in Nat /\ Len(begun) \in Nat /\ Len(begun) <= Left
    BY <2>1 DEF Left
  <2>5. /\ Len(queue') = Len(queue) + 1 /\ Len(accepted') = Len(accepted) + 1
        /\ \A k \in 1..Len(queue) : queue'[k] = queue[k]
        /\ \A k \in 1..Len(accepted) : accepted'[k] = accepted[k]
        /\ queue'[Len(queue) + 1] = i /\ accepted'[Len(accepted) + 1] = i
        /\ Len(queue) \in Nat /\ Len(accepted) \in Nat
    BY <1>2, <2>1
  <2>6. /\ Len(accepted) = Left + Len(queue)
        /\ \A k \in 1..Len(queue) : queue[k] = accepted[Left + k]
    BY <2>2 DEF OrderInv
  <2>7. \A k \in 1..Len(queue') : queue'[k] = accepted'[Left + k]
    <3> SUFFICES ASSUME NEW k \in 1..Len(queue')
                 PROVE  queue'[k] = accepted'[Left + k]
      OBVIOUS
    <3>1. CASE k = Len(queue) + 1
      BY <3>1, <2>4, <2>5, <2>6
    <3>2. CASE k \in 1..Len(queue)
      BY <3>2, <2>4, <2>5, <2>6
    <3> QED
      BY <3>1, <3>2, <2>5
  <2>8. \A k \in 1..Len(begun) : begun[k] = accepted'[k]
    BY <2>4, <2>5, <2>6 DEF OrderInv
  <2>9. Unwritten => item = accepted'[Len(begun) + 1]
    BY <2>4, <2>5, <2>6 DEF OrderInv, Left
  <2>10. Len(accepted') = Left + Len(queue') /\ Left <= Len(accepted')
    BY <2>4, <2>5, <2>6
  <2>11. Unwritten' <=> Unwritten
    BY <2>3 DEF Unwritten
  <2> QED
    BY <2>2, <2>3, <2>7, <2>8, <2>9, <2>10, <2>11 DEF OrderInv
<1> QED
  BY <1>1, <1>2 DEF Enqueue, queueVars

\* The item taken is the oldest one that was accepted and not yet taken.
LEMMA TakeNextOrder ==
    ASSUME IInv, OrderInv, TakeNext
    PROVE  OrderInv'
<1>1. queue \in Seq(Items) /\ accepted \in Seq(Items) /\ begun \in Seq(Items)
  BY DEF IInv, TypeOK
<1>2. /\ worker = "next" /\ worker' = "acquire" /\ queue # << >>
      /\ item' = Head(queue) /\ queue' = Tail(queue)
      /\ UNCHANGED << accepted, begun, disabled, result >>
  BY DEF TakeNext, flags, accounting
<1>3. /\ Len(queue) \in Nat \ {0} /\ Head(queue) = queue[1]
      /\ Len(Tail(queue)) = Len(queue) - 1
      /\ \A k \in 1..(Len(queue) - 1) : Tail(queue)[k] = queue[k + 1]
      /\ Len(begun) \in Nat
  BY <1>1, <1>2
<1>4. ~(disabled \/ result)
  BY <1>2 DEF OrderInv
<1>5. Left = Len(begun) /\ Left' = Len(begun) + 1 /\ Unwritten'
  BY <1>2 DEF Left, Unwritten
<1>6. /\ Len(accepted) = Len(begun) + Len(queue)
      /\ \A k \in 1..Len(queue) : queue[k] = accepted[Len(begun) + k]
  BY <1>4, <1>5 DEF OrderInv
<1>7. item' = accepted[Len(begun) + 1]
  BY <1>2, <1>3, <1>6
<1>8. \A k \in 1..(Len(queue) - 1) : Tail(queue)[k] = accepted[(Len(begun) + 1) + k]
  <2> SUFFICES ASSUME NEW k \in 1..(Len(queue) - 1)
               PROVE  Tail(queue)[k] = accepted[(Len(begun) + 1) + k]
    OBVIOUS
  <2>1. k + 1 \in 1..Len(queue) /\ Len(begun) + (k + 1) = (Len(begun) + 1) + k
    BY <1>3
  <2> QED
    BY <2>1, <1>3, <1>6
<1>9. Len(accepted) = (Len(begun) + 1) + (Len(queue) - 1) /\ Len(begun) + 1 <= Len(accepted)
  BY <1>3, <1>6
<1> QED
  BY <1>2, <1>3, <1>4, <1>5, <1>7, <1>8, <1>9 DEF OrderInv

\* A write is begun for the item that is next in the order.
LEMMA BeginWriteOrder ==
    ASSUME IInv, OrderInv, BeginWrite
    PROVE  OrderInv'
<1>1. queue \in Seq(Items) /\ accepted \in Seq(Items) /\ begun \in Seq(Items)
  BY DEF IInv, TypeOK
<1>2. /\ worker = "write" /\ worker' = "writing" /\ begun' = Append(begun, item)
      /\ UNCHANGED << queue, accepted, item, disabled, result >>
  BY DEF BeginWrite, flags, queueVars
<1>3. item \in Items
  BY <1>2 DEF IInv, HoldingInv, TypeOK
<1>4. /\ Len(begun') = Len(begun) + 1 /\ Len(begun) \in Nat
      /\ \A k \in 1..Len(begun) : begun'[k] = begun[k]
      /\ begun'[Len(begun) + 1] = item
  BY <1>1, <1>2, <1>3
<1>5. Unwritten /\ ~Unwritten' /\ Left' = Left
  BY <1>2, <1>4 DEF Unwritten, Left
<1>6. item = accepted[Len(begun) + 1]
  BY <1>5 DEF OrderInv
<1>7. \A k \in 1..Len(begun') : begun'[k] = accepted[k]
  <2> SUFFICES ASSUME NEW k \in 1..Len(begun') PROVE begun'[k] = accepted[k]
    OBVIOUS
  <2>1. CASE k = Len(begun) + 1
    BY <2>1, <1>4, <1>6
  <2>2. CASE k \in 1..Len(begun)
    BY <2>2, <1>4 DEF OrderInv
  <2> QED
    BY <2>1, <2>2, <1>4
<1> QED
  BY <1>2, <1>5, <1>7 DEF OrderInv

\* Every step keeps the order.
LEMMA OrderStep == IInv /\ OrderInv /\ [Next]_vars => OrderInv'
<1> SUFFICES ASSUME IInv, OrderInv, [Next]_vars PROVE OrderInv'
  OBVIOUS
<1>1. ASSUME NEW i \in Items, Enqueue(i) PROVE OrderInv'
  BY <1>1, EnqueueOrder
<1>2. CASE TakeNext
  BY <1>2, TakeNextOrder
<1>3. CASE BeginWrite
  BY <1>3, BeginWriteOrder
<1>4. CASE WorkerStops \/ AcquireOperation \/ DestinationReturns \/ CloseBegins
           \/ TakeResult \/ TakeSession \/ SessionWaitEnds \/ CloseAgain
           \/ FinalizerNotStarted \/ FinalizerAcquires \/ FinalizerCloses
  <2>1. UNCHANGED << queue, accepted, begun, item, disabled, result >>
    BY <1>4 DEF WorkerStops, AcquireOperation, DestinationReturns, CloseBegins,
                TakeResult, TakeSession, SessionWaitEnds, CloseAgain,
                FinalizerNotStarted, FinalizerAcquires, FinalizerCloses,
                flags, accounting, queueVars
  <2>2. Unwritten' <=> Unwritten
    BY <1>4 DEF WorkerStops, AcquireOperation, DestinationReturns, CloseBegins,
                TakeResult, TakeSession, SessionWaitEnds, CloseAgain,
                FinalizerNotStarted, FinalizerAcquires, FinalizerCloses, Unwritten
  <2> QED
    BY <2>1, <2>2, FrameOrder
<1>5. CASE CheckAbandoned
  <2>1. UNCHANGED << queue, accepted, begun, item, disabled, result >>
    BY <1>5 DEF CheckAbandoned, flags, accounting, queueVars
  <2>2. CASE ~abandoned
    <3>1. Unwritten' <=> Unwritten
      BY <1>5, <2>2 DEF CheckAbandoned, Unwritten
    <3> QED
      BY <2>1, <3>1, FrameOrder
  <2>3. CASE abandoned
    <3>1. result /\ Unwritten /\ ~Unwritten' /\ begun \in Seq(Items)
      BY <1>5, <2>3 DEF CheckAbandoned, Unwritten, IInv, ProtocolInv, TypeOK
    <3>2. Left = Len(begun) + 1 /\ Left' = Len(begun) /\ Len(begun) \in Nat
          /\ Len(accepted) \in Nat
      BY <2>1, <3>1 DEF Left, IInv, TypeOK
    <3>3. Left' <= Len(accepted)
      BY <3>2 DEF OrderInv
    <3> QED
      BY <2>1, <3>1, <3>3 DEF OrderInv
  <2> QED
    BY <2>2, <2>3
<1>6. CASE SettleReturned \/ SettleRaised \/ CloseReports
  <2>1. UNCHANGED << accepted, begun, worker >> \/ (~Unwritten /\ ~Unwritten' /\ UNCHANGED << accepted, begun >>)
    BY <1>6 DEF SettleReturned, SettleRaised, CloseReports, Unwritten
  <2>2. UNCHANGED << accepted, begun >> /\ (Unwritten' <=> Unwritten) /\ Left' = Left
    BY <2>1 DEF Unwritten, Left
  <2>3. Unwritten => item' = item
    BY <1>6 DEF SettleReturned, SettleRaised, CloseReports, Unwritten
  <2>4. \/ UNCHANGED << queue, disabled, result >>
        \/ queue' = << >> /\ (disabled' \/ result')
    BY <1>6 DEF SettleReturned, SettleRaised, CloseReports, DiscardQueued, flags, queueVars
  <2> QED
    BY <2>2, <2>3, <2>4 DEF OrderInv
<1>7. CASE UNCHANGED vars
  BY <1>7, FrameOrder DEF vars, queueVars, accounting, flags, Unwritten
<1> QED
  BY <1>1, <1>2, <1>3, <1>4, <1>5, <1>6, <1>7 DEF Next, Worker, Teardown

\* For every set of chunks and every capacity the writes begun are a prefix of
\* the chunks accepted, whatever a failure, the close or the abandonment of the
\* worker cut off.
THEOREM WritesInOrder == Spec => []WritesArePrefix
<1>1. Init => OrderInv
  BY DEF Init, OrderInv, Unwritten, Left
<1>2. IInv /\ OrderInv => WritesArePrefix
  <2> SUFFICES ASSUME IInv, OrderInv PROVE WritesArePrefix
    OBVIOUS
  <2>1. accepted \in Seq(Items) /\ begun \in Seq(Items)
    BY DEF IInv, TypeOK
  <2>2. Len(begun) \in Nat /\ Len(accepted) \in Nat /\ Len(begun) <= Len(accepted)
    BY <2>1 DEF OrderInv, Left
  <2>3. /\ SubSeq(accepted, 1, Len(begun)) \in Seq(Items)
        /\ Len(SubSeq(accepted, 1, Len(begun))) = Len(begun)
        /\ \A k \in 1..Len(begun) : SubSeq(accepted, 1, Len(begun))[k] = accepted[k]
    BY <2>1, <2>2
  <2> QED
    BY <2>1, <2>3 DEF WritesArePrefix, OrderInv
<1> QED
  BY <1>1, <1>2, OrderStep, Invariance, PTL DEF Spec

-----------------------------------------------------------------------------
\* One step keeps what close reported.
LEMMA FinalStep ==
    ASSUME IInv, Next, result
    PROVE  /\ failures' = failures /\ confirmed' = confirmed
           /\ undelivered' \subseteq undelivered \cup late'
<1> USE DEF IInv, flags, accounting, queueVars
<1>1. CASE \E i \in Items : Enqueue(i)
  BY <1>1 DEF Enqueue
<1>2. CASE SettleReturned \/ SettleRaised
  BY <1>2 DEF SettleReturned, SettleRaised, ProtocolInv
<1>3. CASE CloseReports
  BY <1>3 DEF CloseReports, ProtocolInv
<1>4. CASE TakeNext \/ WorkerStops \/ AcquireOperation \/ CheckAbandoned \/ BeginWrite
  BY <1>4 DEF TakeNext, WorkerStops, AcquireOperation, CheckAbandoned, BeginWrite
<1>5. CASE DestinationReturns \/ CloseBegins \/ TakeResult \/ TakeSession
           \/ SessionWaitEnds \/ CloseAgain \/ FinalizerNotStarted
           \/ FinalizerAcquires \/ FinalizerCloses
  BY <1>5 DEF DestinationReturns, CloseBegins, TakeResult, TakeSession,
              SessionWaitEnds, CloseAgain, FinalizerNotStarted,
              FinalizerAcquires, FinalizerCloses
<1> QED
  BY <1>1, <1>2, <1>3, <1>4, <1>5 DEF Next, Worker, Teardown

\* What close reported stays true: the late return of an abandoned write
\* neither confirms it nor adds a failure, and only later offers add to the
\* loss.
THEOREM ReportStaysTrue == Spec => ReportIsFinal
<1>1. IInv /\ [Next]_vars =>
        [result => /\ failures' = failures
                   /\ confirmed' = confirmed
                   /\ undelivered' \subseteq undelivered \cup late']_vars
  BY FinalStep
<1> QED
  BY <1>1, Invariance, PTL DEF Spec, ReportIsFinal

\* The close diagnostics are published once, however often the run closes its
\* worker.
THEOREM PublishedOnce == Spec => []ReportedOnce
<1>1. Init => emitted \in Nat /\ ReportedOnce
  BY DEF Init, ReportedOnce
<1>2. (emitted \in Nat /\ ReportedOnce) /\ [Next]_vars => (emitted \in Nat /\ ReportedOnce)'
  <2> SUFFICES ASSUME emitted \in Nat, ReportedOnce, [Next]_vars
               PROVE  emitted' \in Nat /\ emitted' <= 1
    BY DEF ReportedOnce
  <2>1. emitted' = emitted \/ emitted' = IF emitted = 0 THEN 1 ELSE emitted
    BY DEF Next, Worker, Teardown, vars, Enqueue, TakeNext, WorkerStops,
           AcquireOperation, CheckAbandoned, BeginWrite, SettleReturned,
           SettleRaised, DestinationReturns, CloseBegins, CloseReports,
           TakeResult, TakeSession, SessionWaitEnds, CloseAgain,
           FinalizerNotStarted, FinalizerAcquires, FinalizerCloses
  <2> QED
    BY <2>1 DEF ReportedOnce
<1> QED
  BY <1>1, <1>2, PTL DEF Spec

-----------------------------------------------------------------------------
\* Running totals over the queue, which never decrease: a total can be given
\* up at its head as well as extended at its end.
IsTotal(total, q, n, bytes) ==
    /\ total \in [0..n -> 0..Capacity]
    /\ total[0] = 0
    /\ \A k \in 1..n : total[k] = total[k - 1] + Size[q[k]]
    /\ \A j, k \in 0..n : j <= k => total[j] <= total[k]
    /\ bytes = total[n]

BytesInv == \E total \in [0..Len(queue) -> 0..Capacity] :
                IsTotal(total, queue, Len(queue), queuedBytes)

\* The queue that is empty weighs nothing.
LEMMA EmptyBytes ==
    \E total \in [0..Len(<< >>) -> 0..Capacity] :
        IsTotal(total, << >>, Len(<< >>), 0)
<1>1. Len(<< >>) = 0 /\ 0 \in 0..Capacity
  BY DeliveryAssumption
<1>2. [k \in 0..0 |-> 0] \in [0..0 -> 0..Capacity]
  BY <1>1
<1>3. IsTotal([k \in 0..0 |-> 0], << >>, 0, 0)
  BY <1>1, <1>2 DEF IsTotal
<1> QED
  BY <1>1, <1>2, <1>3

\* A chunk that fits is counted.
LEMMA AppendBytes ==
    ASSUME NEW q \in Seq(Items), NEW i \in Items, NEW b \in Int,
           b + Size[i] <= Capacity,
           NEW total \in [0..Len(q) -> 0..Capacity],
           IsTotal(total, q, Len(q), b)
    PROVE  \E t \in [0..Len(Append(q, i)) -> 0..Capacity] :
               IsTotal(t, Append(q, i), Len(Append(q, i)), b + Size[i])
<1> DEFINE n == Len(q)
           r == Append(q, i)
           t == [k \in 0..(n + 1) |-> IF k = n + 1 THEN b + Size[i] ELSE total[k]]
<1>1. n \in Nat /\ Len(r) = n + 1 /\ Size[i] \in Nat /\ Capacity \in Nat
  BY DeliveryAssumption
<1>2. r[n + 1] = i /\ \A k \in 1..n : r[k] = q[k]
  OBVIOUS
<1>3. /\ \A k \in 0..n : total[k] \in 0..Capacity /\ total[k] <= b
      /\ total[0] = 0 /\ b = total[n]
  BY <1>1 DEF IsTotal
<1>4. b + Size[i] \in 0..Capacity
  BY <1>1, <1>3
<1>5. /\ \A k \in 0..n : t[k] = total[k]
      /\ t[n + 1] = b + Size[i]
  BY <1>1
<1>6. t \in [0..(n + 1) -> 0..Capacity]
  BY <1>1, <1>3, <1>4
<1> HIDE DEF n, r, t
<1>7. \A k \in 1..(n + 1) : t[k] = t[k - 1] + Size[r[k]]
  <2> SUFFICES ASSUME NEW k \in 1..(n + 1) PROVE t[k] = t[k - 1] + Size[r[k]]
    OBVIOUS
  <2>1. CASE k = n + 1
    BY <2>1, <1>1, <1>2, <1>3, <1>5
  <2>2. CASE k \in 1..n
    <3>1. total[k] = total[k - 1] + Size[q[k]]
      BY <2>2 DEF IsTotal, n
    <3>2. k - 1 \in 0..n /\ k \in 0..n
      BY <2>2, <1>1
    <3> QED
      BY <2>2, <3>1, <3>2, <1>2, <1>5
  <2> QED
    BY <2>1, <2>2, <1>1
<1>8. \A j, k \in 0..(n + 1) : j <= k => t[j] <= t[k]
  <2> SUFFICES ASSUME NEW j \in 0..(n + 1), NEW k \in 0..(n + 1), j <= k
               PROVE  t[j] <= t[k]
    OBVIOUS
  <2>1. CASE k \in 0..n
    <3>1. j \in 0..n
      BY <2>1, <1>1
    <3>2. total[j] <= total[k]
      BY <2>1, <3>1 DEF IsTotal, n
    <3> QED
      BY <2>1, <3>1, <3>2, <1>5
  <2>2. CASE k = n + 1 /\ j \in 0..n
    BY <2>2, <1>1, <1>3, <1>5, SMTT(30)
  <2>3. CASE k = n + 1 /\ j = n + 1
    BY <2>3, <1>1, <1>4, <1>5
  <2> QED
    BY <2>1, <2>2, <2>3, <1>1
<1>9. IsTotal(t, r, n + 1, b + Size[i])
  BY <1>1, <1>3, <1>5, <1>6, <1>7, <1>8 DEF IsTotal
<1> QED
  BY <1>1, <1>6, <1>9 DEF r

\* A chunk that is taken is no longer counted.
LEMMA TailBytes ==
    ASSUME NEW q \in Seq(Items), q # << >>, NEW b \in Int,
           NEW total \in [0..Len(q) -> 0..Capacity],
           IsTotal(total, q, Len(q), b)
    PROVE  \E t \in [0..Len(Tail(q)) -> 0..Capacity] :
               IsTotal(t, Tail(q), Len(Tail(q)), b - Size[Head(q)])
<1> DEFINE n == Len(q)
           r == Tail(q)
           t == [k \in 0..(n - 1) |-> total[k + 1] - total[1]]
<1>1. n \in Nat /\ n >= 1 /\ Len(r) = n - 1 /\ Head(q) = q[1]
  OBVIOUS
<1>2. \A k \in 1..(n - 1) : r[k] = q[k + 1]
  OBVIOUS
<1>3. /\ Capacity \in Nat /\ \A k \in 0..n : total[k] \in 0..Capacity
      /\ \A k \in 1..n : total[1] <= total[k]
      /\ total[1] = Size[q[1]] /\ b = total[n]
  <2>1. q[1] \in Items /\ Size[q[1]] \in Nat /\ Capacity \in Nat
    BY <1>1, DeliveryAssumption
  <2>2. /\ total[0] = 0 /\ b = total[n]
        /\ \A k \in 1..n : total[k] = total[k - 1] + Size[q[k]]
        /\ \A j, k \in 0..n : j <= k => total[j] <= total[k]
    BY <1>1 DEF IsTotal
  <2>3. /\ \A k \in 0..n : total[k] \in 0..Capacity
        /\ total[1] = total[0] + Size[q[1]]
    BY <1>1, <2>2
  <2>4. \A k \in 1..n : total[1] <= total[k]
    BY <1>1, <2>2
  <2> QED
    BY <2>1, <2>2, <2>3, <2>4
<1>4. \A k \in 0..(n - 1) : t[k] = total[k + 1] - total[1]
  OBVIOUS
<1> HIDE DEF n, r
<1>5. \A k \in 0..(n - 1) : total[k + 1] - total[1] \in 0..Capacity
  <2> SUFFICES ASSUME NEW k \in 0..(n - 1)
               PROVE  total[k + 1] - total[1] \in 0..Capacity
    OBVIOUS
  <2>1. k + 1 \in 1..n /\ k + 1 \in 0..n /\ 1 \in 0..n
    BY <1>1
  <2> QED
    BY <2>1, <1>3
<1>6. t \in [0..(n - 1) -> 0..Capacity]
  BY <1>5
<1> HIDE DEF t
<1>7. \A k \in 1..(n - 1) : t[k] = t[k - 1] + Size[r[k]]
  <2> SUFFICES ASSUME NEW k \in 1..(n - 1) PROVE t[k] = t[k - 1] + Size[r[k]]
    OBVIOUS
  <2>1. /\ k + 1 \in 1..n /\ k \in 0..n /\ (k + 1) - 1 = k /\ (k - 1) + 1 = k
        /\ k \in 0..(n - 1) /\ k - 1 \in 0..(n - 1) /\ 1 \in 0..n
        /\ k + 1 \in 0..n
    BY <1>1
  <2>2. total[k + 1] = total[k] + Size[q[k + 1]]
    BY <2>1 DEF IsTotal, n
  <2>3. Size[q[k + 1]] \in Nat
    BY <2>1, DeliveryAssumption DEF n
  <2>4. t[k] = total[k + 1] - total[1] /\ t[k - 1] = total[k] - total[1]
    BY <2>1, <1>4
  <2>5. r[k] = q[k + 1] /\ total[k] \in Int /\ total[1] \in Int
    BY <2>1, <1>2, <1>3
  <2> QED
    BY <2>2, <2>3, <2>4, <2>5
<1>8. \A j, k \in 0..(n - 1) : j <= k => t[j] <= t[k]
  <2> SUFFICES ASSUME NEW j \in 0..(n - 1), NEW k \in 0..(n - 1), j <= k
               PROVE  t[j] <= t[k]
    OBVIOUS
  <2>1. j + 1 \in 0..n /\ k + 1 \in 0..n /\ j + 1 <= k + 1 /\ 1 \in 0..n
    BY <1>1
  <2>2. total[j + 1] <= total[k + 1]
    BY <2>1 DEF IsTotal, n
  <2> QED
    BY <2>1, <2>2, <1>3, <1>4, SMTT(30)
<1>9. IsTotal(t, r, n - 1, b - Size[Head(q)])
  <2>1. 0 \in 0..(n - 1) /\ n - 1 \in 0..(n - 1) /\ (n - 1) + 1 = n /\ 0 + 1 = 1
    BY <1>1
  <2>2. t[0] = 0 /\ t[n - 1] = b - Size[Head(q)]
    BY <2>1, <1>1, <1>3, <1>4
  <2> QED
    BY <2>2, <1>6, <1>7, <1>8 DEF IsTotal
<1> QED
  BY <1>1, <1>6, <1>9 DEF r

\* Every step keeps the count.
LEMMA BytesStep == IInv /\ BytesInv /\ [Next]_vars => BytesInv'
<1> SUFFICES ASSUME IInv, BytesInv, [Next]_vars PROVE BytesInv'
  OBVIOUS
<1>1. queue \in Seq(Items) /\ queuedBytes \in Int
  BY DEF IInv, TypeOK
<1>2. PICK total \in [0..Len(queue) -> 0..Capacity] :
        IsTotal(total, queue, Len(queue), queuedBytes)
  BY DEF BytesInv
<1>3. ASSUME UNCHANGED << queue, queuedBytes >> PROVE BytesInv'
  BY <1>3 DEF BytesInv, IsTotal
<1>4. ASSUME queue' = << >>, queuedBytes' = 0 PROVE BytesInv'
  BY <1>4, EmptyBytes DEF BytesInv
<1>5. ASSUME NEW i \in Items, Enqueue(i) PROVE BytesInv'
  <2>1. CASE UNCHANGED << queue, queuedBytes >>
    BY <2>1, <1>3
  <2>2. CASE /\ queuedBytes + Size[i] <= Capacity
             /\ queue' = Append(queue, i)
             /\ queuedBytes' = queuedBytes + Size[i]
    BY <2>2, <1>1, <1>2, AppendBytes, SMTT(30) DEF BytesInv, IsTotal
  <2> QED
    BY <1>5, <2>1, <2>2 DEF Enqueue, queueVars
<1>6. CASE TakeNext
  <2>1. /\ queue # << >> /\ queue' = Tail(queue)
        /\ queuedBytes' = queuedBytes - Size[Head(queue)]
    BY <1>6 DEF TakeNext
  <2> QED
    BY <2>1, <1>1, <1>2, TailBytes DEF BytesInv, IsTotal
<1>7. CASE SettleReturned \/ SettleRaised \/ CloseReports
  <2>1. \/ UNCHANGED << queue, queuedBytes >>
        \/ queue' = << >> /\ queuedBytes' = 0
    BY <1>7 DEF SettleReturned, SettleRaised, CloseReports, DiscardQueued,
                queueVars
  <2> QED
    BY <2>1, <1>3, <1>4
<1>8. CASE WorkerStops \/ AcquireOperation \/ CheckAbandoned \/ BeginWrite
           \/ DestinationReturns \/ CloseBegins \/ TakeResult \/ TakeSession
           \/ SessionWaitEnds \/ CloseAgain \/ FinalizerNotStarted
           \/ FinalizerAcquires \/ FinalizerCloses \/ UNCHANGED vars
  <2>1. UNCHANGED << queue, queuedBytes >>
    BY <1>8 DEF WorkerStops, AcquireOperation, CheckAbandoned, BeginWrite,
                DestinationReturns, CloseBegins, TakeResult, TakeSession,
                SessionWaitEnds, CloseAgain, FinalizerNotStarted,
                FinalizerAcquires, FinalizerCloses, vars, queueVars
  <2> QED
    BY <2>1, <1>3
<1> QED
  BY <1>5, <1>6, <1>7, <1>8 DEF Next, Worker, Teardown

\* For every set of chunks, sizes and capacity the bytes in the queue are
\* counted exactly and stay within the capacity, through failures, closes and
\* the abandonment of the worker.
THEOREM QueueStaysBounded == Spec => []QueueBounded
<1>1. Init => BytesInv
  BY EmptyBytes DEF Init, BytesInv
<1>2. BytesInv => QueueBounded
  BY DEF BytesInv, IsTotal, QueueBounded
<1> QED
  BY <1>1, <1>2, BytesStep, Invariance, PTL DEF Spec

\* The queue is bounded and first in first out without gaps, and what became
\* of it is reported once.
THEOREM QueueIsDisciplined == Spec => []QueueDiscipline
<1>1. QueueBounded /\ WritesArePrefix /\ ReportedOnce => QueueDiscipline
  BY DEF QueueDiscipline
<1> QED
  BY <1>1, QueueStaysBounded, WritesInOrder, PublishedOnce, PTL
=============================================================================
