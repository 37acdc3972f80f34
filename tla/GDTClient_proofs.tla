--------------------------- MODULE GDTClient_proofs ---------------------------
(***************************************************************************)
(* What holds of a client with any number of streams, conversations and    *)
(* packets while it runs: who holds each stream object, what out and       *)
(* free_on_send say of a payload, and that a conversation ends once.       *)
(* Proved for the order of events that the flags rely on (Calm).           *)
(***************************************************************************)
EXTENDS GDTClient, FiniteSetTheorems, SequenceTheorems, TLAPS

(* An answer is handled after OUT has finished with what it answers, the   *)
(* association is not lost between new_stream() and send(), and the        *)
(* internal queue takes as many payloads as there are.                     *)
Calm == ~Overtake /\ ~MidSend /\ InternalCap \in Nat /\ PoolSize <= InternalCap

(* The inductive invariant.  The fields of in, and where IN is when the    *)
(* client stops.                                                           *)
Stage ==
    /\ in = [pc |-> in.pc, left |-> in.left, goal |-> in.goal]
    /\ in.pc \in {"run", "timed", "poll", "scan", "reconnect", "exit", "gone"}
    /\ in.goal \in Goal
    /\ in.pc = "scan" => in.goal # "none"
    /\ in.pc = "reconnect" => in.goal \in {"queued", "lost"}
    /\ in.pc \in {"exit", "gone"} => Stopping
    /\ Stopping => in.pc \in {"scan", "exit", "gone"}

(* A sequence of stream objects, each of them once. *)
Once(q) == q \in Seq(Streams) /\ IsInjective(q)

(* TypeOK; OUT and APP have a stream in hand, or not, by where they are.   *)
Typed ==
    /\ Once(pool) /\ Once(internal_out_queue) /\ Once(out_queue)
    /\ streams \subseteq Streams /\ strm \in [Streams -> Stream]
    /\ in.left \subseteq streams
    /\ out \in [pc : {"pop", "send", "sent", "free", "clear", "done"},
                s : Streams \cup {NoStream}, lane : {"internal", "external"}]
    /\ out.s = NoStream <=> out.pc \in {"pop", "done"}
    /\ app \in [pc : {"idle", "new", "push"}, s : Streams \cup {NoStream}]
    /\ app.s = NoStream <=> app.pc = "idle"
    /\ {timeout_thread, active, reconnect_queued, stream_timeout_check}
         \subseteq BOOLEAN
    /\ peer \in [Uuid -> {"none"} \cup Answered]
    /\ told \in [Uuid -> {"unused", "open", "ended", "timed out"}]
    /\ recvd \in 0 .. MaxRecv

(* What is queued, and what is queued or being sent.                       *)
InQueue == ToSet(internal_out_queue) \cup ToSet(out_queue)
Under == InQueue \cup {out.s}

(* The holders of the objects. *)
Held ==
    /\ ToSet(internal_out_queue) \cap ToSet(out_queue) = {}
    /\ out.s \notin InQueue
    /\ ToSet(pool) \cap (streams \cup Under) = {}
    /\ app.s \notin Under \ {NoStream} /\ app.s \in streams \cup {NoStream}
    /\ Streams \subseteq ToSet(pool) \cup streams \cup Under

(* out and free_on_send; OUT goes by the value that it has read.           *)
OnItsWay(s) == s \in Under \/ (s = app.s /\ app.pc = "push")
Flagged ==
    /\ \A s \in Streams : strm[s].out <=> s \in streams /\ OnItsWay(s)
    /\ \A s \in Streams :
         OnItsWay(s) => (strm[s].free_on_send <=> s \notin streams)
    /\ out.pc = "free" => out.s \notin streams
    /\ out.pc = "clear" => out.s \in streams

(* Streams are expired only while IN looks for them, and not those that    *)
(* APP is about to send.                                                   *)
Expiry ==
    /\ in.pc # "scan" => in.left = {}
    /\ \A s \in streams : strm[s].expired =>
         in.pc = "scan" /\ s \notin in.left /\ ~strm[s].out /\ s # app.s
    /\ app.pc = "new" => /\ ~strm[app.s].aged
                         /\ in.goal # "check" => app.s \notin in.left

(* A conversation has one stream, which is listed until it is told the     *)
(* end; the peer has something to answer only when nothing is queued.      *)
OneStream == \A s, t \in Streams :
    strm[s].uuid = strm[t].uuid /\ strm[s].uuid # NoUuid => s = t
Begun == \A s \in Streams : strm[s].uuid # NoUuid => told[strm[s].uuid] # "unused"
Unasked == \A u \in Uuid : told[u] = "unused" => peer[u] = "none"
Told(s) == IF strm[s].expired THEN "timed out" ELSE "open"
Listed == \A s \in streams :
    /\ strm[s].uuid # NoUuid
    /\ told[strm[s].uuid] = Told(s)
    /\ peer[strm[s].uuid] # "none" => s \notin InQueue /\ s # app.s

Talks == OneStream /\ Begun /\ Unasked /\ Listed

Working == Typed /\ Held /\ Flagged /\ Expiry /\ Talks

Inv == Stage /\ (Stopping \/ Working)

-----------------------------------------------------------------------------
(* Sequences of stream objects, each of them once.                         *)

LEMMA ElementIs ==
    ASSUME NEW q \in Seq(Streams), NEW s
    PROVE  s \in ToSet(q) <=> \E i \in 1 .. Len(q) : q[i] = s
BY DEF ToSet

LEMMA OnceLen ==
    ASSUME NEW q, Once(q)
    PROVE  Len(q) <= PoolSize
<1>1. q \in [1 .. Len(q) -> Streams] /\ Len(q) \in Nat
  BY DEF Once
<1>2. q \in Injection(1 .. Len(q), Streams)
  BY <1>1 DEF Once, Injection
<1>3. Cardinality(1 .. Len(q)) <= PoolSize
  BY <1>2, FS_Injection, StreamsAssumption DEF PoolSize
<1>4. Cardinality(1 .. Len(q)) = IF 1 > Len(q) THEN 0 ELSE Len(q) - 1 + 1
  BY <1>1, FS_Interval
<1> QED  BY <1>1, <1>3, <1>4

LEMMA OnceConcat ==
    ASSUME NEW p, NEW q, Once(p), Once(q), ToSet(p) \cap ToSet(q) = {}
    PROVE  Once(p \o q) /\ ToSet(p \o q) = ToSet(p) \cup ToSet(q)
<1>1. p \in Seq(Streams) /\ q \in Seq(Streams) /\ p \o q \in Seq(Streams)
  BY DEF Once
<1>2. /\ Len(p) \in Nat /\ Len(q) \in Nat /\ Len(p \o q) = Len(p) + Len(q)
      /\ \A i \in 1 .. Len(p) : (p \o q)[i] = p[i]
      /\ \A i \in 1 .. Len(q) : (p \o q)[Len(p) + i] = q[i]
      /\ \A i \in Len(p) + 1 .. Len(p) + Len(q) : (p \o q)[i] = q[i - Len(p)]
  BY <1>1
<1>3. \A i \in 1 .. Len(p) : p[i] \in ToSet(p)
  BY <1>1, ElementIs
<1>4. \A i \in 1 .. Len(q) : q[i] \in ToSet(q)
  BY <1>1, ElementIs
<1>5. ASSUME NEW i \in 1 .. Len(p \o q), NEW j \in 1 .. Len(p \o q),
             (p \o q)[i] = (p \o q)[j]
      PROVE  i = j
  <2>1. /\ \A a, b \in 1 .. Len(p) : p[a] = p[b] => a = b
        /\ \A a, b \in 1 .. Len(q) : q[a] = q[b] => a = b
    BY <1>1 DEF Once, IsInjective
  <2>2. CASE i <= Len(p) /\ j <= Len(p)
    BY <1>2, <1>5, <2>1, <2>2
  <2>3. CASE i > Len(p) /\ j > Len(p)
    <3>1. /\ i - Len(p) \in 1 .. Len(q) /\ j - Len(p) \in 1 .. Len(q)
          /\ q[i - Len(p)] = q[j - Len(p)]
      BY <1>2, <1>5, <2>3
    <3> QED  BY <1>2, <2>1, <3>1
  <2>4. CASE ~(i <= Len(p) /\ j <= Len(p)) /\ ~(i > Len(p) /\ j > Len(p))
    BY <1>2, <1>3, <1>4, <1>5, <2>4
  <2> QED  BY <1>2, <2>2, <2>3, <2>4
<1>6. IsInjective(p \o q)
  BY <1>1, <1>5 DEF IsInjective
<1>7. ASSUME NEW s PROVE s \in ToSet(p \o q) <=> s \in ToSet(p) \cup ToSet(q)
  <2>1. ASSUME s \in ToSet(p \o q) PROVE s \in ToSet(p) \cup ToSet(q)
    <3>1. PICK i \in 1 .. Len(p \o q) : (p \o q)[i] = s
      BY <1>1, <2>1, ElementIs
    <3>2. CASE i <= Len(p)
      BY <1>2, <1>3, <3>1, <3>2
    <3>3. CASE i > Len(p)
      <4>1. i - Len(p) \in 1 .. Len(q) /\ q[i - Len(p)] = s
        BY <1>2, <3>1, <3>3
      <4> QED  BY <1>4, <4>1
    <3> QED  BY <1>2, <3>1, <3>2, <3>3
  <2>2. ASSUME s \in ToSet(p) PROVE s \in ToSet(p \o q)
    <3>1. PICK i \in 1 .. Len(p) : p[i] = s
      BY <1>1, <2>2, ElementIs
    <3>2. i \in 1 .. Len(p \o q) /\ (p \o q)[i] = s
      BY <1>2, <3>1
    <3> QED  BY <1>1, <3>2, ElementIs
  <2>3. ASSUME s \in ToSet(q) PROVE s \in ToSet(p \o q)
    <3>1. PICK i \in 1 .. Len(q) : q[i] = s
      BY <1>1, <2>3, ElementIs
    <3>2. Len(p) + i \in 1 .. Len(p \o q) /\ (p \o q)[Len(p) + i] = s
      BY <1>2, <3>1
    <3> QED  BY <1>1, <3>2, ElementIs
  <2> QED  BY <2>1, <2>2, <2>3
<1> QED  BY <1>1, <1>6, <1>7 DEF Once

LEMMA OnceIn == ASSUME NEW q, Once(q) PROVE ToSet(q) \subseteq Streams
BY ElementIs, ElementOfSeq DEF Once

LEMMA OnceOne == ASSUME NEW s \in Streams PROVE Once(<<s>>) /\ ToSet(<<s>>) = {s}
<1>1. /\ <<s>> \in Seq(Streams) /\ Len(<<s>>) = 1 /\ DOMAIN <<s>> = {1}
      /\ <<s>>[1] = s
  OBVIOUS
<1> QED  BY <1>1 DEF Once, IsInjective, ToSet

LEMMA OnceEmpty == Once(<<>>) /\ ToSet(<<>>) = {}
BY DEF Once, IsInjective, ToSet

(* What push() does when the queue has room for every object. *)
LEMMA PushedIs ==
    ASSUME NEW q, NEW cap \in Nat, NEW s \in Streams,
           Once(q), s \notin ToSet(q), PoolSize <= cap
    PROVE  /\ Once(Pushed(q, cap, s))
           /\ ToSet(Pushed(q, cap, s)) = ToSet(q) \cup {s}
<1>1. q \in Seq(Streams) /\ Len(q) \in Nat /\ Append(q, s) = q \o <<s>>
  BY DEF Once
<1>2. Once(q \o <<s>>) /\ ToSet(q \o <<s>>) = ToSet(q) \cup {s}
  BY OnceConcat, OnceOne
<1>3. Len(q \o <<s>>) = Len(q) + 1 /\ Len(q \o <<s>>) <= PoolSize
  <2>1. Len(q \o <<s>>) = Len(q) + 1
    BY <1>1
  <2>2. Len(q \o <<s>>) <= PoolSize
    BY <1>2, OnceLen
  <2> QED  BY <2>1, <2>2
<1>4. PoolSize \in Nat
  BY StreamsAssumption, FS_CardinalityType DEF PoolSize
<1>5. Pushed(q, cap, s) = Append(q, s)
  BY <1>1, <1>3, <1>4 DEF Pushed
<1> QED  BY <1>1, <1>2, <1>5

(* What deallocate_constructed() does with objects that are not free. *)
LEMMA ReturnedIs ==
    ASSUME NEW p, NEW q, Once(p), Once(q), ToSet(p) \cap ToSet(q) = {}
    PROVE  /\ Once(Returned(p, q))
           /\ ToSet(Returned(p, q)) = ToSet(p) \cup ToSet(q)
<1>1. Once(p \o q) /\ ToSet(p \o q) = ToSet(p) \cup ToSet(q)
  BY OnceConcat
<1>2. Len(p \o q) <= PoolSize
  BY <1>1, OnceLen
<1>3. Len(p \o q) = Len(p) + Len(q)
  BY DEF Once
<1> QED  BY <1>1, <1>2, <1>3 DEF Returned

LEMMA ReturnedOne ==
    ASSUME NEW s \in Streams, NEW p, Once(p), s \notin ToSet(p)
    PROVE  /\ Once(Returned(p, <<s>>))
           /\ ToSet(Returned(p, <<s>>)) = ToSet(p) \cup {s}
<1>1. Once(<<s>>) /\ ToSet(<<s>>) = {s}
  BY OnceOne
<1>2. ToSet(p) \cap ToSet(<<s>>) = {}
  BY <1>1
<1> QED  BY <1>1, <1>2, ReturnedIs

(* The object that the pool hands out. *)
LEMMA TakenIs ==
    ASSUME NEW p, Once(p), p # <<>>
    PROVE  /\ Last(p) \in ToSet(p) /\ Last(p) \in Streams
           /\ Once(Front(p)) /\ ToSet(Front(p)) = ToSet(p) \ {Last(p)}
<1> DEFINE n == Len(p)
           f == SubSeq(p, 1, n - 1)
<1>1. /\ p \in Seq(Streams) /\ n \in Nat /\ n # 0 /\ DOMAIN p = 1 .. n
      /\ \A i \in 1 .. n : p[i] \in Streams
      /\ \A i, j \in 1 .. n : p[i] = p[j] => i = j
  BY DEF Once, IsInjective
<1>2. Last(p) = p[n] /\ Front(p) = f
  BY DEF Last, Front
<1>3. /\ f \in Seq(Streams) /\ Len(f) = n - 1 /\ DOMAIN f = 1 .. n - 1
      /\ \A i \in 1 .. n - 1 : f[i] = p[i]
  BY <1>1
<1>4. IsInjective(f)
  BY <1>1, <1>3 DEF IsInjective
<1>5. ASSUME NEW s PROVE s \in ToSet(f) <=> s \in ToSet(p) \ {p[n]}
  <2>1. s \in ToSet(f) <=> \E i \in 1 .. n - 1 : f[i] = s
    BY <1>3, ElementIs
  <2>2. s \in ToSet(p) <=> \E i \in 1 .. n : p[i] = s
    BY <1>1, ElementIs
  <2> QED  BY <1>1, <1>3, <2>1, <2>2
<1>6. p[n] \in ToSet(p) /\ p[n] \in Streams
  BY <1>1, ElementIs
<1> QED  BY <1>2, <1>3, <1>4, <1>5, <1>6 DEF Once

(* The payload that OUT pops. *)
LEMMA PoppedIs ==
    ASSUME NEW q, Once(q), q # <<>>
    PROVE  /\ Head(q) \in ToSet(q) /\ Head(q) \in Streams
           /\ Once(Tail(q)) /\ ToSet(Tail(q)) = ToSet(q) \ {Head(q)}
<1> DEFINE n == Len(q)
           t == Tail(q)
<1>1. /\ q \in Seq(Streams) /\ n \in Nat /\ n # 0 /\ DOMAIN q = 1 .. n
      /\ \A i \in 1 .. n : q[i] \in Streams
      /\ \A i, j \in 1 .. n : q[i] = q[j] => i = j
  BY DEF Once, IsInjective
<1>2. /\ t \in Seq(Streams) /\ Len(t) = n - 1 /\ DOMAIN t = 1 .. n - 1
      /\ \A i \in 1 .. n - 1 : t[i] = q[i + 1]
      /\ Head(q) = q[1]
  BY <1>1
<1>3. IsInjective(t)
  BY <1>1, <1>2 DEF IsInjective
<1>4. ASSUME NEW s PROVE s \in ToSet(t) <=> s \in ToSet(q) \ {q[1]}
  <2>1. s \in ToSet(t) <=> \E i \in 1 .. n - 1 : t[i] = s
    BY <1>2, ElementIs
  <2>2. s \in ToSet(q) <=> \E i \in 1 .. n : q[i] = s
    BY <1>1, ElementIs
  <2>3. ASSUME NEW i \in 1 .. n, q[i] = s, s # q[1]
        PROVE  i - 1 \in 1 .. n - 1 /\ t[i - 1] = s
    BY <1>1, <1>2, <2>3
  <2>4. ASSUME NEW i \in 1 .. n - 1, t[i] = s
        PROVE  i + 1 \in 1 .. n /\ q[i + 1] = s /\ s # q[1]
    BY <1>1, <1>2, <2>4
  <2> QED  BY <2>1, <2>2, <2>3, <2>4
<1>5. q[1] \in ToSet(q) /\ q[1] \in Streams
  BY <1>1, ElementIs
<1> QED  BY <1>2, <1>3, <1>4, <1>5 DEF Once

(* SetToSeq lists a set of objects, in some order. *)
LEMMA ListedIs ==
    ASSUME NEW S \in SUBSET Streams
    PROVE  Once(SetToSeq(S)) /\ ToSet(SetToSeq(S)) = S
<1> DEFINE n == Cardinality(S)
           q == SetToSeq(S)
<1>1. IsFiniteSet(S)
  BY StreamsAssumption, FS_Subset
<1>2. n \in Nat /\ ExistsBijection(1 .. n, S)
  BY <1>1, FS_CardinalityType
<1>3. \E f \in [1 .. n -> S] : IsInjective(f)
  BY <1>2 DEF ExistsBijection, Bijection, Injection
<1>4. q \in [1 .. n -> S] /\ IsInjective(q)
  BY <1>3 DEF SetToSeq
<1>5. q \in Seq(Streams) /\ DOMAIN q = 1 .. n
  BY <1>2, <1>4
<1>6. q \in Injection(1 .. n, S)
  BY <1>4 DEF Injection
<1>7. Cardinality(1 .. n) = n
  <2>1. Cardinality(1 .. n) = IF 1 > n THEN 0 ELSE n - 1 + 1
    BY <1>2, FS_Interval
  <2> QED  BY <1>2, <2>1
<1>8. q \in Surjection(1 .. n, S)
  BY <1>1, <1>6, <1>7, FS_Injection
<1>9. ToSet(q) = S
  BY <1>4, <1>5, <1>8 DEF ToSet, Surjection
<1> QED  BY <1>4, <1>5, <1>9 DEF Once

(* At first every object is in the pool. *)
LEMMA InitPool ==
    ASSUME pool \in SetToSeqs(Streams)
    PROVE  Once(pool) /\ ToSet(pool) = Streams
<1> DEFINE n == Cardinality(Streams)
<1>1. n \in Nat
  BY StreamsAssumption, FS_CardinalityType
<1>2. /\ pool \in [1 .. n -> Streams]
      /\ \A i, j \in 1 .. n : i # j => pool[i] # pool[j]
  BY DEF SetToSeqs
<1>3. pool \in Seq(Streams) /\ DOMAIN pool = 1 .. n /\ IsInjective(pool)
  BY <1>1, <1>2 DEF IsInjective
<1>4. pool \in Injection(1 .. n, Streams)
  BY <1>2, <1>3 DEF Injection
<1>5. Cardinality(1 .. n) = n
  <2>1. Cardinality(1 .. n) = IF 1 > n THEN 0 ELSE n - 1 + 1
    BY <1>1, FS_Interval
  <2> QED  BY <1>1, <2>1
<1>6. pool \in Surjection(1 .. n, Streams)
  BY <1>4, <1>5, StreamsAssumption, FS_Injection
<1>7. ToSet(pool) = Streams
  BY <1>2, <1>3, <1>6 DEF ToSet, Surjection
<1> QED  BY <1>3, <1>7 DEF Once

-----------------------------------------------------------------------------
(* Steps that move no object and tell no handler.                          *)

(* The peer has at most as much to answer as before. *)
Quieter == /\ peer' \in [Uuid -> {"none"} \cup Answered]
           /\ \A u \in Uuid : peer'[u] \in {peer[u], "none"}

LEMMA HeldStays ==
    ASSUME Held, UNCHANGED <<pool, streams, queues, app>>, out'.s = out.s
    PROVE  Held'
BY DEF Held, Under, InQueue, queues

LEMMA FlaggedStays ==
    ASSUME Flagged, UNCHANGED <<streams, queues, app>>, out'.s = out.s,
           \A s \in Streams : /\ strm'[s].out = strm[s].out
                              /\ strm'[s].free_on_send = strm[s].free_on_send,
           out'.pc = "free" => out.s \notin streams,
           out'.pc = "clear" => out.s \in streams
    PROVE  Flagged'
BY DEF Flagged, OnItsWay, Under, InQueue, queues

(* IN goes on where it is, or looks at all streams, or does not look.      *)
LEMMA ExpiryStays ==
    ASSUME Typed, Expiry, UNCHANGED <<streams, app>>,
           \A s \in Streams : /\ strm'[s].out = strm[s].out
                              /\ strm'[s].expired = strm[s].expired
                              /\ strm'[s].aged = strm[s].aged \/ s # app.s,
           \/ in' = in
           \/ /\ in.pc # "scan" /\ in'.pc = "scan" /\ in'.left = streams
              /\ app.pc = "new" => in'.goal = "check"
           \/ in.pc # "scan" /\ in'.pc # "scan" /\ in'.left = {}
    PROVE  Expiry'
<1>1. streams \subseteq Streams /\ (app.pc = "new" => app.s \in Streams)
  BY DEF Typed
<1>2. /\ in.pc # "scan" => in.left = {} /\ \A s \in streams : ~strm[s].expired
      /\ \A s \in streams : strm[s].expired =>
           in.pc = "scan" /\ s \notin in.left /\ ~strm[s].out /\ s # app.s
      /\ app.pc = "new" => /\ ~strm[app.s].aged
                           /\ in.goal # "check" => app.s \notin in.left
  BY DEF Expiry
<1>3. /\ \A s \in streams : strm'[s].expired = strm[s].expired
      /\ \A s \in streams : strm'[s].out = strm[s].out
      /\ app.pc = "new" => strm'[app.s].aged = strm[app.s].aged
  BY <1>1
<1>4. in'.pc # "scan" => in'.left = {}
  BY <1>2
<1>5. \A s \in streams : strm'[s].expired =>
        in'.pc = "scan" /\ s \notin in'.left /\ ~strm'[s].out /\ s # app.s
  BY <1>2, <1>3
<1>6. app.pc = "new" => /\ ~strm'[app.s].aged
                        /\ in'.goal # "check" => app.s \notin in'.left
  BY <1>2, <1>3
<1> QED  BY <1>4, <1>5, <1>6 DEF Expiry

LEMMA TalksStays ==
    ASSUME Typed, Talks, UNCHANGED <<streams, queues, app, told>>, Quieter,
           \A s \in Streams : /\ strm'[s].uuid = strm[s].uuid
                              /\ strm'[s].expired = strm[s].expired
    PROVE  Talks'
<1>0. streams' = streams /\ app' = app /\ told' = told
  BY DEF queues
<1>1. /\ streams \subseteq Streams
      /\ \A s \in Streams : strm[s].uuid # NoUuid => strm[s].uuid \in Uuid
  BY DEF Typed, Stream
<1>2. InQueue' = InQueue
  BY DEF InQueue, queues
<1>3. \A s \in streams : /\ strm[s].uuid # NoUuid
                         /\ strm[s].uuid \in Uuid
                         /\ strm'[s].uuid = strm[s].uuid
                         /\ strm'[s].expired = strm[s].expired
                         /\ peer'[strm[s].uuid] \in {peer[strm[s].uuid], "none"}
  BY <1>1 DEF Talks, Listed, Quieter
<1>4. Unasked'
  BY <1>0 DEF Talks, Unasked, Quieter
<1>5. OneStream'
  BY DEF Talks, OneStream
<1>6. Begun'
  BY <1>0 DEF Talks, Begun
<1>7. ASSUME NEW s \in streams
      PROVE  /\ strm'[s].uuid # NoUuid
             /\ told'[strm'[s].uuid] = Told(s)'
             /\ peer'[strm'[s].uuid] # "none" => s \notin InQueue' /\ s # app'.s
  <2>1. Told(s)' = Told(s)
    BY <1>3 DEF Told
  <2> QED  BY <1>0, <1>2, <1>3, <2>1 DEF Talks, Listed
<1>8. Listed'
  BY <1>0, <1>7 DEF Listed
<1> QED  BY <1>4, <1>5, <1>6, <1>8 DEF Talks

-----------------------------------------------------------------------------
(* OUT.                                                                    *)

LEMMA OutType ==
    ASSUME Typed
    PROVE  /\ out = [pc |-> out.pc, s |-> out.s, lane |-> out.lane]
           /\ out.s \in Streams \/ out.s = NoStream
           /\ out.pc \notin {"pop", "done"} => out.s \in Streams
           /\ OtherLane \in {"internal", "external"}
           /\ streams \subseteq Streams /\ NoStream \notin streams
BY StreamsAssumption DEF Typed, OtherLane

(* OUT takes the next payload from one of the queues, which then has it    *)
(* no more.                                                                *)
LEMMA OutPopKeeps == ASSUME Working, OutPop PROVE Working'
<1> DEFINE I == ToSet(internal_out_queue)
           X == ToSet(out_queue)
<1>0. Typed /\ Held /\ Flagged /\ Expiry /\ Talks
  BY DEF Working
<1>1. /\ UNCHANGED <<pool, streams, strm, in, timeout_thread, app, active,
                     reconnect_queued, stream_timeout_check, peer, told, recvd>>
      /\ out.pc = "pop" /\ out.s = NoStream
  BY <1>0 DEF OutPop, flags, Typed
<1>2. CASE out' = [out EXCEPT !.lane = OtherLane] /\ UNCHANGED queues
  <2>1. /\ out' = [pc |-> "pop", s |-> NoStream, lane |-> OtherLane]
        /\ internal_out_queue' = internal_out_queue /\ out_queue' = out_queue
    BY <1>0, <1>1, <1>2, OutType DEF queues
  <2>2. Typed'
    BY <1>0, <1>1, <2>1, OutType DEF Typed
  <2>3. Held' /\ Flagged' /\ Expiry' /\ Talks'
    BY <1>0, <1>1, <2>1, HeldStays, FlaggedStays, ExpiryStays, TalksStays
       DEF Quieter, Typed, queues
  <2> QED  BY <2>2, <2>3 DEF Working
<1>3. ASSUME NEW s \in Streams,
             out' = [out EXCEPT !.pc = "send", !.s = s],
             Once(internal_out_queue'), Once(out_queue'),
             \/ /\ s \in I /\ ToSet(internal_out_queue') = I \ {s}
                /\ out_queue' = out_queue
             \/ /\ s \in X /\ ToSet(out_queue') = X \ {s}
                /\ internal_out_queue' = internal_out_queue
      PROVE  Working'
  <2>1. out' = [pc |-> "send", s |-> s, lane |-> out.lane]
    BY <1>0, <1>3, OutType
  <2>2. /\ InQueue = I \cup X /\ Under = InQueue \cup {NoStream}
        /\ InQueue' = InQueue \ {s} /\ Under' = (Under \ {NoStream}) \cup {s}
        /\ s \in InQueue
        /\ ToSet(internal_out_queue') \cap ToSet(out_queue') = {}
    BY <1>0, <1>1, <1>3, <2>1, StreamsAssumption DEF Held, InQueue, Under, Once
  <2>3. Typed'
    BY <1>0, <1>1, <1>3, <2>1, StreamsAssumption DEF Typed
  <2>4. Held'
    BY <1>0, <1>1, <1>3, <2>1, <2>2, StreamsAssumption DEF Held
  <2>5. Flagged'
    <3>1. \A t \in Streams : t \in Under' <=> t \in Under
      BY <2>2, StreamsAssumption
    <3> QED  BY <1>0, <1>1, <2>1, <3>1 DEF Flagged, OnItsWay
  <2>6. Expiry'
    BY <1>0, <1>1 DEF Expiry
  <2>7. Talks'
    BY <1>0, <1>1, <2>2
       DEF Talks, OneStream, Begun, Unasked, Listed, Told
  <2> QED  BY <2>3, <2>4, <2>5, <2>6, <2>7 DEF Working
<1>4. Once(internal_out_queue) /\ Once(out_queue)
  BY <1>0 DEF Typed
<1>5. CASE out.lane = "internal" /\ internal_out_queue # <<>>
  <2>1. /\ out' = [out EXCEPT !.pc = "send", !.s = Head(internal_out_queue)]
        /\ internal_out_queue' = Tail(internal_out_queue)
        /\ out_queue' = out_queue
    BY <1>5 DEF OutPop
  <2> QED  BY <1>3, <1>4, <1>5, <2>1, PoppedIs
<1>6. CASE out.lane # "internal" /\ out_queue # <<>>
  <2>1. /\ out' = [out EXCEPT !.pc = "send", !.s = Head(out_queue)]
        /\ out_queue' = Tail(out_queue)
        /\ internal_out_queue' = internal_out_queue
    BY <1>6 DEF OutPop
  <2> QED  BY <1>3, <1>4, <1>6, <2>1, PoppedIs
<1> QED  BY <1>2, <1>5, <1>6 DEF OutPop

(* The payload is sent, or not, and free_on_send is read. *)
LEMMA OutSendKeeps ==
    ASSUME Working, OutSend \/ OutSendFails \/ OutCheck \/ OutExit
    PROVE  Working'
<1>0. Typed /\ Held /\ Flagged /\ Expiry /\ Talks
  BY DEF Working
<1>1. /\ UNCHANGED <<pool, streams, strm, internal_out_queue, out_queue, in,
                     timeout_thread, app, active, stream_timeout_check, told,
                     recvd>>
      /\ reconnect_queued' \in BOOLEAN
  BY <1>0 DEF OutSend, OutSendFails, OutCheck, OutExit, flags, queues, Typed
<1>2. /\ out'.s = out.s
      /\ out'.pc = "free" => out.s \notin streams
      /\ out'.pc = "clear" => out.s \in streams
  <2>1. out.pc = "sent" => out.s \in Streams \cap Under
    BY <1>0, OutType DEF Under
  <2>2. out.pc = "sent" => (strm[out.s].free_on_send <=> out.s \notin streams)
    BY <1>0, <2>1 DEF Flagged, OnItsWay
  <2>3. CASE OutSend \/ OutSendFails
    BY <1>0, <2>3, OutType DEF OutSend, OutSendFails
  <2>4. CASE OutCheck
    <3>1. /\ out'.s = out.s
          /\ out'.pc = IF strm[out.s].free_on_send THEN "free" ELSE "clear"
          /\ out.pc = "sent"
      BY <1>0, <2>4, OutType DEF OutCheck
    <3> QED  BY <2>2, <3>1
  <2>5. CASE OutExit
    BY <1>0, <2>5, OutType DEF OutExit
  <2> QED  BY <2>3, <2>4, <2>5
<1>3. Held' /\ Flagged' /\ Expiry'
  BY <1>0, <1>1, <1>2, HeldStays, FlaggedStays, ExpiryStays DEF queues
<1>4. CASE peer' = peer
  <2>1. Typed'
    <3>1. PICK p \in {"sent", "free", "clear", "done"} :
            /\ out' = [pc |-> p, s |-> out.s, lane |-> out.lane]
            /\ out.s = NoStream <=> p \in {"pop", "done"}
      BY <1>0, OutType DEF OutSend, OutSendFails, OutCheck, OutExit, Typed
    <3>2. out.s \in Streams \cup {NoStream} /\ out.lane \in {"internal", "external"}
      BY <1>0 DEF Typed
    <3>3. out'.s = NoStream <=> out'.pc \in {"pop", "done"}
      BY <3>1
    <3> QED  BY <1>0, <1>1, <1>4, <3>1, <3>2, <3>3 DEF Typed
  <2>2. Talks'
    BY <1>0, <1>1, <1>4, TalksStays DEF Quieter, Typed, queues
  <2> QED  BY <1>3, <2>1, <2>2 DEF Working
<1>5. CASE peer' # peer
  <2> DEFINE s == strm[out.s]
  <2>1. /\ out.s \in Streams /\ s \in Stream
        /\ s.msg \in Answered /\ s.uuid # NoUuid /\ s.uuid \in Uuid
        /\ peer' = [peer EXCEPT ![s.uuid] = s.msg]
        /\ out' = [pc |-> "sent", s |-> out.s, lane |-> out.lane]
        /\ reconnect_queued' = reconnect_queued
    BY <1>0, <1>5, OutType
       DEF OutSend, OutSendFails, OutCheck, OutExit, Typed, Stream, flags
  <2>2. Typed'
    BY <1>0, <1>1, <2>1, StreamsAssumption DEF Typed
  <2>3. \A t \in Streams \ {out.s} : strm[t].uuid # s.uuid
    BY <1>0, <2>1 DEF Talks, OneStream
  <2>4. out.s \notin InQueue /\ out.s # app.s
    BY <1>0, <2>1, StreamsAssumption DEF Held, Under
  <2>5. told[s.uuid] # "unused"
    BY <1>0, <2>1 DEF Talks, Begun
  <2>6. /\ peer' \in [Uuid -> {"none"} \cup Answered]
        /\ \A u \in Uuid \ {s.uuid} : peer'[u] = peer[u]
    BY <1>0, <2>1 DEF Typed
  <2>7. OneStream' /\ Begun' /\ Unasked'
    BY <1>0, <1>1, <2>5, <2>6 DEF Talks, OneStream, Begun, Unasked
  <2>8. ASSUME NEW t \in streams
        PROVE  /\ strm[t].uuid # NoUuid /\ told[strm[t].uuid] = Told(t)
               /\ peer'[strm[t].uuid] # "none" => t \notin InQueue /\ t # app.s
    <3>1. strm[t].uuid \in Uuid /\ t \in Streams
      BY <1>0 DEF Typed, Stream, Talks, Listed
    <3>2. CASE t = out.s
      BY <1>0, <2>4, <3>2 DEF Talks, Listed
    <3>3. CASE t # out.s
      BY <1>0, <2>3, <2>6, <3>1, <3>3 DEF Talks, Listed
    <3> QED  BY <3>2, <3>3
  <2>9. Listed'
    BY <1>1, <2>8 DEF Listed, Told, InQueue
  <2> QED  BY <1>3, <2>2, <2>7, <2>9 DEF Working, Talks
<1> QED  BY <1>4, <1>5

(* OUT returns the object of a payload that is the last of its stream. *)
LEMMA OutFreeKeeps == ASSUME Working, OutFree PROVE Working'
<1> DEFINE s == out.s
<1>0. Typed /\ Held /\ Flagged /\ Expiry /\ Talks
  BY DEF Working
<1>1. /\ UNCHANGED <<streams, strm, internal_out_queue, out_queue, in,
                     timeout_thread, app, active, reconnect_queued,
                     stream_timeout_check, peer, told, recvd>>
      /\ out.pc = "free" /\ s \in Streams /\ s \notin streams
      /\ out' = [pc |-> "pop", s |-> NoStream, lane |-> OtherLane]
      /\ pool' = Returned(pool, <<s>>)
  BY <1>0, OutType DEF OutFree, OutLeft, flags, queues, Flagged, OnItsWay
<1>2. /\ s \notin ToSet(pool) /\ s \notin InQueue /\ s \notin streams
      /\ s # NoStream /\ s # app.s
  BY <1>0, <1>1, StreamsAssumption DEF Held, Under
<1>3. Once(pool') /\ ToSet(pool') = ToSet(pool) \cup {s}
  BY <1>0, <1>1, <1>2, ReturnedOne DEF Typed
<1>4. InQueue' = InQueue /\ Under' = InQueue \cup {NoStream}
  BY <1>1 DEF Under, InQueue
<1>5. Typed'
  BY <1>0, <1>1, <1>3, OutType DEF Typed
<1>6. Held'
  <2>1. NoStream \notin InQueue /\ NoStream \notin ToSet(pool')
    BY <1>0, <1>3, <1>1, StreamsAssumption, OnceIn DEF Typed, InQueue
  <2> QED  BY <1>0, <1>1, <1>2, <1>3, <1>4, <2>1, OutType DEF Held, Under
<1>7. Flagged'
  BY <1>0, <1>1, <1>2, <1>4, StreamsAssumption DEF Flagged, OnItsWay, Under
<1>8. Expiry' /\ Talks'
  BY <1>0, <1>1, <1>4, ExpiryStays, TalksStays DEF Quieter, Typed, queues
<1> QED  BY <1>5, <1>6, <1>7, <1>8 DEF Working

(* OUT clears the flag of a stream that is still listed. *)
LEMMA OutClearKeeps == ASSUME Working, OutClear PROVE Working'
<1> DEFINE s == out.s
<1>0. Typed /\ Held /\ Flagged /\ Expiry /\ Talks
  BY DEF Working
<1>1. /\ UNCHANGED <<pool, streams, internal_out_queue, out_queue, in,
                     timeout_thread, app, active, reconnect_queued,
                     stream_timeout_check, peer, told, recvd>>
      /\ out.pc = "clear" /\ s \in Streams /\ s \in streams
      /\ out' = [pc |-> "pop", s |-> NoStream, lane |-> OtherLane]
      /\ strm' = [strm EXCEPT ![s].out = FALSE]
  BY <1>0, OutType DEF OutClear, OutLeft, flags, queues, Flagged, OnItsWay
<1>2. /\ s \notin ToSet(pool) /\ s \notin InQueue
      /\ s # NoStream /\ s # app.s
  BY <1>0, <1>1, StreamsAssumption DEF Held, Under
<1>3. /\ strm' \in [Streams -> Stream]
      /\ \A t \in Streams \ {s} : strm'[t] = strm[t]
      /\ strm'[s] = [strm[s] EXCEPT !.out = FALSE]
  <2>1. strm[s] \in Stream /\ strm \in [Streams -> Stream]
    BY <1>0, <1>1 DEF Typed
  <2>2. [strm[s] EXCEPT !.out = FALSE] \in Stream
    BY <2>1 DEF Stream
  <2> QED  BY <1>1, <2>1, <2>2
<1>4. /\ ~strm'[s].out
      /\ \A t \in Streams : /\ strm'[t].uuid = strm[t].uuid
                            /\ strm'[t].expired = strm[t].expired
                            /\ strm'[t].aged = strm[t].aged
                            /\ strm'[t].free_on_send = strm[t].free_on_send
                            /\ t # s => strm'[t].out = strm[t].out
  <2>1. strm[s] \in Stream
    BY <1>0, <1>1 DEF Typed
  <2>2. strm'[s] = [uuid |-> strm[s].uuid, out |-> FALSE,
                    free_on_send |-> strm[s].free_on_send,
                    expired |-> strm[s].expired, aged |-> strm[s].aged,
                    msg |-> strm[s].msg]
    BY <1>3, <2>1 DEF Stream
  <2>3. ASSUME NEW t \in Streams
        PROVE  /\ strm'[t].uuid = strm[t].uuid
               /\ strm'[t].expired = strm[t].expired
               /\ strm'[t].aged = strm[t].aged
               /\ strm'[t].free_on_send = strm[t].free_on_send
               /\ t # s => strm'[t].out = strm[t].out
    BY <1>3, <2>2
  <2> QED  BY <2>2, <2>3
<1>5. InQueue' = InQueue /\ Under' = InQueue \cup {NoStream}
  BY <1>1 DEF Under, InQueue
<1>6. Typed'
  BY <1>0, <1>1, <1>3, OutType DEF Typed
<1>7. Held'
  <2>1. NoStream \notin InQueue /\ NoStream \notin ToSet(pool)
    BY <1>0, StreamsAssumption, OnceIn DEF Typed, InQueue
  <2> QED  BY <1>0, <1>1, <1>2, <1>5, <2>1, OutType DEF Held, Under
<1>8. Flagged'
  BY <1>0, <1>1, <1>2, <1>4, <1>5, StreamsAssumption DEF Flagged, OnItsWay, Under
<1>9. Expiry'
  <2>1. \A t \in streams : ~strm[t].out => ~strm'[t].out
    BY <1>1, <1>4, <1>0, OutType
  <2> QED  BY <1>0, <1>1, <1>2, <1>4, <2>1 DEF Expiry, Typed
<1>10. Talks'
  BY <1>0, <1>1, <1>4, TalksStays DEF Quieter, Typed, queues
<1> QED  BY <1>6, <1>7, <1>8, <1>9, <1>10 DEF Working

LEMMA OutKeeps == ASSUME Working, Out PROVE Working'
BY OutPopKeeps, OutSendKeeps, OutFreeKeeps, OutClearKeeps DEF Out

-----------------------------------------------------------------------------
(* APP, and the threads that forward through this client.                  *)

LEMMA StreamIs == ASSUME NEW r \in Stream PROVE r.uuid \in Uuid \cup {NoUuid}
BY DEF Stream

(* An object of the pool is in nobody's hands. *)
LEMMA FreshIs ==
    ASSUME Working, pool # <<>>
    PROVE  LET s == Last(pool)
           IN  /\ s \in Streams /\ s \in ToSet(pool)
               /\ s \notin streams \cup Under /\ s # NoStream /\ s # app.s
               /\ ~strm[s].out
               /\ Once(Front(pool)) /\ ToSet(Front(pool)) = ToSet(pool) \ {s}
<1> DEFINE s == Last(pool)
<1>1. Once(pool) /\ Held /\ Flagged
  BY DEF Working, Typed
<1>2. /\ s \in Streams /\ s \in ToSet(pool)
      /\ Once(Front(pool)) /\ ToSet(Front(pool)) = ToSet(pool) \ {s}
  BY <1>1, TakenIs
<1>3. s \notin streams \cup Under /\ s # NoStream /\ s # app.s
  BY <1>1, <1>2, StreamsAssumption DEF Held
<1>4. ~strm[s].out
  BY <1>1, <1>2, <1>3 DEF Flagged, OnItsWay
<1> QED  BY <1>2, <1>3, <1>4

(* A conversation that begins is listed with an object of its own. *)
LEMMA TalksBegin ==
    ASSUME Working, Quieter, NEW s \in Streams, NEW u \in Uuid,
           s \notin streams, told[u] = "unused",
           told' = [told EXCEPT ![u] = "open"], streams' = streams \cup {s},
           \A t \in Streams \ {s} : strm'[t] = strm[t],
           strm'[s].uuid = u, strm'[s].expired = FALSE,
           InQueue' \subseteq InQueue \cup {s},
           app' = app \/ (app.s = NoStream /\ app'.s = s)
    PROVE  Talks'
<1>0. Typed /\ Talks /\ strm \in [Streams -> Stream]
  BY DEF Working, Typed
<1>1. \A t \in Streams : strm[t].uuid # u
  BY <1>0, UuidAssumption DEF Talks, Begun
<1>2. told' \in [Uuid -> {"unused", "open", "ended", "timed out"}]
      /\ told'[u] = "open" /\ \A v \in Uuid \ {u} : told'[v] = told[v]
  BY <1>0 DEF Typed
<1>3. peer'[u] = "none"
  BY <1>0 DEF Talks, Unasked, Quieter
<1>4. OneStream'
  BY <1>0, <1>1 DEF Talks, OneStream
<1>5. ASSUME NEW t \in Streams, strm'[t].uuid # NoUuid
      PROVE  told'[strm'[t].uuid] # "unused"
  <2>1. CASE t = s
    BY <1>2, <2>1
  <2>2. CASE t # s
    <3>1. strm'[t] = strm[t] /\ strm[t].uuid \in Uuid \ {u}
      BY <1>0, <1>1, <1>5, <2>2, StreamIs
    <3> QED  BY <1>0, <1>2, <3>1, UuidAssumption DEF Talks, Begun
  <2> QED  BY <2>1, <2>2
<1>6. Unasked'
  BY <1>0, <1>2 DEF Talks, Unasked, Quieter
<1>7. ASSUME NEW t \in streams'
      PROVE  /\ strm'[t].uuid # NoUuid /\ told'[strm'[t].uuid] = Told(t)'
             /\ peer'[strm'[t].uuid] # "none" => t \notin InQueue' /\ t # app'.s
  <2>1. CASE t = s
    BY <1>2, <1>3, <2>1, UuidAssumption DEF Told
  <2>2. CASE t # s
    <3>1. t \in streams /\ t \in Streams /\ strm'[t] = strm[t]
      BY <1>0, <1>7, <2>2, OutType
    <3>2. strm[t].uuid \in Uuid \ {u}
      BY <1>0, <1>1, <3>1, StreamIs DEF Talks, Listed
    <3>3. Told(t)' = Told(t)
      BY <3>1 DEF Told
    <3>4. /\ strm[t].uuid # NoUuid /\ told[strm[t].uuid] = Told(t)
          /\ peer[strm[t].uuid] # "none" => t \notin InQueue /\ t # app.s
      BY <1>0, <3>1 DEF Talks, Listed
    <3>5. peer'[strm[t].uuid] # "none" => peer[strm[t].uuid] # "none"
      BY <3>2 DEF Quieter
    <3> QED  BY <1>2, <2>2, <3>1, <3>2, <3>3, <3>4, <3>5
  <2> QED  BY <2>1, <2>2
<1>8. Begun' /\ Listed'
  BY <1>5, <1>7 DEF Begun, Listed
<1> QED  BY <1>4, <1>6, <1>8 DEF Talks

LEMMA AppNewKeeps ==
    ASSUME Working, NEW u \in Uuid, AppNewStream(u)
    PROVE  Working'
<1> DEFINE s == Last(pool)
           r == strm[s]
<1>0. Typed /\ Held /\ Flagged /\ Expiry /\ Talks
  BY DEF Working
<1>1. /\ UNCHANGED <<internal_out_queue, out_queue, in, out, timeout_thread,
                     active, reconnect_queued, stream_timeout_check, peer,
                     recvd>>
      /\ app.pc = "idle" /\ app.s = NoStream /\ told[u] = "unused"
      /\ pool # <<>> /\ pool' = Front(pool)
      /\ streams' = streams \cup {s} /\ app' = [pc |-> "new", s |-> s]
      /\ told' = [told EXCEPT ![u] = "open"]
  BY <1>0 DEF AppNewStream, queues, flags, Typed
<1>2. /\ s \in Streams /\ s \in ToSet(pool)
      /\ s \notin streams \cup Under /\ s # NoStream /\ ~r.out
      /\ Once(pool') /\ ToSet(pool') = ToSet(pool) \ {s}
  BY <1>1, FreshIs
<1>3. r \in Stream /\ strm \in [Streams -> Stream]
  BY <1>0, <1>2 DEF Typed
<1>4. strm' = [strm EXCEPT ![s] = [r EXCEPT !.uuid = u, !.expired = FALSE,
                                            !.aged = FALSE]]
  BY <1>2, <1>3 DEF AppNewStream, Stream
<1>5. /\ strm' \in [Streams -> Stream]
      /\ \A t \in Streams \ {s} : strm'[t] = strm[t]
      /\ strm'[s].uuid = u /\ strm'[s].out = r.out
      /\ strm'[s].expired = FALSE /\ strm'[s].aged = FALSE
  <2>1. ASSUME NEW e, e = [r EXCEPT !.uuid = u, !.expired = FALSE, !.aged = FALSE]
        PROVE  /\ e \in Stream /\ e.uuid = u /\ e.out = r.out
               /\ e.expired = FALSE /\ e.aged = FALSE
    BY <1>3, <2>1 DEF Stream
  <2> QED  BY <1>2, <1>3, <1>4, <2>1
<1>6. InQueue' = InQueue /\ Under' = Under
  BY <1>1 DEF Under, InQueue
<1>7. Typed'
  BY <1>0, <1>1, <1>2, <1>5, StreamsAssumption DEF Typed
<1>8. Held'
  BY <1>0, <1>1, <1>2, <1>6 DEF Held
<1>9. Flagged'
  BY <1>0, <1>1, <1>2, <1>5, <1>6, OutType DEF Flagged, OnItsWay, Under
<1>10. Expiry'
  BY <1>0, <1>1, <1>2, <1>5, OutType DEF Expiry, Typed
<1>11. Talks'
  <2>1. Quieter
    BY <1>0, <1>1 DEF Quieter, Typed
  <2>2. InQueue' \subseteq InQueue \cup {s} /\ s \notin streams
    BY <1>2, <1>6
  <2> QED  BY <1>1, <1>2, <1>5, <2>1, <2>2, TalksBegin
<1> QED  BY <1>7, <1>8, <1>9, <1>10, <1>11 DEF Working

LEMMA AppType ==
    ASSUME Typed, Held, app.pc # "idle"
    PROVE  /\ app.s \in Streams /\ app.s \in streams /\ app.s # NoStream
           /\ app.s \notin Under /\ app = [pc |-> app.pc, s |-> app.s]
BY StreamsAssumption DEF Typed, Held

(* The flags say from here on that the payload is on its way. *)
LEMMA AppSendKeeps ==
    ASSUME Working, NEW m \in {"start", "heartbeat"}, AppSendHeader(m)
    PROVE  Working'
<1> DEFINE s == app.s
           r == strm[s]
<1>0. Typed /\ Held /\ Flagged /\ Expiry /\ Talks
  BY DEF Working
<1>1. /\ UNCHANGED <<pool, streams, internal_out_queue, out_queue, in, out,
                     timeout_thread, active, reconnect_queued,
                     stream_timeout_check, peer, told, recvd>>
      /\ app.pc = "new" /\ app' = [pc |-> "push", s |-> s]
      /\ s \in Streams /\ s \in streams /\ s # NoStream /\ s \notin Under
  BY <1>0, AppType DEF AppSendHeader, queues, flags
<1>2. r \in Stream /\ strm \in [Streams -> Stream]
  BY <1>0, <1>1 DEF Typed
<1>3. strm' = [strm EXCEPT ![s] = [r EXCEPT !.free_on_send = FALSE, !.out = TRUE,
                                            !.msg = m]]
  BY <1>1, <1>2 DEF AppSendHeader, Stream
<1>4. /\ strm' \in [Streams -> Stream]
      /\ \A t \in Streams \ {s} : strm'[t] = strm[t]
      /\ strm'[s].out = TRUE /\ strm'[s].free_on_send = FALSE
      /\ strm'[s].uuid = r.uuid
      /\ strm'[s].expired = r.expired /\ strm'[s].aged = r.aged
  <2>1. ASSUME NEW e, e = [r EXCEPT !.free_on_send = FALSE, !.out = TRUE, !.msg = m]
        PROVE  /\ e \in Stream /\ e.out = TRUE /\ e.free_on_send = FALSE
               /\ e.uuid = r.uuid /\ e.expired = r.expired /\ e.aged = r.aged
    BY <1>2, <2>1 DEF Stream, Message
  <2> QED  BY <1>1, <1>2, <1>3, <2>1
<1>5. InQueue' = InQueue /\ Under' = Under
  BY <1>1 DEF Under, InQueue
<1>6. Typed'
  BY <1>0, <1>1, <1>4 DEF Typed
<1>7. Held'
  BY <1>0, <1>1, <1>5 DEF Held
<1>8. Flagged'
  BY <1>0, <1>1, <1>4, <1>5 DEF Flagged, OnItsWay
<1>9. Expiry'
  BY <1>0, <1>1, <1>4, OutType DEF Expiry
<1>10. Talks'
  <2>1. \A t \in Streams : /\ strm'[t].uuid = strm[t].uuid
                           /\ strm'[t].expired = strm[t].expired
    BY <1>4
  <2>2. OneStream' /\ Begun' /\ Unasked'
    BY <1>0, <1>1, <2>1 DEF Talks, OneStream, Begun, Unasked
  <2>3. Listed'
    BY <1>0, <1>1, <1>5, <2>1, OutType DEF Talks, Listed, Told
  <2> QED  BY <2>2, <2>3 DEF Talks
<1> QED  BY <1>6, <1>7, <1>8, <1>9, <1>10 DEF Working

LEMMA SizeType == PoolSize \in Nat /\ PoolSize <= PoolSize
<1>1. PoolSize \in Nat
  BY StreamsAssumption, FS_CardinalityType DEF PoolSize
<1> QED  BY <1>1

LEMMA CountType ==
    ASSUME Typed, recvd < MaxRecv
    PROVE  recvd + 1 \in 0 .. MaxRecv
<1>1. recvd \in 0 .. MaxRecv /\ MaxRecv \in Nat
  BY BoundsAssumption DEF Typed
<1> QED  BY <1>1

LEMMA AppPushKeeps == ASSUME Working, AppPush PROVE Working'
<1> DEFINE s == app.s
<1>0. Typed /\ Held /\ Flagged /\ Expiry /\ Talks
  BY DEF Working
<1>1. /\ UNCHANGED <<pool, streams, strm, internal_out_queue, in, out,
                     timeout_thread, active, reconnect_queued,
                     stream_timeout_check, peer, told, recvd>>
      /\ app.pc = "push" /\ app' = [pc |-> "idle", s |-> NoStream]
      /\ s \in Streams /\ s \in streams /\ s # NoStream /\ s \notin Under
      /\ out_queue' = Pushed(out_queue, PoolSize, s)
  BY <1>0, AppType DEF AppPush, flags
<1>2. Once(out_queue') /\ ToSet(out_queue') = ToSet(out_queue) \cup {s}
  <2>1. Once(out_queue) /\ s \notin ToSet(out_queue) /\ PoolSize <= PoolSize
    BY <1>0, <1>1, SizeType DEF Typed, Under, InQueue
  <2> QED  BY <1>1, <2>1, PushedIs, SizeType
<1>3. InQueue' = InQueue \cup {s} /\ Under' = Under \cup {s}
  BY <1>1, <1>2 DEF Under, InQueue
<1>4. Typed'
  BY <1>0, <1>1, <1>2 DEF Typed
<1>5. s \notin ToSet(pool) /\ s # out.s /\ s \notin InQueue
  BY <1>0, <1>1 DEF Held, Under
<1>6. Held'
  BY <1>0, <1>1, <1>2, <1>3, <1>5 DEF Held, InQueue, Under
<1>7. Flagged'
  <2>1. ~strm[s].free_on_send
    BY <1>0, <1>1 DEF Flagged, OnItsWay
  <2> QED  BY <1>0, <1>1, <1>3, <2>1, StreamsAssumption DEF Flagged, OnItsWay
<1>8. Expiry'
  BY <1>0, <1>1, OutType DEF Expiry
<1>9. Talks'
  <2>1. OneStream' /\ Begun' /\ Unasked'
    BY <1>0, <1>1 DEF Talks, OneStream, Begun, Unasked
  <2>2. Listed'
    BY <1>0, <1>1, <1>3, OutType DEF Talks, Listed, Told
  <2> QED  BY <2>1, <2>2 DEF Talks
<1> QED  BY <1>4, <1>6, <1>7, <1>8, <1>9 DEF Working

LEMMA AppKeeps == ASSUME Working, App PROVE Working'
BY AppNewKeeps, AppSendKeeps, AppPushKeeps DEF App

(* A payload that is forwarded has an object of its own, as has a reply.   *)
LEMMA ForwardKeeps == ASSUME Working, Forward PROVE Working'
<1> DEFINE s == Last(pool)
           r == strm[s]
<1>0. Typed /\ Held /\ Flagged /\ Expiry /\ Talks
  BY DEF Working
<1>1. /\ UNCHANGED <<streams, internal_out_queue, in, out, timeout_thread, app,
                     active, reconnect_queued, stream_timeout_check, peer, told>>
      /\ recvd < MaxRecv /\ recvd' = recvd + 1
      /\ pool # <<>> /\ pool' = Front(pool)
      /\ out_queue' = Pushed(out_queue, PoolSize, s)
  BY DEF Forward, flags
<1>2. /\ s \in Streams /\ s \in ToSet(pool) /\ s # app.s
      /\ s \notin streams \cup Under /\ s # NoStream /\ ~r.out
      /\ Once(pool') /\ ToSet(pool') = ToSet(pool) \ {s}
  BY <1>1, FreshIs
<1>3. r \in Stream /\ strm \in [Streams -> Stream]
  BY <1>0, <1>2 DEF Typed
<1>4. strm' = [strm EXCEPT ![s] = [r EXCEPT !.free_on_send = TRUE,
                                            !.aged = FALSE, !.msg = "reply"]]
  BY <1>2, <1>3 DEF Forward, Stream
<1>5. /\ strm' \in [Streams -> Stream]
      /\ \A t \in Streams \ {s} : strm'[t] = strm[t]
      /\ strm'[s].out = r.out /\ strm'[s].free_on_send = TRUE
      /\ strm'[s].uuid = r.uuid /\ strm'[s].expired = r.expired
  <2>1. ASSUME NEW e, e = [r EXCEPT !.free_on_send = TRUE, !.aged = FALSE,
                                    !.msg = "reply"]
        PROVE  /\ e \in Stream /\ e.out = r.out /\ e.free_on_send = TRUE
               /\ e.uuid = r.uuid /\ e.expired = r.expired
    BY <1>3, <2>1 DEF Stream, Message
  <2> QED  BY <1>2, <1>3, <1>4, <2>1
<1>6. Once(out_queue') /\ ToSet(out_queue') = ToSet(out_queue) \cup {s}
  <2>1. Once(out_queue) /\ s \notin ToSet(out_queue) /\ PoolSize <= PoolSize
    BY <1>0, <1>2, SizeType DEF Typed, Under, InQueue
  <2> QED  BY <1>1, <1>2, <2>1, PushedIs, SizeType
<1>7. InQueue' = InQueue \cup {s} /\ Under' = Under \cup {s}
  BY <1>1, <1>6 DEF Under, InQueue
<1>8. Typed'
  <2>1. recvd' \in 0 .. MaxRecv
    BY <1>0, <1>1, CountType
  <2> QED  BY <1>0, <1>1, <1>2, <1>5, <1>6, <2>1 DEF Typed
<1>9. Held'
  BY <1>0, <1>1, <1>2, <1>6, <1>7 DEF Held, InQueue, Under
<1>10. Flagged'
  BY <1>0, <1>1, <1>2, <1>5, <1>7 DEF Flagged, OnItsWay
<1>11. Expiry'
  BY <1>0, <1>1, <1>2, <1>5, AppType, OutType DEF Expiry, Typed
<1>12. Talks'
  <2>1. \A t \in Streams : /\ strm'[t].uuid = strm[t].uuid
                           /\ strm'[t].expired = strm[t].expired
    BY <1>5
  <2>2. OneStream' /\ Begun' /\ Unasked'
    BY <1>0, <1>1, <2>1 DEF Talks, OneStream, Begun, Unasked
  <2>3. Listed'
    BY <1>0, <1>1, <1>2, <1>7, <2>1, OutType DEF Talks, Listed, Told
  <2> QED  BY <2>2, <2>3 DEF Talks
<1> QED  BY <1>8, <1>9, <1>10, <1>11, <1>12 DEF Working

-----------------------------------------------------------------------------
(* IN, with a packet.                                                      *)

LEMMA ReceivedIs ==
    ASSUME Stage, Working, Received
    PROVE  /\ UNCHANGED <<out_queue, out, timeout_thread, app, active,
                          reconnect_queued, stream_timeout_check>>
           /\ in.pc = "poll" /\ recvd' \in 0 .. MaxRecv
           /\ in.left = {} /\ in'.left = {} /\ in'.pc = "run"
           /\ \A s \in streams : ~strm[s].expired
<1>1. Typed /\ Expiry
  BY DEF Working
<1>2. /\ recvd' = recvd + 1 /\ recvd < MaxRecv /\ in.pc = "poll"
      /\ in' = [in EXCEPT !.pc = "run"]
      /\ UNCHANGED <<out_queue, out, timeout_thread, app, active,
                     reconnect_queued, stream_timeout_check>>
  BY DEF Received, flags
<1>3. recvd' \in 0 .. MaxRecv
  BY <1>1, <1>2, CountType
<1>4. in' = [pc |-> "run", left |-> in.left, goal |-> in.goal]
  BY <1>2 DEF Stage
<1> QED  BY <1>1, <1>2, <1>3, <1>4 DEF Expiry

(* IN looks at no stream while it handles a packet. *)
LEMMA ReceivedExpiry ==
    ASSUME Stage, Working, Received,
           \A s \in streams' : ~strm'[s].expired,
           app.pc = "new" => ~strm'[app.s].aged
    PROVE  Expiry'
BY ReceivedIs DEF Expiry

(* A reply takes an object of its own, if there is one. *)
LEMMA ReplyKeeps ==
    ASSUME Calm, Stage, Working, Received, Reply, Quieter
    PROVE  Working'
<1> DEFINE s == Last(pool)
           r == strm[s]
<1>0. Typed /\ Held /\ Flagged /\ Expiry /\ Talks
  BY DEF Working
<1>1. /\ UNCHANGED <<streams, told, out_queue, out, timeout_thread, app, active,
                     reconnect_queued, stream_timeout_check>>
      /\ in.pc = "poll" /\ recvd' \in 0 .. MaxRecv
      /\ in'.left = {} /\ in'.pc = "run"
      /\ \A t \in streams : ~strm[t].expired
  BY ReceivedIs DEF Reply
<1>2. CASE UNCHANGED <<pool, strm, internal_out_queue>>
  <2>1. Typed'
    BY <1>0, <1>1, <1>2 DEF Typed, Quieter
  <2>2. Held' /\ Flagged' /\ Expiry' /\ Talks'
    BY <1>0, <1>1, <1>2, <2>1, HeldStays, FlaggedStays, ExpiryStays, TalksStays,
       OutType DEF queues, Flagged, OnItsWay
  <2> QED  BY <2>1, <2>2 DEF Working
<1>3. CASE pool # <<>> /\ pool' = Front(pool)
           /\ internal_out_queue' = Pushed(internal_out_queue, InternalCap, s)
           /\ strm' = [strm EXCEPT ![s].free_on_send = TRUE, ![s].msg = "reply"]
  <2>1. /\ s \in Streams /\ s \in ToSet(pool) /\ s # app.s
        /\ s \notin streams \cup Under /\ s # NoStream /\ ~r.out
        /\ Once(pool') /\ ToSet(pool') = ToSet(pool) \ {s}
    BY <1>3, FreshIs
  <2>2. r \in Stream /\ strm \in [Streams -> Stream]
    BY <1>0, <2>1 DEF Typed
  <2>3. strm' = [strm EXCEPT ![s] = [r EXCEPT !.free_on_send = TRUE,
                                              !.msg = "reply"]]
    BY <1>3, <2>1, <2>2 DEF Stream
  <2>4. /\ strm' \in [Streams -> Stream]
        /\ \A t \in Streams \ {s} : strm'[t] = strm[t]
        /\ strm'[s].out = r.out /\ strm'[s].free_on_send = TRUE
        /\ strm'[s].uuid = r.uuid /\ strm'[s].expired = r.expired
    <3>1. ASSUME NEW e, e = [r EXCEPT !.free_on_send = TRUE, !.msg = "reply"]
          PROVE  /\ e \in Stream /\ e.out = r.out /\ e.free_on_send = TRUE
                 /\ e.uuid = r.uuid /\ e.expired = r.expired
      BY <2>2, <3>1 DEF Stream, Message
    <3> QED  BY <2>1, <2>2, <2>3, <3>1
  <2>5. /\ Once(internal_out_queue')
        /\ ToSet(internal_out_queue') = ToSet(internal_out_queue) \cup {s}
    <3>1. Once(internal_out_queue) /\ s \notin ToSet(internal_out_queue)
      BY <1>0, <2>1 DEF Typed, Under, InQueue
    <3> QED  BY <1>3, <2>1, <3>1, PushedIs DEF Calm
  <2>6. InQueue' = InQueue \cup {s} /\ Under' = Under \cup {s}
    BY <1>1, <2>5 DEF Under, InQueue
  <2>7. Typed'
    BY <1>0, <1>1, <2>1, <2>4, <2>5 DEF Typed, Quieter
  <2>8. Held'
    BY <1>0, <1>1, <2>1, <2>5, <2>6 DEF Held, InQueue, Under
  <2>9. Flagged'
    BY <1>0, <1>1, <2>1, <2>4, <2>6 DEF Flagged, OnItsWay
  <2>10. Expiry'
    <3>1. \A t \in streams : ~strm'[t].expired
      BY <1>0, <1>1, <2>1, <2>4, OutType
    <3>2. app.pc = "new" => ~strm'[app.s].aged
      BY <1>0, <2>1, <2>4, AppType DEF Expiry
    <3> QED  BY <1>1, <3>1, <3>2, ReceivedExpiry
  <2>11. Talks'
    <3>1. \A t \in Streams : /\ strm'[t].uuid = strm[t].uuid
                             /\ strm'[t].expired = strm[t].expired
      BY <2>4
    <3>2. OneStream' /\ Begun' /\ Unasked'
      BY <1>0, <1>1, <3>1 DEF Talks, OneStream, Begun, Unasked, Quieter
    <3>3. Listed'
      <4>1. ASSUME NEW t \in streams
            PROVE  /\ strm'[t].uuid # NoUuid /\ told'[strm'[t].uuid] = Told(t)'
                   /\ peer'[strm'[t].uuid] # "none"
                        => t \notin InQueue' /\ t # app'.s
        <5>1. /\ t \in Streams /\ t # s /\ strm'[t] = strm[t]
              /\ strm[t].uuid \in Uuid
          BY <1>0, <2>1, <2>2, <2>4, OutType, StreamIs DEF Talks, Listed
        <5>2. peer'[strm[t].uuid] # "none" => peer[strm[t].uuid] # "none"
          BY <5>1 DEF Quieter
        <5> QED  BY <1>0, <1>1, <2>6, <5>1, <5>2 DEF Talks, Listed, Told
      <4> QED  BY <1>1, <4>1 DEF Listed
    <3> QED  BY <3>2, <3>3 DEF Talks
  <2> QED  BY <2>7, <2>8, <2>9, <2>10, <2>11 DEF Working
<1> QED  BY <1>2, <1>3 DEF Reply, PushInternal

(* A stream whose answer is handled is listed, and its payload is nowhere: *)
(* the answer has not overtaken OUT.                                       *)
LEMMA AnsweredIs ==
    ASSUME Calm, Stage, Working, Received,
           NEW u \in Uuid, NEW what, "none" \notin what, Turn(u, what),
           NEW s, s \in Known(u)
    PROVE  /\ s \in Streams /\ s \in streams /\ s # NoStream
           /\ s \notin Under /\ s # app.s /\ s \notin ToSet(pool)
           /\ strm \in [Streams -> Stream] /\ strm[s] \in Stream
           /\ strm[s].uuid = u /\ ~strm[s].out /\ ~strm[s].expired
           /\ told[u] = "open" /\ told \in [Uuid -> {"unused", "open", "ended",
                                                      "timed out"}]
<1>0. Typed /\ Held /\ Flagged /\ Expiry /\ Talks
  BY DEF Working
<1>1. s \in streams /\ s \in Streams /\ strm[s].uuid = u /\ s # NoStream
  BY <1>0, OutType DEF Known
<1>2. peer[strm[s].uuid] # "none"
  BY <1>1 DEF Turn
<1>3. ~Sending(s)
  BY <1>1 DEF Calm, Turn
<1>4. s # out.s
  BY <1>0, <1>1, <1>3, OutType DEF Sending, Typed
<1>5. s \notin Under /\ s # app.s
  BY <1>0, <1>1, <1>2, <1>4 DEF Talks, Listed, Under
<1>6. s \notin ToSet(pool)
  BY <1>0, <1>1 DEF Held
<1>7. ~strm[s].out
  BY <1>0, <1>1, <1>5 DEF Flagged, OnItsWay
<1>8. ~strm[s].expired
  BY <1>1, ReceivedIs
<1>9. told[u] = "open"
  BY <1>0, <1>1, <1>8 DEF Talks, Listed, Told
<1> QED  BY <1>0, <1>1, <1>5, <1>6, <1>7, <1>8, <1>9 DEF Typed

LEMMA ConsumedIs ==
    ASSUME Working, NEW u \in Uuid, Consumed(u)
    PROVE  Quieter /\ peer'[u] = "none"
BY DEF Working, Typed, Consumed, Quieter

(* A conversation that ends leaves the list. *)
LEMMA TalksEnd ==
    ASSUME Working, Quieter, NEW s \in Streams, NEW u \in Uuid,
           strm[s].uuid = u,
           told' = [told EXCEPT ![u] = "ended"], streams' = streams \ {s},
           \A t \in Streams : /\ strm'[t].uuid = strm[t].uuid
                              /\ strm'[t].expired = strm[t].expired,
           InQueue' \subseteq InQueue \cup {s}, app' = app
    PROVE  Talks'
<1>0. Typed /\ Talks
  BY DEF Working
<1>1. told' \in [Uuid -> {"unused", "open", "ended", "timed out"}]
      /\ told'[u] = "ended" /\ \A v \in Uuid \ {u} : told'[v] = told[v]
  BY <1>0 DEF Typed
<1>2. OneStream'
  BY <1>0 DEF Talks, OneStream
<1>3. ASSUME NEW t \in Streams, strm'[t].uuid # NoUuid
      PROVE  told'[strm'[t].uuid] # "unused"
  <2>1. strm[t].uuid \in Uuid
    BY <1>0, <1>3, StreamIs DEF Typed
  <2> QED  BY <1>0, <1>1, <1>3, <2>1 DEF Talks, Begun
<1>4. Unasked'
  BY <1>0, <1>1 DEF Talks, Unasked, Quieter
<1>5. ASSUME NEW t \in streams'
      PROVE  /\ strm'[t].uuid # NoUuid /\ told'[strm'[t].uuid] = Told(t)'
             /\ peer'[strm'[t].uuid] # "none" => t \notin InQueue' /\ t # app'.s
  <2>1. t \in Streams /\ t \in streams /\ t # s
    BY <1>0, OutType
  <2>2. strm[t].uuid \in Uuid
    BY <1>0, <2>1, StreamIs DEF Typed, Talks, Listed
  <2>3. strm[t].uuid # u
    BY <1>0, <2>1, <2>2, UuidAssumption DEF Talks, OneStream
  <2>4. peer'[strm[t].uuid] # "none" => peer[strm[t].uuid] # "none"
    BY <2>2 DEF Quieter
  <2>5. Told(t)' = Told(t)
    BY <2>1 DEF Told
  <2>6. /\ strm[t].uuid # NoUuid /\ told[strm[t].uuid] = Told(t)
        /\ peer[strm[t].uuid] # "none" => t \notin InQueue /\ t # app.s
    BY <1>0, <2>1 DEF Talks, Listed
  <2>7. strm'[t].uuid = strm[t].uuid /\ told'[strm[t].uuid] = told[strm[t].uuid]
    BY <1>1, <2>1, <2>2, <2>3
  <2> QED  BY <2>1, <2>4, <2>5, <2>6, <2>7
<1>6. Begun' /\ Listed'
  BY <1>3, <1>5 DEF Begun, Listed
<1> QED  BY <1>2, <1>4, <1>6 DEF Talks

LEMMA TellIs ==
    ASSUME NEW u \in Uuid, NEW what,
           told \in [Uuid -> {"unused", "open", "ended", "timed out"}],
           told[u] = "open"
    PROVE  Tell(told, u, what) = [told EXCEPT ![u] = what]
BY UuidAssumption DEF Tell

(* The stream's last message takes its object along. *)
LEMMA LastMessageKeeps ==
    ASSUME Calm, Stage, Working, Received,
           NEW u \in Uuid, NEW what, "none" \notin what, Turn(u, what),
           NEW s, s \in Known(u), Consumed(u), LastMessage(s)
    PROVE  Working'
<1> DEFINE r == strm[s]
<1>0. Typed /\ Held /\ Flagged /\ Expiry /\ Talks
  BY DEF Working
<1>1. /\ UNCHANGED <<pool, out_queue, out, timeout_thread, app, active,
                     reconnect_queued, stream_timeout_check>>
      /\ in.pc = "poll" /\ recvd' \in 0 .. MaxRecv
      /\ in'.left = {} /\ in'.pc = "run"
      /\ \A t \in streams : ~strm[t].expired
      /\ streams' = streams \ {s}
      /\ internal_out_queue' = Pushed(internal_out_queue, InternalCap, s)
      /\ Quieter
  BY ReceivedIs, ConsumedIs DEF LastMessage, PushInternal
<1>2. /\ s \in Streams /\ s \in streams /\ s # NoStream
      /\ s \notin Under /\ s # app.s /\ s \notin ToSet(pool)
      /\ strm \in [Streams -> Stream] /\ r \in Stream /\ r.uuid = u
      /\ ~r.out /\ ~r.expired /\ told[u] = "open"
      /\ told \in [Uuid -> {"unused", "open", "ended", "timed out"}]
  BY AnsweredIs
<1>3. strm' = [strm EXCEPT ![s] = [r EXCEPT !.free_on_send = TRUE,
                                            !.msg = "complete"]]
  BY <1>2 DEF LastMessage, Stream
<1>4. /\ strm' \in [Streams -> Stream]
      /\ \A t \in Streams \ {s} : strm'[t] = strm[t]
      /\ strm'[s].out = r.out /\ strm'[s].free_on_send = TRUE
      /\ strm'[s].uuid = r.uuid /\ strm'[s].expired = r.expired
  <2>1. ASSUME NEW e, e = [r EXCEPT !.free_on_send = TRUE, !.msg = "complete"]
        PROVE  /\ e \in Stream /\ e.out = r.out /\ e.free_on_send = TRUE
               /\ e.uuid = r.uuid /\ e.expired = r.expired
    BY <1>2, <2>1 DEF Stream, Message
  <2> QED  BY <1>2, <1>3, <2>1
<1>5. told' = [told EXCEPT ![u] = "ended"]
  BY <1>2, TellIs DEF LastMessage
<1>6. /\ Once(internal_out_queue')
      /\ ToSet(internal_out_queue') = ToSet(internal_out_queue) \cup {s}
  <2>1. Once(internal_out_queue) /\ s \notin ToSet(internal_out_queue)
    BY <1>0, <1>2 DEF Typed, Under, InQueue
  <2> QED  BY <1>1, <1>2, <2>1, PushedIs DEF Calm
<1>7. InQueue' = InQueue \cup {s} /\ Under' = Under \cup {s}
  BY <1>1, <1>6 DEF Under, InQueue
<1>8. Typed'
  <2>1. told' \in [Uuid -> {"unused", "open", "ended", "timed out"}]
    BY <1>2, <1>5
  <2> QED  BY <1>0, <1>1, <1>2, <1>4, <1>6, <2>1 DEF Typed, Quieter
<1>9. Held'
  <2>1. ToSet(internal_out_queue') \cap ToSet(out_queue') = {}
    BY <1>0, <1>1, <1>2, <1>6 DEF Held, InQueue, Under
  <2>2. out'.s \notin InQueue' /\ ToSet(pool') \cap (streams' \cup Under') = {}
    <3>1. out.s # s /\ out.s \notin InQueue
      BY <1>0, <1>2 DEF Held, Under
    <3>2. ToSet(pool) \cap (streams \cup Under) = {}
      BY <1>0 DEF Held
    <3> QED  BY <1>1, <1>2, <1>7, <3>1, <3>2
  <2>3. app.s \notin Under' \ {NoStream} /\ app.s \in streams' \cup {NoStream}
    BY <1>0, <1>1, <1>2, <1>7 DEF Held
  <2>4. Streams \subseteq ToSet(pool') \cup streams' \cup Under'
    BY <1>0, <1>1, <1>7 DEF Held
  <2> QED  BY <1>1, <2>1, <2>2, <2>3, <2>4 DEF Held
<1>10. Flagged'
  BY <1>0, <1>1, <1>2, <1>4, <1>7, OutType DEF Flagged, OnItsWay, Under
<1>11. Expiry'
  <2>1. \A t \in streams' : ~strm'[t].expired
    BY <1>0, <1>1, <1>4, OutType
  <2>2. app.pc = "new" => ~strm'[app.s].aged
    BY <1>0, <1>2, <1>4, AppType DEF Expiry
  <2> QED  BY <2>1, <2>2, ReceivedExpiry
<1>12. Talks'
  <2>1. \A t \in Streams : /\ strm'[t].uuid = strm[t].uuid
                           /\ strm'[t].expired = strm[t].expired
    BY <1>4
  <2>2. told' = [told EXCEPT ![u] = "ended"] /\ InQueue' \subseteq InQueue \cup {s}
        /\ app' = app
    BY <1>1, <1>5, <1>7
  <2> QED  BY <1>1, <1>2, <2>1, <2>2, TalksEnd
<1> QED  BY <1>8, <1>9, <1>10, <1>11, <1>12 DEF Working

(* A stream that is over goes back to the pool at once. *)
LEMMA DiscardKeeps ==
    ASSUME Calm, Stage, Working, Received,
           NEW u \in Uuid, NEW what, "none" \notin what, Turn(u, what),
           NEW s, s \in Known(u), Consumed(u), Discard(s)
    PROVE  Working'
<1>0. Typed /\ Held /\ Flagged /\ Expiry /\ Talks
  BY DEF Working
<1>1. /\ UNCHANGED <<strm, internal_out_queue, out_queue, out, timeout_thread,
                     app, active, reconnect_queued, stream_timeout_check>>
      /\ in.pc = "poll" /\ recvd' \in 0 .. MaxRecv
      /\ in'.left = {} /\ in'.pc = "run"
      /\ \A t \in streams : ~strm[t].expired
      /\ streams' = streams \ {s} /\ pool' = Returned(pool, <<s>>)
      /\ Quieter
  BY ReceivedIs, ConsumedIs DEF Discard
<1>2. /\ s \in Streams /\ s \in streams /\ s # NoStream
      /\ s \notin Under /\ s # app.s /\ s \notin ToSet(pool)
      /\ strm[s].uuid = u /\ ~strm[s].out /\ told[u] = "open"
      /\ told \in [Uuid -> {"unused", "open", "ended", "timed out"}]
  BY AnsweredIs
<1>3. told' = [told EXCEPT ![u] = "ended"]
  BY <1>2, TellIs DEF Discard
<1>4. Once(pool') /\ ToSet(pool') = ToSet(pool) \cup {s}
  BY <1>0, <1>1, <1>2, ReturnedOne DEF Typed
<1>5. InQueue' = InQueue /\ Under' = Under
  BY <1>1 DEF Under, InQueue
<1>6. Typed'
  <2>1. told' \in [Uuid -> {"unused", "open", "ended", "timed out"}]
    BY <1>2, <1>3
  <2> QED  BY <1>0, <1>1, <1>2, <1>4, <2>1 DEF Typed, Quieter
<1>7. Held'
  BY <1>0, <1>1, <1>2, <1>4, <1>5 DEF Held
<1>8. Flagged'
  BY <1>0, <1>1, <1>2, <1>5, OutType DEF Flagged, OnItsWay, Under
<1>9. Expiry'
  <2>1. app.pc = "new" => ~strm'[app.s].aged
    BY <1>0, <1>1 DEF Expiry
  <2> QED  BY <1>1, <2>1, ReceivedExpiry
<1>10. Talks'
  BY <1>1, <1>2, <1>3, <1>5, TalksEnd
<1> QED  BY <1>6, <1>7, <1>8, <1>9, <1>10 DEF Working

(* START: the stream is listed and its first answer queued. *)
LEMMA StartKeeps ==
    ASSUME Calm, Stage, Working, NEW u \in Uuid, ReceiveStart(u)
    PROVE  Working'
<1> DEFINE s == Last(pool)
<1>0. Typed /\ Held /\ Flagged /\ Expiry /\ Talks
  BY DEF Working
<1>1. /\ UNCHANGED <<out_queue, out, timeout_thread, app, active,
                     reconnect_queued, stream_timeout_check, peer>>
      /\ in.pc = "poll" /\ recvd' \in 0 .. MaxRecv
      /\ in'.left = {} /\ in'.pc = "run"
      /\ \A t \in streams : ~strm[t].expired
      /\ pool # <<>> /\ pool' = Front(pool) /\ streams' = streams \cup {s}
      /\ internal_out_queue' = Pushed(internal_out_queue, InternalCap, s)
      /\ told[u] = "unused" /\ told' = [told EXCEPT ![u] = "open"]
      /\ Received
  BY ReceivedIs DEF ReceiveStart, PushInternal
<1>2. /\ s \in Streams /\ s \in ToSet(pool) /\ s # app.s
      /\ s \notin streams \cup Under /\ s # NoStream
      /\ Once(pool') /\ ToSet(pool') = ToSet(pool) \ {s}
  BY <1>1, FreshIs
<1>3. PICK m \in {"continue", "end"} :
        strm' = [strm EXCEPT ![s] =
                   [uuid |-> u, out |-> TRUE, free_on_send |-> FALSE,
                    expired |-> FALSE, aged |-> FALSE, msg |-> m]]
  BY DEF ReceiveStart
<1>4. strm \in [Streams -> Stream]
  BY <1>0 DEF Typed
<1>5. /\ strm' \in [Streams -> Stream]
      /\ \A t \in Streams \ {s} : strm'[t] = strm[t]
      /\ strm'[s].out = TRUE /\ strm'[s].free_on_send = FALSE
      /\ strm'[s].uuid = u /\ strm'[s].expired = FALSE
  <2>1. [uuid |-> u, out |-> TRUE, free_on_send |-> FALSE,
         expired |-> FALSE, aged |-> FALSE, msg |-> m] \in Stream
    BY DEF Stream, Message
  <2> QED  BY <1>2, <1>3, <1>4, <2>1
<1>6. /\ Once(internal_out_queue')
      /\ ToSet(internal_out_queue') = ToSet(internal_out_queue) \cup {s}
  <2>1. Once(internal_out_queue) /\ s \notin ToSet(internal_out_queue)
    BY <1>0, <1>2 DEF Typed, Under, InQueue
  <2> QED  BY <1>1, <1>2, <2>1, PushedIs DEF Calm
<1>7. InQueue' = InQueue \cup {s} /\ Under' = Under \cup {s}
  BY <1>1, <1>6 DEF Under, InQueue
<1>8. Typed'
  <2>1. told' \in [Uuid -> {"unused", "open", "ended", "timed out"}]
    BY <1>0, <1>1 DEF Typed
  <2> QED  BY <1>0, <1>1, <1>2, <1>5, <1>6, <2>1 DEF Typed
<1>9. Held'
  <2>1. ToSet(internal_out_queue') \cap ToSet(out_queue') = {}
    BY <1>0, <1>1, <1>2, <1>6 DEF Held, InQueue, Under
  <2>2. out'.s \notin InQueue' /\ ToSet(pool') \cap (streams' \cup Under') = {}
    <3>1. out.s # s /\ out.s \notin InQueue
      BY <1>0, <1>2 DEF Held, Under
    <3>2. ToSet(pool) \cap (streams \cup Under) = {}
      BY <1>0 DEF Held
    <3> QED  BY <1>1, <1>2, <1>7, <3>1, <3>2
  <2>3. app.s \notin Under' \ {NoStream} /\ app.s \in streams' \cup {NoStream}
    BY <1>0, <1>1, <1>2, <1>7 DEF Held
  <2>4. Streams \subseteq ToSet(pool') \cup streams' \cup Under'
    BY <1>0, <1>1, <1>2, <1>7 DEF Held
  <2> QED  BY <1>1, <2>1, <2>2, <2>3, <2>4 DEF Held
<1>10. Flagged'
  <2>1. \A t \in Streams : OnItsWay(t)' <=> OnItsWay(t) \/ t = s
    BY <1>1, <1>7 DEF OnItsWay
  <2>2. ASSUME NEW t \in Streams
        PROVE  /\ strm'[t].out <=> t \in streams' /\ OnItsWay(t)'
               /\ OnItsWay(t)' => (strm'[t].free_on_send <=> t \notin streams')
    <3>1. CASE t = s
      BY <1>1, <1>5, <2>1, <3>1
    <3>2. CASE t # s
      BY <1>0, <1>1, <1>5, <2>1, <3>2 DEF Flagged
    <3> QED  BY <3>1, <3>2
  <2>3. /\ out'.pc = "free" => out'.s \notin streams'
        /\ out'.pc = "clear" => out'.s \in streams'
    BY <1>0, <1>1, <1>2 DEF Flagged, Under
  <2> QED  BY <2>2, <2>3 DEF Flagged
<1>11. Expiry'
  <2>1. \A t \in streams' : ~strm'[t].expired
    BY <1>0, <1>1, <1>5, OutType
  <2>2. app.pc = "new" => ~strm'[app.s].aged
    BY <1>0, <1>2, <1>5, AppType DEF Expiry
  <2> QED  BY <1>1, <2>1, <2>2, ReceivedExpiry
<1>12. Talks'
  <2>1. Quieter
    BY <1>0, <1>1 DEF Quieter, Typed
  <2>2. InQueue' \subseteq InQueue \cup {s} /\ app' = app /\ s \notin streams
    BY <1>1, <1>2, <1>7
  <2> QED  BY <1>1, <1>2, <1>5, <2>1, <2>2, TalksBegin
<1> QED  BY <1>8, <1>9, <1>10, <1>11, <1>12 DEF Working

(* The expected CONTINUE: the next payload of the stream is queued. *)
LEMMA ContinueKeeps ==
    ASSUME Calm, Stage, Working, Received,
           NEW u \in Uuid, NEW what, "none" \notin what, Turn(u, what),
           NEW s, s \in Known(u), Consumed(u),
           NEW m \in {"continue", "end"},
           strm' = [strm EXCEPT ![s].out = TRUE, ![s].aged = FALSE,
                                ![s].free_on_send = FALSE, ![s].msg = m],
           PushInternal(s), UNCHANGED <<pool, streams, told>>
    PROVE  Working'
<1> DEFINE r == strm[s]
<1>0. Typed /\ Held /\ Flagged /\ Expiry /\ Talks
  BY DEF Working
<1>1. /\ UNCHANGED <<pool, streams, told, out_queue, out, timeout_thread, app,
                     active, reconnect_queued, stream_timeout_check>>
      /\ in.pc = "poll" /\ recvd' \in 0 .. MaxRecv
      /\ in'.left = {} /\ in'.pc = "run"
      /\ \A t \in streams : ~strm[t].expired
      /\ internal_out_queue' = Pushed(internal_out_queue, InternalCap, s)
      /\ Quieter /\ peer'[u] = "none"
  BY ReceivedIs, ConsumedIs DEF PushInternal
<1>2. /\ s \in Streams /\ s \in streams /\ s # NoStream
      /\ s \notin Under /\ s # app.s /\ s \notin ToSet(pool)
      /\ strm \in [Streams -> Stream] /\ r \in Stream /\ r.uuid = u
      /\ ~r.out /\ ~r.expired
  BY AnsweredIs
<1>3. strm' = [strm EXCEPT ![s] = [r EXCEPT !.out = TRUE, !.aged = FALSE,
                                            !.free_on_send = FALSE, !.msg = m]]
  BY <1>2 DEF Stream
<1>4. /\ strm' \in [Streams -> Stream]
      /\ \A t \in Streams \ {s} : strm'[t] = strm[t]
      /\ strm'[s].out = TRUE /\ strm'[s].free_on_send = FALSE
      /\ strm'[s].uuid = r.uuid /\ strm'[s].expired = r.expired
  <2>1. ASSUME NEW e, e = [r EXCEPT !.out = TRUE, !.aged = FALSE,
                                    !.free_on_send = FALSE, !.msg = m]
        PROVE  /\ e \in Stream /\ e.out = TRUE /\ e.free_on_send = FALSE
               /\ e.uuid = r.uuid /\ e.expired = r.expired
    BY <1>2, <2>1 DEF Stream, Message
  <2> QED  BY <1>2, <1>3, <2>1
<1>5. /\ Once(internal_out_queue')
      /\ ToSet(internal_out_queue') = ToSet(internal_out_queue) \cup {s}
  <2>1. Once(internal_out_queue) /\ s \notin ToSet(internal_out_queue)
    BY <1>0, <1>2 DEF Typed, Under, InQueue
  <2> QED  BY <1>1, <1>2, <2>1, PushedIs DEF Calm
<1>6. InQueue' = InQueue \cup {s} /\ Under' = Under \cup {s}
  BY <1>1, <1>5 DEF Under, InQueue
<1>7. Typed'
  BY <1>0, <1>1, <1>4, <1>5 DEF Typed, Quieter
<1>8. Held'
  <2>1. ToSet(internal_out_queue') \cap ToSet(out_queue') = {}
    BY <1>0, <1>1, <1>2, <1>5 DEF Held, InQueue, Under
  <2>2. out'.s \notin InQueue' /\ ToSet(pool') \cap (streams' \cup Under') = {}
    <3>1. out.s # s /\ out.s \notin InQueue
      BY <1>0, <1>2 DEF Held, Under
    <3>2. ToSet(pool) \cap (streams \cup Under) = {}
      BY <1>0 DEF Held
    <3> QED  BY <1>1, <1>2, <1>6, <3>1, <3>2
  <2>3. app.s \notin Under' \ {NoStream} /\ app.s \in streams' \cup {NoStream}
    BY <1>0, <1>1, <1>2, <1>6 DEF Held
  <2>4. Streams \subseteq ToSet(pool') \cup streams' \cup Under'
    BY <1>0, <1>1, <1>6 DEF Held
  <2> QED  BY <1>1, <2>1, <2>2, <2>3, <2>4 DEF Held
<1>9. Flagged'
  BY <1>0, <1>1, <1>2, <1>4, <1>6, OutType DEF Flagged, OnItsWay
<1>10. Expiry'
  <2>1. \A t \in streams' : ~strm'[t].expired
    BY <1>0, <1>1, <1>2, <1>4, OutType
  <2>2. app.pc = "new" => ~strm'[app.s].aged
    BY <1>0, <1>2, <1>4, AppType DEF Expiry
  <2> QED  BY <2>1, <2>2, ReceivedExpiry
<1>11. Talks'
  <2>1. \A t \in Streams : /\ strm'[t].uuid = strm[t].uuid
                           /\ strm'[t].expired = strm[t].expired
    BY <1>4
  <2>2. OneStream' /\ Begun' /\ Unasked'
    BY <1>0, <1>1, <2>1 DEF Talks, OneStream, Begun, Unasked, Quieter
  <2>3. ASSUME NEW t \in streams
        PROVE  /\ strm'[t].uuid # NoUuid /\ told'[strm'[t].uuid] = Told(t)'
               /\ peer'[strm'[t].uuid] # "none"
                    => t \notin InQueue' /\ t # app'.s
    <3>1. t \in Streams /\ strm[t].uuid \in Uuid /\ Told(t)' = Told(t)
      BY <1>0, <1>2, <2>1, OutType, StreamIs DEF Talks, Listed, Told
    <3>2. /\ strm[t].uuid # NoUuid /\ told[strm[t].uuid] = Told(t)
          /\ peer[strm[t].uuid] # "none" => t \notin InQueue /\ t # app.s
      BY <1>0 DEF Talks, Listed
    <3>3. peer'[strm[t].uuid] # "none" => peer[strm[t].uuid] # "none" /\ t # s
      BY <1>1, <1>2, <3>1 DEF Quieter
    <3> QED  BY <1>1, <1>6, <2>1, <3>1, <3>2, <3>3
  <2>4. Listed'
    BY <1>1, <2>3 DEF Listed
  <2> QED  BY <2>2, <2>4 DEF Talks
<1> QED  BY <1>7, <1>8, <1>9, <1>10, <1>11 DEF Working

(* Packets that change nothing but the age of a stream. *)
LEMMA QuietKeeps ==
    ASSUME Stage, Working, Received, Quieter,
           UNCHANGED <<pool, streams, told, internal_out_queue>>,
           strm' \in [Streams -> Stream],
           \A t \in Streams : /\ strm'[t].uuid = strm[t].uuid
                              /\ strm'[t].out = strm[t].out
                              /\ strm'[t].free_on_send = strm[t].free_on_send
                              /\ strm'[t].expired = strm[t].expired
                              /\ strm'[t].aged = strm[t].aged \/ t # app.s
    PROVE  Working'
<1>0. Typed /\ Held /\ Flagged /\ Expiry /\ Talks
  BY DEF Working
<1>1. /\ UNCHANGED <<out_queue, out, timeout_thread, app, active,
                     reconnect_queued, stream_timeout_check>>
      /\ in.pc = "poll" /\ recvd' \in 0 .. MaxRecv
      /\ in'.left = {} /\ in'.pc = "run"
  BY ReceivedIs
<1>2. Typed'
  BY <1>0, <1>1 DEF Typed, Quieter
<1>3. Held'
  BY <1>0, <1>1, HeldStays DEF queues
<1>4. Flagged'
  <2>1. /\ out'.pc = "free" => out.s \notin streams
        /\ out'.pc = "clear" => out.s \in streams
    BY <1>0, <1>1 DEF Flagged
  <2> QED  BY <1>0, <1>1, <2>1, FlaggedStays DEF queues
<1>5. Expiry'
  BY <1>0, <1>1, ExpiryStays
<1>6. Talks'
  BY <1>0, <1>1, TalksStays DEF queues
<1> QED  BY <1>2, <1>3, <1>4, <1>5, <1>6 DEF Working

LEMMA ReceiveKeeps == ASSUME Calm, Stage, Working, Receive PROVE Working'
<1>0. Typed /\ strm \in [Streams -> Stream]
  BY DEF Working, Typed
<1>1. CASE ReceiveRequest
  <2>1. Quieter
    BY <1>0, <1>1 DEF ReceiveRequest, Quieter, Typed
  <2> QED  BY <1>1, <2>1, ReplyKeeps DEF ReceiveRequest
<1>2. ASSUME NEW u \in Uuid, ReceiveContinue(u) PROVE Working'
  <2> DEFINE what == {"start", "continue"}
  <2>1. Received /\ Turn(u, what) /\ "none" \notin what /\ Consumed(u) /\ Quieter
    BY <1>2, ConsumedIs DEF ReceiveContinue
  <2>2. CASE Reply
    BY <2>1, <2>2, ReplyKeeps
  <2>3. ASSUME NEW s, s \in Known(u), NEW m \in {"continue", "end"},
               strm' = [strm EXCEPT ![s].out = TRUE, ![s].aged = FALSE,
                                    ![s].free_on_send = FALSE, ![s].msg = m],
               PushInternal(s), UNCHANGED <<pool, streams, told>>
        PROVE  Working'
    BY <2>1, <2>3, ContinueKeeps
  <2>4. ASSUME NEW s, s \in Known(u), LastMessage(s) PROVE Working'
    BY <2>1, <2>4, LastMessageKeeps
  <2> QED  BY <1>2, <2>2, <2>3, <2>4 DEF ReceiveContinue
<1>3. ASSUME NEW u \in Uuid, ReceiveWait(u) PROVE Working'
  <2> DEFINE what == {"start", "continue"}
  <2>1. Received /\ Turn(u, what) /\ "none" \notin what
    BY <1>3 DEF ReceiveWait
  <2>2. CASE Reply /\ UNCHANGED peer
    <3>1. Quieter
      BY <1>0, <2>2 DEF Quieter, Typed
    <3> QED  BY <2>1, <2>2, <3>1, ReplyKeeps
  <2>3. ASSUME NEW s, s \in Known(u), strm' = [strm EXCEPT ![s].aged = FALSE],
               UNCHANGED <<pool, streams, told, internal_out_queue, peer>>
        PROVE  Working'
    <3>1. s \in Streams /\ s # app.s /\ strm[s] \in Stream
      BY <2>1, <2>3, AnsweredIs
    <3>2. /\ strm' \in [Streams -> Stream]
          /\ \A t \in Streams \ {s} : strm'[t] = strm[t]
          /\ strm'[s].uuid = strm[s].uuid /\ strm'[s].out = strm[s].out
          /\ strm'[s].free_on_send = strm[s].free_on_send
          /\ strm'[s].expired = strm[s].expired
      <4>1. ASSUME NEW e, e = [strm[s] EXCEPT !.aged = FALSE]
            PROVE  /\ e \in Stream /\ e.uuid = strm[s].uuid
                   /\ e.out = strm[s].out
                   /\ e.free_on_send = strm[s].free_on_send
                   /\ e.expired = strm[s].expired
        BY <3>1, <4>1 DEF Stream
      <4> QED  BY <1>0, <2>3, <3>1, <4>1
    <3>3. Quieter
      BY <1>0, <2>3 DEF Quieter, Typed
    <3>4. ASSUME NEW t \in Streams
          PROVE  /\ strm'[t].uuid = strm[t].uuid
                 /\ strm'[t].out = strm[t].out
                 /\ strm'[t].free_on_send = strm[t].free_on_send
                 /\ strm'[t].expired = strm[t].expired
                 /\ strm'[t].aged = strm[t].aged \/ t # app.s
      BY <3>1, <3>2
    <3> QED  BY <2>1, <2>3, <3>2, <3>3, <3>4, QuietKeeps
  <2>4. ASSUME NEW s, s \in Known(u), LastMessage(s), Consumed(u) PROVE Working'
    BY <2>1, <2>4, LastMessageKeeps
  <2> QED  BY <1>3, <2>2, <2>3, <2>4 DEF ReceiveWait
<1>4. ASSUME NEW u \in Uuid, ReceiveEnd(u) PROVE Working'
  <2> DEFINE what == {"start", "continue"}
  <2>1. Received /\ Turn(u, what) /\ "none" \notin what /\ Consumed(u) /\ Quieter
    BY <1>4, ConsumedIs DEF ReceiveEnd
  <2>2. CASE Reply
    BY <2>1, <2>2, ReplyKeeps
  <2>3. ASSUME NEW s, s \in Known(u), LastMessage(s) PROVE Working'
    BY <2>1, <2>3, LastMessageKeeps
  <2> QED  BY <1>4, <2>2, <2>3 DEF ReceiveEnd
<1>5. ASSUME NEW u \in Uuid, NEW what, "none" \notin what, Received,
             Turn(u, what), Consumed(u),
             \/ UNCHANGED <<pool, streams, strm, told, internal_out_queue>>
             \/ \E s \in Known(u) : Discard(s)
      PROVE  Working'
  <2>1. Quieter
    BY <1>5, ConsumedIs
  <2>2. CASE UNCHANGED <<pool, streams, strm, told, internal_out_queue>>
    BY <1>0, <1>5, <2>1, <2>2, QuietKeeps
  <2>3. ASSUME NEW s, s \in Known(u), Discard(s) PROVE Working'
    BY <1>5, <2>3, DiscardKeeps
  <2> QED  BY <1>5, <2>2, <2>3
<1>6. ASSUME NEW u \in Uuid, ReceiveComplete(u) \/ ReceiveHeartbeatReply(u)
      PROVE  Working'
  <2>1. CASE ReceiveComplete(u)
    <3> DEFINE what == {"start", "continue", "end"}
    <3>1. "none" \notin what /\ Received /\ Turn(u, what) /\ Consumed(u)
      BY <2>1 DEF ReceiveComplete
    <3>2. \/ UNCHANGED <<pool, streams, strm, told, internal_out_queue>>
          \/ \E s \in Known(u) : Discard(s)
      BY <2>1 DEF ReceiveComplete
    <3> HIDE DEF what
    <3> QED  BY <1>5, <3>1, <3>2
  <2>2. CASE ReceiveHeartbeatReply(u)
    <3> DEFINE what == {"heartbeat"}
    <3>1. "none" \notin what /\ Received /\ Turn(u, what) /\ Consumed(u)
      BY <2>2 DEF ReceiveHeartbeatReply
    <3>2. \/ UNCHANGED <<pool, streams, strm, told, internal_out_queue>>
          \/ \E s \in Known(u) : Discard(s)
      BY <2>2 DEF ReceiveHeartbeatReply
    <3> HIDE DEF what
    <3> QED  BY <1>5, <3>1, <3>2
  <2> QED  BY <1>6, <2>1, <2>2
<1> QED  BY <1>1, <1>2, <1>3, <1>4, <1>6, StartKeeps DEF Receive

-----------------------------------------------------------------------------
(* IN and TIMEOUT, without a packet.                                       *)

LEMMA InQuietKeeps ==
    ASSUME Working, Quieter,
           UNCHANGED <<pool, streams, strm, internal_out_queue, out_queue, out,
                       app, told, recvd>>,
           {timeout_thread', active', reconnect_queued', stream_timeout_check'}
             \subseteq BOOLEAN,
           \/ in' = in
           \/ /\ in.pc # "scan" /\ in'.pc = "scan" /\ in'.left = streams
              /\ app.pc = "new" => in'.goal = "check"
           \/ in.pc # "scan" /\ in'.pc # "scan" /\ in'.left = {}
    PROVE  Working'
<1>0. Typed /\ Held /\ Flagged /\ Expiry /\ Talks
  BY DEF Working
<1>1. Typed'
  BY <1>0 DEF Typed, Quieter
<1>2. Held' /\ Expiry' /\ Talks'
  BY <1>0, HeldStays, ExpiryStays, TalksStays DEF queues
<1>3. Flagged'
  BY <1>0, FlaggedStays DEF queues, Flagged, OnItsWay
<1> QED  BY <1>1, <1>2, <1>3 DEF Working

(* IN begins to look at all streams: at those that are old, or, while APP  *)
(* is not about to send, at each.                                          *)
LEMMA ScanForKeeps ==
    ASSUME Calm, Working, NEW goal, ScanFor(goal), in.pc # "scan",
           goal = "check" \/ MayOverride,
           UNCHANGED <<pool, streams, strm, queues, out, timeout_thread, app,
                       active, reconnect_queued, peer, told, recvd>>
    PROVE  Working'
<1>1. /\ in'.pc = "scan" /\ in'.left = streams /\ in'.goal = goal
      /\ stream_timeout_check' = FALSE
  BY DEF ScanFor
<1>2. app.pc = "new" => goal = "check"
  BY DEF MayOverride, Calm
<1>3. Quieter
  BY DEF Working, Typed, Quieter
<1>4. {timeout_thread', active', reconnect_queued', stream_timeout_check'}
        \subseteq BOOLEAN
  BY <1>1 DEF Working, Typed
<1>5. UNCHANGED <<pool, streams, strm, internal_out_queue, out_queue, out, app,
                  told, recvd>>
  BY DEF queues
<1> QED  BY <1>1, <1>2, <1>3, <1>4, <1>5, InQuietKeeps

LEMMA InIdleKeeps ==
    ASSUME Calm, Stage, Working, ~Stopping,
           InRun \/ InTimed \/ InIdle \/ InLost \/ InNotified \/ InReconnect
             \/ InRetry
    PROVE  Working' \/ Stopping'
<1>0. Typed /\ Expiry
  BY DEF Working
<1>1. /\ in = [pc |-> in.pc, left |-> in.left, goal |-> in.goal]
      /\ in.pc # "scan" => in.left = {}
  BY <1>0 DEF Stage, Expiry
<1>2. Quieter \/ peer' # peer
  BY <1>0 DEF Typed, Quieter
<1>3. ASSUME NEW p \in {"run", "timed", "poll"}, in.pc # "scan",
             in'.pc = p, in'.left = {}, Quieter,
             UNCHANGED <<pool, streams, strm, queues, out, timeout_thread, app,
                         told, recvd>>,
             {active', reconnect_queued', stream_timeout_check'} \subseteq BOOLEAN
      PROVE  Working'
  <2>1. UNCHANGED <<pool, streams, strm, internal_out_queue, out_queue, out, app,
                    told, recvd>>
    BY <1>3 DEF queues
  <2>2. {timeout_thread', active', reconnect_queued', stream_timeout_check'}
          \subseteq BOOLEAN
    BY <1>0, <1>3 DEF Typed
  <2> QED  BY <1>3, <2>1, <2>2, InQuietKeeps
<1>4. CASE InRun
  <2>1. in.pc = "run" /\ Quieter
    BY <1>2, <1>4 DEF InRun
  <2>2. CASE ScanFor("check")
    BY <1>4, <2>1, <2>2, ScanForKeeps DEF InRun
  <2>3. CASE in' = [in EXCEPT !.pc = "timed"] /\ UNCHANGED stream_timeout_check
    BY <1>0, <1>1, <1>3, <1>4, <2>1, <2>3 DEF InRun, Typed
  <2>4. CASE ScanFor("exit")
    BY <2>4 DEF ScanFor, Stopping
  <2> QED  BY <1>4, <2>2, <2>3, <2>4 DEF InRun
<1>5. CASE InTimed
  <2>1. in.pc = "timed" /\ Quieter
    BY <1>2, <1>5 DEF InTimed
  <2>2. CASE ScanFor("queued") /\ MayOverride
    BY <1>5, <2>1, <2>2, ScanForKeeps DEF InTimed
  <2>3. CASE in' = [in EXCEPT !.pc = "poll"] /\ UNCHANGED stream_timeout_check
    BY <1>0, <1>1, <1>3, <1>5, <2>1, <2>3 DEF InTimed, Typed
  <2> QED  BY <1>5, <2>2, <2>3 DEF InTimed
<1>6. CASE InIdle
  BY <1>0, <1>1, <1>2, <1>3, <1>6 DEF InIdle, Typed, flags
<1>7. CASE InLost
  BY <1>7, ScanForKeeps DEF InLost
<1>8. CASE InNotified
  BY <1>0, <1>1, <1>2, <1>3, <1>8 DEF InNotified, Typed
<1>9. CASE InReconnect
  <2>1. /\ in.pc = "reconnect" /\ in'.left = {} /\ in'.pc \in {"poll", "run"}
        /\ active' \in BOOLEAN /\ reconnect_queued' \in BOOLEAN
        /\ stream_timeout_check' \in BOOLEAN
        /\ UNCHANGED <<pool, streams, strm, queues, out, timeout_thread, app,
                       told, recvd>>
        /\ peer' = [u \in Uuid |-> "none"]
    BY <1>0, <1>9 DEF InReconnect, Typed
  <2>2. Quieter
    BY <2>1 DEF Quieter
  <2> QED  BY <1>3, <2>1, <2>2
<1>10. CASE InRetry
  BY <1>10, ScanForKeeps DEF InRetry
<1> QED  BY <1>4, <1>5, <1>6, <1>7, <1>8, <1>9, <1>10

LEMMA TimeoutKeeps ==
    ASSUME Working, TimeoutTick \/ TimeoutExit \/ Disconnect
    PROVE  Working'
<1>1. Quieter
  BY DEF Working, Typed, Quieter, TimeoutTick, TimeoutExit, Disconnect
<1>2. /\ UNCHANGED <<pool, streams, strm, internal_out_queue, out_queue, out,
                     app, told, recvd, in>>
      /\ {timeout_thread', active', reconnect_queued', stream_timeout_check'}
           \subseteq BOOLEAN
  BY DEF Working, Typed, TimeoutTick, TimeoutExit, Disconnect, queues, flags
<1> QED  BY <1>1, <1>2, InQuietKeeps

LEMMA AgeKeeps == ASSUME Working, NEW s \in Streams, Age(s) PROVE Working'
<1>0. Typed /\ Held /\ Flagged /\ Expiry /\ Talks
  BY DEF Working
<1>1. /\ UNCHANGED <<pool, streams, internal_out_queue, out_queue, in, out,
                     timeout_thread, app, active, reconnect_queued,
                     stream_timeout_check, peer, told, recvd>>
      /\ s # app.s /\ strm' = [strm EXCEPT ![s].aged = TRUE]
      /\ strm \in [Streams -> Stream] /\ strm[s] \in Stream
  BY <1>0 DEF Age, queues, flags, Typed
<1>2. /\ strm' \in [Streams -> Stream]
      /\ \A t \in Streams \ {s} : strm'[t] = strm[t]
      /\ strm'[s].uuid = strm[s].uuid /\ strm'[s].out = strm[s].out
      /\ strm'[s].free_on_send = strm[s].free_on_send
      /\ strm'[s].expired = strm[s].expired
  <2>1. ASSUME NEW e, e = [strm[s] EXCEPT !.aged = TRUE]
        PROVE  /\ e \in Stream /\ e.uuid = strm[s].uuid /\ e.out = strm[s].out
               /\ e.free_on_send = strm[s].free_on_send
               /\ e.expired = strm[s].expired
    BY <1>1, <2>1 DEF Stream
  <2> QED  BY <1>1, <2>1
<1>3. ASSUME NEW t \in Streams
      PROVE  /\ strm'[t].uuid = strm[t].uuid
             /\ strm'[t].out = strm[t].out
             /\ strm'[t].free_on_send = strm[t].free_on_send
             /\ strm'[t].expired = strm[t].expired
             /\ strm'[t].aged = strm[t].aged \/ t # app.s
  BY <1>1, <1>2
<1>4. Typed'
  BY <1>0, <1>1, <1>2 DEF Typed
<1>5. Held'
  BY <1>0, <1>1, HeldStays DEF queues
<1>6. Flagged'
  <2>1. /\ out'.pc = "free" => out.s \notin streams
        /\ out'.pc = "clear" => out.s \in streams
    BY <1>0, <1>1 DEF Flagged
  <2> QED  BY <1>0, <1>1, <1>3, <2>1, FlaggedStays DEF queues
<1>7. Expiry'
  BY <1>0, <1>1, <1>3, ExpiryStays
<1>8. Talks'
  <2>1. Quieter
    BY <1>0, <1>1 DEF Quieter, Typed
  <2> QED  BY <1>0, <1>1, <1>3, <2>1, TalksStays DEF queues
<1> QED  BY <1>4, <1>5, <1>6, <1>7, <1>8 DEF Working

(* A stream that is timed out is neither queued nor about to be, and is    *)
(* looked at once.                                                         *)
LEMMA ScanStreamKeeps ==
    ASSUME Stage, Working, NEW s \in Streams, ScanStream(s)
    PROVE  Working'
<1> DEFINE r == strm[s]
           u == r.uuid
<1>0. Typed /\ Held /\ Flagged /\ Expiry /\ Talks
  BY DEF Working
<1>1. /\ UNCHANGED <<pool, streams, internal_out_queue, out_queue, out,
                     timeout_thread, app, active, reconnect_queued,
                     stream_timeout_check, peer, recvd>>
      /\ in.pc = "scan" /\ s \in in.left /\ s \in streams
      /\ in' = [pc |-> "scan", left |-> in.left \ {s}, goal |-> in.goal]
      /\ strm \in [Streams -> Stream] /\ r \in Stream
  BY <1>0 DEF ScanStream, queues, flags, Typed, Stage
<1>2. CASE UNCHANGED <<strm, told>>
  <2>1. Typed'
    BY <1>0, <1>1, <1>2 DEF Typed
  <2>2. Held'
    BY <1>0, <1>1, HeldStays DEF queues
  <2>3. Flagged'
    BY <1>0, <1>1, <1>2, FlaggedStays DEF queues, Flagged, OnItsWay
  <2>4. Expiry'
    BY <1>0, <1>1, <1>2 DEF Expiry
  <2>5. Talks'
    <3>1. Quieter
      BY <1>0, <1>1 DEF Quieter, Typed
    <3> QED  BY <1>0, <1>1, <1>2, <3>1, TalksStays DEF queues
  <2> QED  BY <2>1, <2>2, <2>3, <2>4, <2>5 DEF Working
<1>3. CASE /\ ~r.out /\ (in.goal # "check" \/ r.aged)
           /\ strm' = [strm EXCEPT ![s].expired = TRUE]
           /\ told' = Tell(told, u, "timed out")
  <2>1. ~r.expired
    BY <1>0, <1>1 DEF Expiry
  <2>2. u \in Uuid /\ u # NoUuid /\ told[u] = "open"
    <3>1. u # NoUuid /\ told[u] = Told(s)
      BY <1>0, <1>1 DEF Talks, Listed
    <3>2. u \in Uuid
      BY <1>1, <3>1, StreamIs
    <3> QED  BY <2>1, <3>1, <3>2 DEF Told
  <2>3. told' = [told EXCEPT ![u] = "timed out"]
    BY <1>0, <1>3, <2>2, TellIs DEF Typed
  <2>4. s # app.s
    <3>1. SUFFICES ASSUME s = app.s PROVE FALSE
      OBVIOUS
    <3>2. app.pc \in {"new", "push"}
      BY <1>0, <3>1, StreamsAssumption DEF Typed
    <3>3. app.pc = "push" => r.out
      BY <1>0, <1>1, <3>1 DEF Flagged, OnItsWay
    <3>4. app.pc = "new" => ~r.aged /\ in.goal = "check"
      BY <1>0, <1>1, <3>1 DEF Expiry
    <3> QED  BY <1>3, <3>2, <3>3, <3>4
  <2>5. /\ strm' \in [Streams -> Stream]
        /\ \A t \in Streams \ {s} : strm'[t] = strm[t]
        /\ strm'[s].uuid = u /\ strm'[s].out = r.out
        /\ strm'[s].free_on_send = r.free_on_send
        /\ strm'[s].expired = TRUE /\ strm'[s].aged = r.aged
    <3>1. ASSUME NEW e, e = [r EXCEPT !.expired = TRUE]
          PROVE  /\ e \in Stream /\ e.uuid = u /\ e.out = r.out
                 /\ e.free_on_send = r.free_on_send
                 /\ e.expired = TRUE /\ e.aged = r.aged
      BY <1>1, <3>1 DEF Stream
    <3> QED  BY <1>1, <1>3, <3>1
  <2>6. /\ told' \in [Uuid -> {"unused", "open", "ended", "timed out"}]
        /\ told'[u] = "timed out"
        /\ \A v \in Uuid \ {u} : told'[v] = told[v]
    BY <1>0, <2>2, <2>3 DEF Typed
  <2>7. Typed'
    BY <1>0, <1>1, <2>5, <2>6 DEF Typed
  <2>8. Held'
    BY <1>0, <1>1, HeldStays DEF queues
  <2>9. Flagged'
    <3>1. ASSUME NEW t \in Streams
          PROVE  /\ strm'[t].out = strm[t].out
                 /\ strm'[t].free_on_send = strm[t].free_on_send
      BY <2>5
    <3>2. /\ out'.pc = "free" => out.s \notin streams
          /\ out'.pc = "clear" => out.s \in streams
      BY <1>0, <1>1 DEF Flagged
    <3> QED  BY <1>0, <1>1, <3>1, <3>2, FlaggedStays DEF queues
  <2>10. Expiry'
    <3>1. ASSUME NEW t \in streams, strm'[t].expired
          PROVE  t \notin in'.left /\ ~strm'[t].out /\ t # app.s
      <4>1. CASE t = s
        BY <1>1, <1>3, <2>4, <2>5, <4>1
      <4>2. CASE t # s
        <5>1. t \in Streams /\ strm'[t] = strm[t]
          BY <1>0, <2>5, <4>2, OutType
        <5> QED  BY <1>0, <1>1, <3>1, <5>1 DEF Expiry
      <4> QED  BY <4>1, <4>2
    <3>2. app.pc = "new" => /\ ~strm'[app.s].aged
                            /\ in'.goal # "check" => app.s \notin in'.left
      BY <1>0, <1>1, <2>4, <2>5, AppType DEF Expiry
    <3> QED  BY <1>1, <3>1, <3>2 DEF Expiry
  <2>11. Talks'
    <3>1. \A t \in Streams : strm'[t].uuid = strm[t].uuid
      BY <2>5
    <3>2. OneStream' /\ Unasked'
      <4>1. OneStream'
        BY <1>0, <3>1 DEF Talks, OneStream
      <4>2. ASSUME NEW v \in Uuid, told'[v] = "unused" PROVE peer'[v] = "none"
        BY <1>0, <1>1, <2>6, <4>2 DEF Talks, Unasked
      <4> QED  BY <4>1, <4>2 DEF Unasked
    <3>3. ASSUME NEW t \in Streams, strm'[t].uuid # NoUuid
          PROVE  told'[strm'[t].uuid] # "unused"
      <4>1. strm[t].uuid \in Uuid
        BY <1>1, <3>1, <3>3, StreamIs
      <4> QED  BY <1>0, <2>6, <3>1, <3>3, <4>1 DEF Talks, Begun
    <3>4. ASSUME NEW t \in streams
          PROVE  /\ strm'[t].uuid # NoUuid /\ told'[strm'[t].uuid] = Told(t)'
                 /\ peer'[strm'[t].uuid] # "none"
                      => t \notin InQueue' /\ t # app'.s
      <4>1. /\ strm[t].uuid # NoUuid /\ told[strm[t].uuid] = Told(t)
            /\ peer[strm[t].uuid] # "none" => t \notin InQueue /\ t # app.s
        BY <1>0 DEF Talks, Listed
      <4>2. t \in Streams /\ strm[t].uuid \in Uuid /\ strm'[t].uuid = strm[t].uuid
        BY <1>0, <1>1, <3>1, <4>1, OutType, StreamIs
      <4>3. InQueue' = InQueue
        BY <1>1 DEF InQueue
      <4>4. CASE t = s
        BY <1>1, <2>5, <2>6, <4>1, <4>2, <4>3, <4>4 DEF Told
      <4>5. CASE t # s
        <5>1. strm[t].uuid # u
          BY <1>0, <2>2, <4>2, <4>5 DEF Talks, OneStream
        <5>2. Told(t)' = Told(t)
          BY <2>5, <4>2, <4>5 DEF Told
        <5> QED  BY <1>1, <2>6, <4>1, <4>2, <4>3, <5>1, <5>2
      <4> QED  BY <4>4, <4>5
    <3>5. Begun' /\ Listed'
      BY <1>1, <3>3, <3>4 DEF Begun, Listed
    <3> QED  BY <3>2, <3>5 DEF Talks
  <2> QED  BY <2>7, <2>8, <2>9, <2>10, <2>11 DEF Working
<1> QED  BY <1>2, <1>3 DEF ScanStream

LEMMA AfterScanIs ==
    ASSUME NEW goal \in Goal, goal # "none"
    PROVE  /\ AfterScan(goal) \in {"timed", "reconnect", "exit"}
           /\ AfterScan(goal) = "reconnect" => goal \in {"queued", "lost"}
           /\ AfterScan(goal) = "exit" <=> goal \in {"exit", "linger"}
BY DEF AfterScan, Goal

(* The streams that have been timed out go back to the pool, each once.    *)
LEMMA EraseKeeps == ASSUME Stage, Working, EraseExpired PROVE Working'
<1> DEFINE gone == {s \in streams : strm[s].expired}
<1>0. Typed /\ Held /\ Flagged /\ Expiry /\ Talks
  BY DEF Working
<1>1. /\ UNCHANGED <<strm, internal_out_queue, out_queue, out, timeout_thread,
                     app, active, reconnect_queued, stream_timeout_check, peer,
                     told, recvd>>
      /\ in.pc = "scan" /\ in.left = {}
      /\ in' = [in EXCEPT !.pc = AfterScan(in.goal)]
      /\ streams' = streams \ gone
      /\ pool' = Returned(pool, SetToSeq(gone))
  BY DEF EraseExpired, queues, flags
<1>2. in'.pc # "scan" /\ in'.left = {}
  BY <1>1, AfterScanIs DEF Stage
<1>3. /\ gone \subseteq Streams /\ gone \subseteq streams
      /\ gone \cap ToSet(pool) = {} /\ gone \cap Under = {}
      /\ app.s \notin gone /\ \A s \in gone : ~strm[s].out /\ ~OnItsWay(s)
  <2>1. ASSUME NEW s \in gone
        PROVE  /\ s \in Streams /\ s \in streams /\ s \notin ToSet(pool)
               /\ s \notin Under /\ s # app.s /\ ~strm[s].out /\ ~OnItsWay(s)
    <3>1. s \in streams /\ strm[s].expired /\ s \in Streams
      BY <1>0, OutType
    <3>2. ~strm[s].out /\ s # app.s
      BY <1>0, <3>1 DEF Expiry
    <3>3. ~OnItsWay(s)
      BY <1>0, <3>1, <3>2 DEF Flagged
    <3>4. s \notin Under /\ s \notin ToSet(pool)
      BY <1>0, <3>1, <3>3 DEF OnItsWay, Held
    <3> QED  BY <3>1, <3>2, <3>3, <3>4
  <2> HIDE DEF gone
  <2> QED  BY <2>1
<1>4. Once(pool') /\ ToSet(pool') = ToSet(pool) \cup gone
  <2>1. Once(SetToSeq(gone)) /\ ToSet(SetToSeq(gone)) = gone
    BY <1>3, ListedIs
  <2>2. Once(pool) /\ ToSet(pool) \cap ToSet(SetToSeq(gone)) = {}
    BY <1>0, <1>3, <2>1 DEF Typed
  <2> HIDE DEF gone
  <2> QED  BY <1>1, <2>1, <2>2, ReturnedIs
<1>5. InQueue' = InQueue /\ Under' = Under
  BY <1>1 DEF Under, InQueue
<1>6. \A s \in streams' : ~strm'[s].expired
  BY <1>1
<1> HIDE DEF gone
<1>7. Typed'
  BY <1>0, <1>1, <1>2, <1>4 DEF Typed
<1>8. Held'
  BY <1>0, <1>1, <1>3, <1>4, <1>5 DEF Held
<1>9. Flagged'
  <2>1. \A s \in Streams : OnItsWay(s)' <=> OnItsWay(s)
    BY <1>1, <1>5 DEF OnItsWay
  <2>2. ASSUME NEW s \in Streams
        PROVE  /\ strm'[s].out <=> s \in streams' /\ OnItsWay(s)'
               /\ OnItsWay(s)' => (strm'[s].free_on_send <=> s \notin streams')
    BY <1>0, <1>1, <1>3, <2>1 DEF Flagged
  <2>3. /\ out'.pc = "free" => out'.s \notin streams'
        /\ out'.pc = "clear" => out'.s \in streams'
    <3>1. out.pc = "clear" => out.s \notin gone
      BY <1>3 DEF Under
    <3> QED  BY <1>0, <1>1, <3>1 DEF Flagged
  <2> QED  BY <2>2, <2>3 DEF Flagged
<1>10. Expiry'
  BY <1>0, <1>1, <1>2, <1>6 DEF Expiry
<1>11. Talks'
  <2>1. OneStream' /\ Begun' /\ Unasked'
    BY <1>0, <1>1 DEF Talks, OneStream, Begun, Unasked
  <2>2. Listed'
    BY <1>0, <1>1, <1>5 DEF Talks, Listed, Told
  <2> QED  BY <2>1, <2>2 DEF Talks
<1> QED  BY <1>7, <1>8, <1>9, <1>10, <1>11 DEF Working

-----------------------------------------------------------------------------
(* The invariant holds of every step.                                      *)

LEMMA NextStage ==
    ASSUME Stage, [Next]_vars
    PROVE  Stage' /\ (Stopping => Stopping')
<1>0. /\ in = [pc |-> in.pc, left |-> in.left, goal |-> in.goal]
      /\ in.goal \in Goal
  BY DEF Stage
<1>1. CASE in' = in
  BY <1>1 DEF Stage, Stopping
<1>2. ASSUME NEW goal \in Goal \ {"none"}, ScanFor(goal),
             Stopping => goal \in {"exit", "linger"}
      PROVE  Stage' /\ (Stopping => Stopping')
  <2>1. in' = [pc |-> "scan", left |-> streams, goal |-> goal]
    BY <1>2 DEF ScanFor
  <2> QED  BY <1>2, <2>1 DEF Stage, Stopping, Goal
<1>3. CASE Receive
  <2>1. in.pc = "poll" /\ in' = [in EXCEPT !.pc = "run"]
    BY <1>3 DEF Receive, ReceiveRequest, ReceiveStart, ReceiveContinue,
                ReceiveWait, ReceiveEnd, ReceiveComplete,
                ReceiveHeartbeatReply, Received
  <2> QED  BY <2>1 DEF Stage, Stopping
<1>4. CASE In
  <2>1. CASE InRun
    BY <1>2, <2>1 DEF InRun, Stage, Stopping, Goal
  <2>2. CASE InTimed
    BY <1>2, <2>2 DEF InTimed, Stage, Stopping, Goal
  <2>3. CASE InIdle \/ InNotified
    BY <2>3 DEF InIdle, InNotified, Stage, Stopping
  <2>4. CASE InLost
    BY <1>2, <2>4 DEF InLost, Stage, Stopping, Goal
  <2>5. CASE InReconnect
    <3>1. /\ in.pc = "reconnect" /\ ~Stopping
          /\ \E p \in {"poll", "run"} :
               in' = [pc |-> p, left |-> {}, goal |-> "none"]
      BY <2>5 DEF InReconnect, Stage
    <3> QED  BY <3>1 DEF Stage, Stopping, Goal
  <2>6. CASE InRetry
    BY <1>0, <1>2, <2>6 DEF InRetry, Stage, Stopping
  <2>7. ASSUME NEW s \in Streams, ScanStream(s)
        PROVE  Stage' /\ (Stopping => Stopping')
    <3>1. in' = [pc |-> in.pc, left |-> in.left \ {s}, goal |-> in.goal]
      BY <1>0, <2>7 DEF ScanStream
    <3> QED  BY <3>1 DEF Stage, Stopping
  <2>8. CASE EraseExpired
    <3>1. /\ in.pc = "scan" /\ in.goal # "none"
          /\ in' = [pc |-> AfterScan(in.goal), left |-> in.left, goal |-> in.goal]
      BY <1>0, <2>8 DEF EraseExpired, Stage
    <3>2. /\ AfterScan(in.goal) \in {"timed", "reconnect", "exit"}
          /\ AfterScan(in.goal) = "reconnect" => in.goal \in {"queued", "lost"}
          /\ AfterScan(in.goal) = "exit" <=> Stopping
      BY <1>0, <3>1, AfterScanIs DEF Stopping
    <3> QED  BY <1>0, <3>1, <3>2 DEF Stage, Stopping
  <2> QED  BY <1>4, <2>1, <2>2, <2>3, <2>4, <2>5, <2>6, <2>7, <2>8 DEF In
<1>5. CASE Exit
  <2>1. CASE ExitWait
    BY <1>2, <2>1 DEF ExitWait, Goal
  <2>2. CASE ExitRemove
    <3>1. in.pc = "exit" /\ in' = [in EXCEPT !.pc = "gone"]
      BY <2>2 DEF ExitRemove
    <3> QED  BY <3>1 DEF Stage, Stopping
  <2> QED  BY <1>5, <2>1, <2>2 DEF Exit
<1>6. CASE App \/ Forward \/ Out \/ TimeoutTick \/ TimeoutExit \/ Disconnect
           \/ (\E s \in Streams : Age(s)) \/ vars' = vars
  <2>1. in' = in
    BY <1>6 DEF App, AppNewStream, AppSendHeader, AppPush, Forward, Out, OutPop,
                OutSend, OutSendFails, OutCheck, OutFree, OutClear, OutExit,
                TimeoutTick, TimeoutExit, Disconnect, Age, vars
  <2> QED  BY <1>1, <2>1
<1> QED  BY <1>3, <1>4, <1>5, <1>6 DEF Next

LEMMA Inductive == ASSUME Calm, Inv, [Next]_vars PROVE Inv'
<1>1. Stage /\ Stage' /\ (Stopping => Stopping')
  BY NextStage DEF Inv
<1>2. CASE ~Stopping
  <2>1. Working
    BY <1>2 DEF Inv
  <2>2. CASE App \/ Forward \/ Out \/ Receive
    BY <1>1, <2>1, <2>2, AppKeeps, ForwardKeeps, OutKeeps, ReceiveKeeps DEF Inv
  <2>3. CASE In
    BY <1>1, <1>2, <2>1, <2>3, InIdleKeeps, ScanStreamKeeps, EraseKeeps DEF In, Inv
  <2>4. CASE Exit
    BY <1>1, <1>2, <2>4 DEF Exit, ExitWait, ExitRemove, Stage
  <2>5. CASE TimeoutTick \/ TimeoutExit \/ Disconnect
             \/ \E s \in Streams : Age(s)
    BY <1>1, <2>1, <2>5, TimeoutKeeps, AgeKeeps DEF Inv
  <2>6. CASE UNCHANGED vars
    <3>1. /\ UNCHANGED <<pool, streams, strm, internal_out_queue, out_queue, out,
                         app, told, recvd, in, timeout_thread, active, peer,
                         reconnect_queued, stream_timeout_check>>
      BY <2>6 DEF vars
    <3>2. Quieter
      BY <2>1, <3>1 DEF Working, Typed, Quieter
    <3>3. {timeout_thread', active', reconnect_queued', stream_timeout_check'}
            \subseteq BOOLEAN
      BY <2>1, <3>1 DEF Working, Typed
    <3>4. Working'
      BY <2>1, <3>1, <3>2, <3>3, InQuietKeeps
    <3> QED  BY <1>1, <3>4 DEF Inv
  <2> QED  BY <2>2, <2>3, <2>4, <2>5, <2>6 DEF Next
<1> QED  BY <1>1, <1>2 DEF Inv

(* Every object is in the pool, and nothing is listed, queued or sent.     *)
LEMMA InitInv == Init => Inv
<1> SUFFICES ASSUME Init PROVE Inv
  OBVIOUS
<1>1. Once(pool) /\ ToSet(pool) = Streams
  BY InitPool DEF Init
<1>2. Once(<<>>) /\ ToSet(<<>>) = {}
  BY OnceEmpty
<1>3. \A s \in Streams : /\ strm[s].uuid = NoUuid /\ strm[s].out = FALSE
                         /\ strm[s].expired = FALSE
  BY DEF Init
<1>4. strm \in [Streams -> Stream]
  BY DEF Init, Stream, Message
<1>5. /\ streams = {} /\ internal_out_queue = <<>> /\ out_queue = <<>>
      /\ in = [pc |-> "run", left |-> {}, goal |-> "none"]
      /\ out = [pc |-> "pop", s |-> NoStream, lane |-> "internal"]
      /\ app = [pc |-> "idle", s |-> NoStream]
      /\ peer = [u \in Uuid |-> "none"]
  BY DEF Init
<1>6. InQueue = {} /\ Under = {NoStream}
  BY <1>2, <1>5 DEF InQueue, Under
<1>7. Stage
  BY <1>5 DEF Stage, Goal, Stopping
<1>8. Typed
  <2>1. /\ told \in [Uuid -> {"unused", "open", "ended", "timed out"}]
        /\ peer \in [Uuid -> {"none"} \cup Answered]
        /\ recvd \in 0 .. MaxRecv
    BY BoundsAssumption DEF Init
  <2>2. {timeout_thread, active, reconnect_queued, stream_timeout_check}
          \subseteq BOOLEAN
    BY DEF Init
  <2> QED  BY <1>1, <1>2, <1>4, <1>5, <2>1, <2>2 DEF Typed
<1>9. Held
  BY <1>1, <1>2, <1>5, <1>6, StreamsAssumption DEF Held
<1>10. Flagged
  BY <1>3, <1>5, <1>6, StreamsAssumption DEF Flagged, OnItsWay
<1>11. Expiry
  BY <1>5 DEF Expiry
<1>12. Talks
  BY <1>3, <1>5 DEF Talks, OneStream, Begun, Unasked, Listed
<1> QED  BY <1>7, <1>8, <1>9, <1>10, <1>11, <1>12 DEF Inv, Working

(* The objects, the flags and the conversations of any client that is not  *)
(* stopping, in the order of events that the flags rely on.                *)
LEMMA InvCorrect == ASSUME Calm PROVE Spec => []Inv
<1>1. Init => Inv
  BY InitInv
<1>2. Inv /\ [Next]_vars => Inv'
  BY Inductive
<1> QED  BY <1>1, <1>2, PTL DEF Spec

LEMMA WorkingAccounted == Working /\ Stage => ObjectsAccounted
<1> SUFFICES ASSUME Working, Stage PROVE ObjectsAccounted
  OBVIOUS
<1>0. Typed /\ Held /\ Flagged /\ Expiry /\ Talks
  BY DEF Working
<1>1. TypeOK
  <2>1. /\ pool \in Seq(Streams) /\ internal_out_queue \in Seq(Streams)
        /\ out_queue \in Seq(Streams) /\ in.left \subseteq Streams
        /\ told \in [Uuid -> {"unused", "open", "ended", "timed out", "again"}]
    BY <1>0 DEF Typed, Once
  <2> QED  BY <1>0, <2>1 DEF Typed, TypeOK, Stage
<1>2. NoDoubleFree
  BY <1>0 DEF NoDoubleFree, Typed, Once
<1>3. InFlight = Under \cap Streams
  <2>1. InQueue \subseteq Streams
    BY <1>0, OnceIn DEF Typed, InQueue
  <2>2. \A s \in Streams : Sending(s) <=> s = out.s
    BY <1>0, OutType, StreamsAssumption DEF Sending, Typed
  <2> QED  BY <2>1, <2>2, StreamsAssumption DEF InFlight, Under, InQueue
<1>4. FreeIsUnused
  <2>1. ToSet(pool) \subseteq Streams /\ NoStream \notin ToSet(pool)
    BY <1>0, OnceIn, StreamsAssumption DEF Typed
  <2> QED  BY <1>0, <1>3, <2>1 DEF FreeIsUnused, Held
<1>5. NoLeak
  BY <1>0, <1>3 DEF NoLeak, Held
<1> QED  BY <1>1, <1>2, <1>4, <1>5 DEF ObjectsAccounted

LEMMA WorkingFlags == Working => PayloadFlags
<1> SUFFICES ASSUME Working PROVE PayloadFlags
  OBVIOUS
<1>0. Typed /\ Held /\ Flagged /\ streams \subseteq Streams
  BY DEF Working, Typed
<1>1. /\ InFlight = Under \cap Streams
      /\ \A s \in Streams : Sending(s) <=> s = out.s
  <2>1. InQueue \subseteq Streams
    BY <1>0, OnceIn DEF Typed, InQueue
  <2>2. \A s \in Streams : Sending(s) <=> s = out.s
    BY <1>0, OutType, StreamsAssumption DEF Sending, Typed
  <2> QED  BY <2>1, <2>2, StreamsAssumption DEF InFlight, Under, InQueue
<1>2. OutFlag
  BY <1>0, <1>1 DEF OutFlag, Flagged, OnItsWay
<1>3. QueuedOnce
  <2>1. Once(internal_out_queue \o out_queue)
    BY <1>0, OnceConcat DEF Typed, Held
  <2>2. \A s \in Streams : Sending(s) => ~Queued(s)
    BY <1>0, <1>1 DEF Held, Queued, InQueue
  <2> QED  BY <2>1, <2>2 DEF QueuedOnce, Once
<1>4. FreeOnSend
  BY <1>0, <1>1 DEF FreeOnSend, Flagged, OnItsWay
<1> QED  BY <1>2, <1>3, <1>4 DEF PayloadFlags

LEMMA WorkingTold == Working => ToldOnce
BY DEF Working, Typed, ToldOnce

(* A client that reconnects and is not disconnected goes on for ever. *)
Lasting == Outbound /\ ~MayStop

LEMMA NeverStops == ASSUME Lasting PROVE Spec => [](Stage /\ active /\ ~Stopping)
<1>1. Init => Stage /\ active /\ ~Stopping
  BY DEF Init, Stage, Stopping, Goal
<1>2. ASSUME Stage, active, ~Stopping, [Next]_vars
      PROVE  Stage' /\ active' /\ ~Stopping'
  <2>1. Stage'
    BY <1>2, NextStage
  <2>2. active'
    BY <1>2 DEF Next, App, AppNewStream, AppSendHeader, AppPush, Forward, Out,
                OutPop, OutSend, OutSendFails, OutCheck, OutFree, OutClear,
                OutExit, Receive, ReceiveRequest, ReceiveStart, ReceiveContinue,
                ReceiveWait, ReceiveEnd, ReceiveComplete, ReceiveHeartbeatReply,
                Received, In, InRun, InTimed, InIdle, InLost, InNotified,
                InReconnect, InRetry, ScanStream, EraseExpired, Exit, ExitWait,
                ExitRemove, TimeoutTick, TimeoutExit, Disconnect, Age, flags,
                vars, Lasting
  <2>3. ~Stopping'
    <3>1. CASE in' = in
      BY <1>2, <3>1 DEF Stopping
    <3>2. CASE \E p \in {"run", "timed", "poll", "scan"} : in' = [in EXCEPT !.pc = p]
      BY <1>2, <3>2 DEF Stage, Stopping
    <3>3. CASE \E goal \in {"check", "queued", "lost"} : ScanFor(goal)
      BY <3>3 DEF ScanFor, Stopping
    <3>4. CASE InReconnect
      BY <3>4 DEF InReconnect, Stopping
    <3>5. CASE InRetry
      BY <1>2, <3>5 DEF InRetry, ScanFor, Stage, Stopping
    <3>6. CASE EraseExpired \/ \E s \in Streams : ScanStream(s)
      BY <1>2, <3>6 DEF EraseExpired, ScanStream, Stage, Stopping
    <3>7. CASE Exit
      BY <1>2, <3>7 DEF Exit, ExitWait, ExitRemove, Stage
    <3>8. CASE Receive
      BY <3>2, <3>8 DEF Receive, ReceiveRequest, ReceiveStart, ReceiveContinue,
                        ReceiveWait, ReceiveEnd, ReceiveComplete,
                        ReceiveHeartbeatReply, Received
    <3>9. CASE InRun \/ InTimed \/ InIdle \/ InLost \/ InNotified
      BY <1>2, <3>2, <3>3, <3>9 DEF InRun, InTimed, InIdle, InLost, InNotified
    <3>10. CASE App \/ Forward \/ Out \/ TimeoutTick \/ TimeoutExit \/ Disconnect
                \/ (\E s \in Streams : Age(s)) \/ vars' = vars
      BY <3>1, <3>10 DEF App, AppNewStream, AppSendHeader, AppPush, Forward, Out,
                         OutPop, OutSend, OutSendFails, OutCheck, OutFree,
                         OutClear, OutExit, TimeoutTick, TimeoutExit, Disconnect,
                         Age, vars
    <3> QED  BY <1>2, <3>4, <3>5, <3>6, <3>7, <3>8, <3>9, <3>10 DEF Next, In
  <2> QED  BY <2>1, <2>2, <2>3
<1> QED  BY <1>1, <1>2, PTL DEF Spec

-----------------------------------------------------------------------------
(* Each stream object has one holder, and one only, whatever new_stream(), *)
(* out_process(), process_timeout(), a reply and the end of a stream do to *)
(* it in which order, sends that fail and reconnects included.             *)
THEOREM ObjectsCorrect ==
    ASSUME Calm, Lasting
    PROVE  Spec => []ObjectsAccounted
<1>1. Inv /\ Stage /\ active /\ ~Stopping => ObjectsAccounted
  BY WorkingAccounted DEF Inv
<1> QED  BY <1>1, InvCorrect, NeverStops, PTL

(* out and free_on_send, which three threads write without a lock, say of  *)
(* each payload whether it is on its way and whether it is the last of its *)
(* stream, and it is queued once.                                          *)
THEOREM FlagsCorrect ==
    ASSUME Calm, Lasting
    PROVE  Spec => []PayloadFlags
<1>1. Inv /\ Stage /\ active /\ ~Stopping => PayloadFlags
  BY WorkingFlags DEF Inv
<1> QED  BY <1>1, InvCorrect, NeverStops, PTL

(* The handlers of a conversation are told once that it is over: by the    *)
(* peer's last message or by process_timeout(), never by both.             *)
THEOREM ToldCorrect ==
    ASSUME Calm, Lasting
    PROVE  Spec => []ToldOnce
<1>1. Inv /\ Stage /\ active /\ ~Stopping => ToldOnce
  BY WorkingTold DEF Inv
<1> QED  BY <1>1, InvCorrect, NeverStops, PTL

(* A client that may be stopped, or that does not reconnect: all this is   *)
(* true until IN begins to time out the streams of the stopped client.     *)
THEOREM UntilStopped ==
    ASSUME Calm
    PROVE  Spec => [](Stopping \/ (ObjectsAccounted /\ PayloadFlags /\ ToldOnce))
<1>1. Inv => Stopping \/ (ObjectsAccounted /\ PayloadFlags /\ ToldOnce)
  BY WorkingAccounted, WorkingFlags, WorkingTold DEF Inv
<1> QED  BY <1>1, InvCorrect, PTL
=============================================================================
