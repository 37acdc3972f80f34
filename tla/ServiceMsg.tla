----------------------------- MODULE ServiceMsg -----------------------------
(***************************************************************************)
(* Service messages, gdt/gdt_utils.cpp: a message is a list of parameters, *)
(* cut into fragments of DATA_SZ bytes and into packets of at most         *)
(* MAX_PARAMS_SIZE, sent over a GDT stream and put together again by the   *)
(* three stream handlers of the receiver.  Messages and parameters come    *)
(* from pools.  The gateway (services/grpc) sends requests; the agent      *)
(* (services/sysagent) answers with the message it has just received.      *)
(*                                                                         *)
(* A piece of data is the value it belongs to, its offset and its length.  *)
(* The stream below is StreamProtocol's: one packet at a time, each side   *)
(* may time out, the packet may be lost with the association.              *)
(***************************************************************************)
EXTENDS Naturals, Sequences, FiniteSets, SequencesExt, FiniteSetsExt, Functions

CONSTANTS Stream,     \* the streams
          Msg,        \* the messages of a pool, numbered
          Id,         \* the parameters a message may have, in the vpmap's order
          Size,       \* the size of their values
          Octets,     \* those that do not go through the vpmap (SPT_OCTETS)
          Requests,   \* what a request may consist of
          Results,    \* what a plugin may add to it
          PoolSize    \* the parameters of each pool

MAX_VALUE == 1024    \* what the vpmap cuts a value to

ASSUME ConstantsAssumption ==
    /\ IsFiniteSet(Stream) /\ IsFiniteSet(Msg) /\ IsFiniteSet(Id)
    /\ Msg \subseteq Nat \ {0} /\ Id \subseteq Nat /\ Octets \subseteq Id
    /\ Size \in [Id -> Nat \ {0}] /\ PoolSize \in [{"variant", "octets"} -> Nat]
    /\ \A i \in Id \ Octets : Size[i] < MAX_VALUE
    /\ Requests \subseteq SUBSET Id /\ Results \subseteq SUBSET Id

None == "none"
Node == {"gateway", "agent"}
Type == {"variant", "octets"}
TypeOf(i) == IF i \in Octets THEN "octets" ELSE "variant"
NoMsg == 0
NoParam == <<None, 0>>
Param == {p \in Type \X (1..Max(Range(PoolSize))) : p[2] <= PoolSize[p[1]]}

DATA_SZ == 256
MAX_PARAMS_SIZE == 768
Overhead == 25       \* what the encoding of a parameter is taken to add
Links == 4           \* the extra buffers of a fragmented parameter

VARIABLES mgr,       \* the ServiceMsgManager of each node
          str,       \* the streams
          reused     \* a message with a dangling frag_param has been sent

smsg_vars == <<mgr, str, reused>>

Fragmented(i) == Size[i] > DATA_SZ

(* fragment(): the last fragment takes the remainder. *)
Fragments(i) == IF Fragmented(i)
                THEN Size[i] \div DATA_SZ + IF Size[i] % DATA_SZ > 0 THEN 1 ELSE 0
                ELSE 1

(* The order of the vpmap. *)
InOrder(is) == CHOOSE s \in SetToSeqs(is) :
                 \A a, b \in DOMAIN s : a < b => s[a] < s[b]

Blank == [id |-> None, from |-> 0, len |-> 0, findex |-> 0, linked |-> <<>>]
Message == [tlvs |-> <<>>, frag |-> NoParam, vp |-> <<>>, data |-> <<>>,
            missing |-> FALSE, pos |-> 0, pindex |-> 0, pc |-> 0]
Idle == [src |-> None, dst |-> None, body |-> {}, sm |-> NoMsg, rm |-> NoMsg,
         net |-> None, pkt |-> <<>>, given |-> FALSE, got |-> <<>>]

SmsgInit ==
    /\ mgr = [n \in Node |->
         [msgs |-> [m \in Msg |-> 1],
          free |-> [p \in Param |-> 1],
          prm |-> [p \in Param |-> Blank], msg |-> [m \in Msg |-> Message]]]
    /\ str = [s \in Stream |-> Idle] /\ reused = FALSE

-----------------------------------------------------------------------------
(* The pools.  g is the manager of a node. *)

(* new_param(): any of the free ones, how often a parameter is in the free  *)
(* list is all that matters.  What it held before stays in it, but only    *)
(* the fragment index is ever read again, and not beyond whether it is 0.  *)
InPool(g, t) == {p \in Param : p[1] = t /\ g.free[p] > 0}
Available(g, t) == InPool(g, t) # {}
NextParam(g, t) == <<t, Min({p[2] : p \in InPool(g, t)})>>
Reset(g, p) == [Blank EXCEPT !.findex = Min({1, g.prm[p].findex})]
NewParam(g, i, from, len) ==
    LET p == NextParam(g, TypeOf(i))
    IN [g EXCEPT !.free[p] = @ - 1,
                 !.prm[p] = [Reset(g, p) EXCEPT !.id = i, !.from = from, !.len = len]]

(* new_smsg() *)
Messages(g) == {m \in Msg : g.msgs[m] > 0}
NextMessage(g) == Min(Messages(g))

(* free_param() refuses when the free list is full. *)
FreeParam(g, p) ==
    [g EXCEPT !.free[p] =
                 IF SumFunctionOnSet(g.free, {q \in Param : q[1] = p[1]}) < PoolSize[p[1]]
                 THEN @ + 1 ELSE @,
              !.prm[p] = Reset(g, p)]

(* The parameters of a message, in the order free_smsg() frees them. *)
With(g, p) == g.prm[p].linked \o <<p>>
Held(g, m) ==
    FlattenSeq([k \in DOMAIN g.msg[m].tlvs |-> With(g, g.msg[m].tlvs[k])])
      \o IF g.msg[m].frag = NoParam THEN <<>> ELSE With(g, g.msg[m].frag)

(* free_smsg(msg, true, false): frag_param is freed and not reset. *)
FreeParams(g, m) ==
    [FoldLeft(FreeParam, g, Held(g, m)) EXCEPT !.msg[m].tlvs = <<>>]

(* free_smsg(msg) *)
FreeSmsg(g, m) ==
    [FreeParams(g, m) EXCEPT !.msg[m] = [Message EXCEPT !.frag = g.msg[m].frag],
                             !.msgs[m] = @ + 1]

(* Parameters for the ids is, as many as the pools have. *)
NewParams(g, is) ==
    FoldLeft(LAMBDA a, i : IF ~Available(a.g, TypeOf(i)) THEN a
                           ELSE [g |-> NewParam(a.g, i, 0, Size[i]),
                                 ps |-> Append(a.ps, NextParam(a.g, TypeOf(i)))],
             [g |-> g, ps |-> <<>>], is)

-----------------------------------------------------------------------------
(* The sender. *)

(* vpmap_sparam_sync(): the parameters of the message are replaced by one  *)
(* for each value of the vpmap, and those made elsewhere (ps).             *)
VpmapSparamSync(g, m, is, ps) ==
    LET a == NewParams(FreeParams(g, m), InOrder(is))
    IN [g |-> [a.g EXCEPT !.msg[m].tlvs = a.ps \o ps],
        err |-> Len(a.ps) < Cardinality(is)]

(* A message with the values is: octets are allocated before the rest. *)
Build(g, m, is) ==
    LET a == NewParams(g, InOrder(is \cap Octets))
    IN VpmapSparamSync(a.g, m, is \ Octets, a.ps)

(* send() gives every fragmented parameter four buffers, if there are any, *)
Link(g, p) ==
    LET a == NewParams(g, [k \in 1..Links |-> g.prm[p].id])
    IN IF Fragmented(g.prm[p].id) THEN [a.g EXCEPT !.prm[p].linked = a.ps, !.prm[p].findex = 0]
       ELSE g

(* and counts the fragments. *)
Open(g, m) ==
    LET tlvs == g.msg[m].tlvs
        h == FoldLeft(Link, g, tlvs)
    IN [h EXCEPT !.msg[m].pos = 0, !.msg[m].pindex = 0,
                 !.msg[m].pc = FoldLeft(LAMBDA c, p : c + Fragments(g.prm[p].id), 0, tlvs)]

(* The next piece of a parameter (process_fragments()). *)
From(q) == IF Fragmented(q.id) THEN DATA_SZ * q.findex ELSE 0
Left(q) == Size[q.id] - From(q)
Bytes(q) == IF Left(q) > DATA_SZ THEN DATA_SZ ELSE Left(q)

(* More fragments of the same parameter follow. *)
Followed(q) == Fragmented(q.id) /\ q.findex # Fragments(q.id) - 1

(* One parameter or fragment goes into the packet, unless the limit is     *)
(* reached; a parameter with fragments left stays the current one.         *)
Put(g, m, s) ==
    LET tlvs == g.msg[m].tlvs
        p == tlvs[s.pos + 1]
        q == s.prm[p]
        tbc == s.tbc + Bytes(q) + Overhead
    IN IF s.tbc >= MAX_PARAMS_SIZE \/ s.pos >= Len(tlvs) THEN s
       ELSE IF tbc > MAX_PARAMS_SIZE THEN [s EXCEPT !.tbc = tbc]
       ELSE [tbc |-> tbc,
             pos |-> IF Followed(q) THEN s.pos ELSE s.pos + 1,
             prm |-> IF Fragmented(q.id) THEN [s.prm EXCEPT ![p].findex = @ + 1] ELSE s.prm,
             out |-> Append(s.out, [id |-> q.id, from |-> From(q), len |-> Bytes(q),
                                    frag |-> Followed(q)])]

(* The loop of send() and of ServiceMessageNext::run(): a packet. *)
Fill(g, m) ==
    LET ms == g.msg[m]
        put[k \in 0..ms.pc] ==
            IF k = 0 THEN [tbc |-> 0, pos |-> ms.pos, prm |-> g.prm, out |-> <<>>]
            ELSE Put(g, m, put[k - 1])
        s == put[ms.pc]
    IN [g |-> [g EXCEPT !.prm = s.prm, !.msg[m].pos = s.pos,
                        !.msg[m].pindex = @ + Len(s.out)],
        pkt |-> s.out]

-----------------------------------------------------------------------------
(* The receiver: what the three handlers do with a parameter.  p is the    *)
(* new ServiceParam, f the first fragment of the value p belongs to.       *)

Piece(g, p) == [from |-> g.prm[p].from, len |-> g.prm[p].len]
Set(vp, k, v) == [x \in DOMAIN vp \cup {k} |-> IF x = k THEN v ELSE vp[x]]

(* vpmap.set_octets(), for variants only *)
SetOctets(g, m, p, k) ==
    IF p[1] # "variant" THEN g
    ELSE [g EXCEPT !.msg[m].vp = Set(@, <<g.prm[p].id, k>>, <<Piece(g, p)>>)]

(* vpmap.defragment(): the fragments become one value. *)
Defragment(g, m, p) ==
    LET i == g.prm[p].id
        vp == g.msg[m].vp
        ks == {k \in DOMAIN vp : k[1] = i}
        sorted == InOrder({k[2] : k \in ks})
        v == FlattenSeq([n \in DOMAIN sorted |-> vp[<<i, sorted[n]>>]])
    IN IF p[1] # "variant" \/ <<i, 0>> \notin ks THEN g
       ELSE [g EXCEPT !.msg[m].vp = Set(Restrict(vp, DOMAIN vp \ ks), <<i, 0>>, v)]

(* Mutant: set_frag_param() leaves the fragment index as it is. *)
FirstFragmentStale(g, m, p) ==
    SetOctets([g EXCEPT !.msg[m].frag = p, !.msg[m].data = <<Piece(g, p)>>],
              m, p, g.prm[p].findex)

(* set_frag_param() and the callback for a new stream of fragments *)
FirstFragment(g, m, p) ==
    SetOctets([g EXCEPT !.msg[m].frag = p, !.prm[p].findex = 0,
                        !.msg[m].data = <<Piece(g, p)>>], m, p, 0)

(* The data is kept in the vpmap and in the vector of EVParamStreamNext. *)
Keep(g, m, f, p) ==
    LET k == g.prm[f].findex + 1
    IN SetOctets([g EXCEPT !.prm[f].findex = k,
                           !.msg[m].data = Append(@, Piece(g, p))], m, p, k)

MoreFragment(g, m, f, p) == FreeParam(Keep(g, m, f, p), p)

(* set_pointer() in EVParamStreamLast does not replace a variant's value. *)
SetPointer(g, m, p) ==
    LET k == <<g.prm[p].id, 0>>
    IN [g EXCEPT !.msg[m].vp = IF k \in DOMAIN @ THEN @ ELSE Set(@, k, g.msg[m].data)]

(* Mutant: the first fragment is not given back. *)
LastFragmentKept(g, m, f, p) ==
    LET h == SetPointer(Defragment(Keep(g, m, f, p), m, p), m, p)
    IN [FreeParam(h, p) EXCEPT !.msg[m].frag = NoParam]

LastFragment(g, m, f, p) ==
    LET h == SetPointer(Defragment(Keep(g, m, f, p), m, p), m, p)
    IN [FreeParam(FreeParam(h, p), f) EXCEPT !.msg[m].frag = NoParam]

WholeParam(g, m, p) ==
    SetOctets([g EXCEPT !.msg[m].tlvs = Append(@, p)], m, p, 0)

(* One parameter of a packet.  When the pool is empty it is left out. *)
RecvParam(g, m, t) ==
    LET p == NextParam(g, TypeOf(t.id))
        h == NewParam(g, t.id, t.from, t.len)
        f == g.msg[m].frag
    IN IF ~Available(g, TypeOf(t.id)) THEN [g EXCEPT !.msg[m].missing = TRUE]
       ELSE IF t.frag THEN IF f = NoParam THEN FirstFragment(h, m, p)
                           ELSE MoreFragment(h, m, f, p)
       ELSE IF f = NoParam THEN WholeParam(h, m, p)
       ELSE LastFragment(h, m, f, p)

RecvParams(g, m, pkt) == FoldLeft(LAMBDA a, t : RecvParam(a, m, t), g, pkt)

(* What the COMPLETE handler finds in the message. *)
Contents(g, m) ==
    LET short == {p \in Range(g.msg[m].tlvs) : p[1] = "octets"}
    IN [k \in DOMAIN g.msg[m].vp \cup {<<g.prm[p].id, 0>> : p \in short} |->
          IF k \in DOMAIN g.msg[m].vp THEN g.msg[m].vp[k]
          ELSE <<Piece(g, CHOOSE p \in short : g.prm[p].id = k[1])>>]

-----------------------------------------------------------------------------
(* The handlers. *)

Sending(s) == str[s].sm # NoMsg
Receiving(s) == str[s].rm # NoMsg
Closed(r) == r.sm = NoMsg /\ r.rm = NoMsg
Packet(r, k, pkt) == [r EXCEPT !.net = k, !.pkt = pkt]
Answer(r, k) == Packet(r, k, <<>>)

(* send(): the stream, with its first packet. *)
Started(n, d, m, is, pkt) ==
    Packet([Idle EXCEPT !.src = n, !.dst = d, !.sm = m, !.body = is], "start", pkt)
Values(g, m) == {g.prm[p].id : p \in Range(g.msg[m].tlvs)}

(* gdt_push(), with a payload from cpool: an octets parameter the pool has *)
(* no room for is left out, without a word.                                *)
Request(s, is) ==
    LET g == mgr["gateway"]
        m == NextMessage(g)
        b == Build([g EXCEPT !.msgs[m] = @ - 1], m, is)
        f == Fill(Open(b.g, m), m)
    IN /\ str[s] = Idle /\ Messages(g) # {} /\ g.msg[m].frag = NoParam
       /\ UNCHANGED reused
       /\ \/ /\ ~b.err
             /\ mgr' = [mgr EXCEPT !["gateway"] = f.g]
             /\ str' = [str EXCEPT ![s] = Started("gateway", "agent", m, Values(b.g, m), f.pkt)]
          \/ /\ mgr' = [mgr EXCEPT !["gateway"] = FreeSmsg(b.g, m)]   \* or send() fails
             /\ UNCHANGED str

(* A message that was cut in the middle of a value has been freed with its *)
(* frag_param still set; to send with it frees that parameter once more.   *)
RequestReused ==
    LET g == mgr["gateway"]
    IN /\ Messages(g) # {} /\ g.msg[NextMessage(g)].frag # NoParam
       /\ reused' = TRUE /\ UNCHANGED <<mgr, str>>

Arrives(s, k) == str[s].net = k

(* What is reset before a message is received into. *)
Renewed(ms) == [Message EXCEPT !.tlvs = ms.tlvs]

(* ServiceStreamHandlerNew::run(); without a message the stream is ended.  *)
HandlerNew(s) ==
    LET n == str[s].dst
        g == mgr[n]
        m == NextMessage(g)
    IN /\ Arrives(s, "start")
       /\ IF Messages(g) = {}
          THEN mgr' = mgr /\ str' = [str EXCEPT ![s] = Answer(@, "end")]
          ELSE /\ mgr' = [mgr EXCEPT ![n] = RecvParams(
                   [g EXCEPT !.msgs[m] = @ - 1, !.msg[m] = Renewed(@)], m, str[s].pkt)]
               /\ str' = [str EXCEPT ![s] = Answer([@ EXCEPT !.rm = m], "ack")]
       /\ UNCHANGED reused

(* ServiceMessageNext::run() *)
MessageNext(s) ==
    LET n == str[s].src
        m == str[s].sm
        f == Fill(mgr[n], m)
        more == mgr[n].msg[m].pindex < mgr[n].msg[m].pc
        done == f.g.msg[m].pindex = f.g.msg[m].pc
    IN /\ Arrives(s, "ack") /\ Sending(s)
       /\ IF more
          THEN /\ mgr' = [mgr EXCEPT ![n] = f.g]
               /\ str' = [str EXCEPT ![s] = Packet(@, IF done THEN "last" ELSE "next", f.pkt)]
          ELSE mgr' = mgr /\ str' = [str EXCEPT ![s] = Packet(@, "last", <<>>)]
       /\ UNCHANGED reused

(* ServiceStreamHandlerNext::run() *)
HandlerNext(s) ==
    LET n == str[s].dst
    IN /\ Arrives(s, "next") /\ Receiving(s)
       /\ mgr' = [mgr EXCEPT ![n] = RecvParams(@, str[s].rm, str[s].pkt)]
       /\ str' = [str EXCEPT ![s] = Answer(@, "ack")]
       /\ UNCHANGED reused

(* The user of the receiver is given the message. *)
Given(r, g, m) == [r EXCEPT !.given = TRUE, !.got = Contents(g, m)]

(* The stream is over for the receiver, who has given back the message.    *)
Over(r, k) == Answer([r EXCEPT !.rm = NoMsg], k)

(* ServiceStreamHandlerDone::run(): the message is complete.  The handler  *)
(* of the user looks at it, and it is freed.                               *)
HandlerDone(s) ==
    LET n == str[s].dst
        m == str[s].rm
        g == RecvParams(mgr[n], m, str[s].pkt)
    IN /\ Arrives(s, "last") /\ Receiving(s)
       /\ mgr' = [mgr EXCEPT ![n] = FreeSmsg(g, m)]
       /\ str' = [str EXCEPT ![s] = Over(
            IF g.msg[m].missing THEN @ ELSE Given(@, g, m), "end")]
       /\ UNCHANGED reused

(* The agent's EVSrvcMsgRecv: the message received becomes the reply, with *)
(* the variants it has and the results of the plugin, and is passed on     *)
(* (SMSG_PT_PASS); if it cannot be sent it is freed as above.              *)
Reply(s, t, is) ==
    LET m == str[s].rm
        g == RecvParams(mgr["agent"], m, str[s].pkt)
        b == Build(g, m, {i \in Id \ Octets : <<i, 0>> \in DOMAIN g.msg[m].vp} \cup is)
        f == Fill(Open(b.g, m), m)
    IN /\ Arrives(s, "last") /\ Receiving(s) /\ str[s].dst = "agent"
       /\ UNCHANGED reused /\ str[t] = Idle /\ ~g.msg[m].missing
       /\ \/ /\ mgr' = [mgr EXCEPT !["agent"] = FreeSmsg(b.g, m)]
             /\ str' = [str EXCEPT ![s] = Over(Given(@, g, m), "end")]
          \/ /\ ~b.err
             /\ mgr' = [mgr EXCEPT !["agent"] = f.g]
             /\ str' = [str EXCEPT ![s] = Over(Given(@, g, m), "end"),
                                   ![t] = Started("agent", "gateway", m, Values(b.g, m), f.pkt)]

(* A side that has gone does not know the stream. *)
Unknown(s) ==
    /\ \/ Arrives(s, "ack") /\ ~Sending(s)
       \/ (Arrives(s, "next") \/ Arrives(s, "last")) /\ ~Receiving(s)
    /\ str' = [str EXCEPT ![s] = Answer(@, "error")]
    /\ UNCHANGED <<mgr, reused>>

(* ServiceMessageDone::run() and EVSrvcMsgSent: the stream has ended, with *)
(* an error or not, or timed out.                                          *)
MessageDone(s) ==
    /\ Sending(s)
    /\ mgr' = [mgr EXCEPT ![str[s].src] = FreeSmsg(@, str[s].sm)]
    /\ str' = [str EXCEPT ![s].sm = NoMsg]
    /\ UNCHANGED reused

(* ServiceStreamHandlerDone::run(), for a time-out or an error: the        *)
(* message is not complete.                                                *)
HandlerCut(s) ==
    /\ Receiving(s)
    /\ mgr' = [mgr EXCEPT ![str[s].dst] = FreeSmsg(@, str[s].rm)]
    /\ str' = [str EXCEPT ![s].rm = NoMsg]
    /\ UNCHANGED reused

(* Both sides have forgotten the stream; a packet may have been lost. *)
Close(s) ==
    /\ str[s] # Idle /\ Closed(str[s])
    /\ str' = [str EXCEPT ![s] = Idle]
    /\ UNCHANGED <<mgr, reused>>

SmsgNext ==
    \/ RequestReused
    \/ \E s \in Stream :
       \/ \E is \in Requests : Request(s, is)
       \/ HandlerNew(s)
       \/ MessageNext(s)
       \/ HandlerNext(s)
       \/ HandlerDone(s)
       \/ \E t \in Stream \ {s}, is \in Results : Reply(s, t, is)
       \/ Unknown(s)
       \/ MessageDone(s)
       \/ HandlerCut(s)
       \/ Close(s)

SmsgSpec == SmsgInit /\ [][SmsgNext]_smsg_vars

(* What follows after a parameter has been freed twice is not looked at. *)
Explored == ~reused

-----------------------------------------------------------------------------
(* The variables have their types; a packet holds pieces of the message it *)
(* belongs to, none of them empty (gdt_utils.h, DATA_SZ).                  *)
SmsgTypeOK ==
    /\ \A n \in Node :
         /\ mgr[n].msgs \in [Msg -> Nat]
         /\ mgr[n].free \in [Param -> Nat]
         /\ \A m \in Msg : /\ Range(mgr[n].msg[m].tlvs) \subseteq Param
                           /\ mgr[n].msg[m].frag \in Param \cup {NoParam}
    /\ \A s \in Stream :
         /\ str[s].sm \in Msg \cup {NoMsg} /\ str[s].rm \in Msg \cup {NoMsg}
         /\ str[s].net \in {None, "start", "ack", "next", "last", "end", "error"}
         /\ \A k \in DOMAIN str[s].pkt :
              str[s].pkt[k].id \in str[s].body /\ str[s].pkt[k].len \in 1..DATA_SZ
    /\ reused \in BOOLEAN

Pieces(i) == [k \in 1..Fragments(i) |->
                [from |-> DATA_SZ * (k - 1),
                 len |-> IF k < Fragments(i) THEN DATA_SZ ELSE Size[i] - DATA_SZ * (k - 1)]]

(* A message that is given to the user as complete, with nothing missing,  *)
(* has exactly the values that were sent, each with all its pieces in      *)
(* order: whatever parameters share packets, wherever a value is cut,      *)
(* however long the other messages have kept the pools empty, and whatever *)
(* the pooled parameters were used for before.                             *)
Reassembled ==
    \A s \in Stream : str[s].given =>
        str[s].got = [k \in str[s].body \X {0} |-> Pieces(k[1])]

(* A packet stays within the limit, and has a parameter as long as there   *)
(* are some left, so that every message has an end (the loops of send()    *)
(* and ServiceMessageNext::run()).                                         *)
PacketFits ==
    \A s \in Stream :
       /\ FoldLeft(LAMBDA c, t : c + t.len + Overhead, 0, str[s].pkt) <= MAX_PARAMS_SIZE
       /\ str[s].net = "next" \/ (str[s].net = "start" /\ str[s].body # {})
            => str[s].pkt # <<>>

Times(x, q) == Cardinality({k \in DOMAIN q : q[k] = x})

(* A message is in its pool, once, or it is sent by one stream, or it is   *)
(* received by one: a reply that reuses it is not freed by the stream that *)
(* has received it, and a message that could not be sent is not kept       *)
(* (SMSG_PT_PASS, ServiceStreamHandlerDone::run()).                        *)
MessageHeldOnce ==
    \A n \in Node, m \in Msg :
        mgr[n].msgs[m]
          + Cardinality({s \in Stream : str[s].src = n /\ str[s].sm = m})
          + Cardinality({s \in Stream : str[s].dst = n /\ str[s].rm = m}) = 1

(* A parameter is in its pool, once, or a message that is sent or received *)
(* holds it, once: none is lost and none is given to two messages, in      *)
(* spite of time-outs in the middle of a value (free_smsg(), free_param(); *)
(* until RequestReused).                                                   *)
ParamHeldOnce ==
    \A n \in Node, p \in Param :
        mgr[n].free[p]
          + SumFunction([m \in Msg \ Messages(mgr[n]) |-> Times(p, Held(mgr[n], m))]) = 1

(* Packets are well formed, and every pooled object has one holder.        *)
HeldOnce == SmsgTypeOK /\ PacketFits /\ MessageHeldOnce /\ ParamHeldOnce
=============================================================================
