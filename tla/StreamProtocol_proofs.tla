----------------------- MODULE StreamProtocol_proofs -----------------------
(***************************************************************************)
(* What holds of a GDT stream of any length with any number of packets     *)
(* lost or refused: the numbers at its two ends stay in step, the ends     *)
(* agree about the end, and the users have a conversation.                 *)
(***************************************************************************)
EXTENDS StreamProtocol, SequenceTheorems, TLAPS

(***************************************************************************)
(* The invariants.                                                         *)
(***************************************************************************)
Pkt == [kind : Kind, num : Nat, by : Side, no : Nat]
Message == [by : Side, no : Nat]
Event == {"end", "complete", "error", "timeout"}

Typed ==
    /\ loop \in BOOLEAN /\ st \in [Side -> GDTStream] /\ last \in Side
    /\ net \in [Side -> Seq(Pkt)]
    /\ said \in [Side -> Nat] /\ heard \in [Side -> Seq(Message)]
    /\ told \in [Side -> Seq(Event)] /\ faults \in 0 .. MaxFaults

(* The positions of the packets, and of those that carry the conversation. *)
On(q, k) == k \in DOMAIN net[q]
Talk(q, k) == On(q, k) /\ net[q][k].kind \in {"start", "continue", "wait", "end"}

Begun == st["resp"].life # "none"

(* A packet goes to the other side's home.  At one client there is one     *)
(* packet at a time, from the side that has had its turn; at most one      *)
(* packet carries the conversation, unless a user has sent by itself.      *)
Ways ==
    /\ \A q \in Side, k \in Nat : On(q, k) => q = Home(Other(net[q][k].by))
    /\ loop => \A q, r \in Side, k, l \in Nat :
                 On(q, k) /\ On(r, l) => q = r /\ k = l
    /\ (\A y \in Side : st[y].wait # "sent") =>
         \A q, r \in Side, k, l \in Nat :
            Talk(q, k) /\ Talk(r, l) => q = r /\ k = l

(* The START is the first packet. *)
First ==
    /\ st["init"].life = "none" =>
         /\ ~Begun /\ \A q \in Side, k \in Nat : ~On(q, k)
    /\ ~Begun =>
         /\ \A y \in Side : /\ st[y].num = 1 /\ ~st[y].rr /\ st[y].wait = "no"
                            /\ heard[y] = <<>>
         /\ said = [y \in Side |-> IF y = "init" /\ st[y].life # "none"
                                   THEN 1 ELSE 0]
         /\ last = "init"
         /\ \A q \in Side, k \in Nat : Talk(q, k) => net[q][k].kind = "start"
    /\ \A q \in Side, k \in Nat :
         On(q, k) /\ net[q][k].kind = "start" =>
           ~Begun /\ net[q][k].by = "init" /\ net[q][k].num = 1 /\ net[q][k].no = 1
    /\ Begun => ~st["init"].rr /\ st["resp"].rr

(* A side that waits is one number ahead, and the conversation is its own; *)
(* it has heard what there is to hear.                                     *)
Ahead(y) == IF y = "resp" THEN 1 ELSE 0

Waiting(y) ==
    st[y].wait # "no" =>
      /\ ~loop /\ Begun /\ st[Other(y)].wait = "no"
      /\ st[y].num = st[Other(y)].num + 1 + Ahead(y)
      /\ Len(heard[y]) = said[Other(y)]
      /\ st[y].wait = "asked" => /\ said[y] = Len(heard[Other(y)])
                                 /\ said[y] + Ahead(y) = Len(heard[y])
      /\ \A q \in Side, k \in Nat : Talk(q, k) =>
           /\ net[q][k].by = y
           /\ \/ net[q][k].kind = "wait" /\ net[q][k].num = st[Other(y)].num
              \/ /\ net[q][k].kind = "continue" /\ net[q][k].num = st[y].num
                 /\ st[y].wait = "sent"

(* Whose turn it is: the packet has the number that the other side         *)
(* expects, and brings it the next message.                                *)
Turn(p) ==
    LET y == p.by  x == Other(p.by)
    IN /\ p.num = st[x].num /\ st[y].num = p.num + Ahead(y)
       /\ Len(heard[y]) = said[x] /\ said[y] = p.no
       /\ p.no = Len(heard[x]) + IF p.kind = "continue" THEN 1 ELSE 0
       /\ p.kind = "continue" => said[y] = said[x] + Ahead(x)
       /\ loop => last = y

Turns ==
    \A q \in Side, k \in Nat :
       Talk(q, k) /\ net[q][k].kind # "start" =>
         /\ Begun
         /\ st[net[q][k].by].wait = "no" =>
              net[q][k].kind # "wait" /\ st[Other(net[q][k].by)].wait = "no"
              /\ Turn(net[q][k])

(* What the users have been told.                                          *)
Ends ==
    /\ \A x \in Side : /\ Open(x) => told[x] = <<>> \/ Linked
                       /\ st[x].life = "none" => told[x] = <<>>
                       /\ ~loop /\ st[x].life = "closed" => Len(told[x]) = 1
                       /\ loop /\ st[x].life = "closed" =>
                            \/ told[x] = <<>> /\ faults > 0
                            \/ Len(told[x]) = 1
                            \/ told[x] = <<"end", "timeout">>
    /\ \A q \in Side, k \in Nat :
         On(q, k) /\ net[q][k].kind = "complete" =>
           /\ told[net[q][k].by] # <<>> /\ told[net[q][k].by][1] = "end"
           /\ loop => /\ Open("init") <=> Open("resp")
                      /\ net[q][k].by = last
    /\ CompleteIsMutual

Loops ==
    loop =>
      /\ Begun /\ Open("init") => Open("resp")
      /\ Open("resp") /\ ~Open("init") => last = "resp"
      /\ Linked =>
           /\ told[Other(last)] = <<>> /\ told[last] \in {<<>>, <<"end">>}
           /\ \A q \in Side, k \in Nat : On(q, k) =>
                /\ told[last] = <<"end">> => net[q][k].kind \in {"complete", "error"}
                /\ net[q][k].kind = "error" => faults > 0

OneWaits == \A y \in Side : Waiting(y)

Talks == Ways /\ First /\ OneWaits /\ Turns

Inv == Typed /\ Talks /\ Ends /\ Loops

-----------------------------------------------------------------------------
(* The packets that are on their way. *)

LEMMA Sides ==
    ASSUME Typed
    PROVE  /\ \A x \in Side : /\ Other(x) \in Side /\ Other(x) # x /\ Other(Other(x)) = x
                              /\ Home(x) \in Side
           /\ \A x, y \in Side : y = x \/ y = Other(x)
BY DEF Side, Other, Home

(* Where the packet k of y has been before one of q is taken off.          *)
Old(q, y, k) == IF y = q THEN k + 1 ELSE k

NetStep(q, ps) ==
    \A y \in Side, k \in Nat : On(y, k)' =>
       \/ On(y, Old(q, y, k)) /\ net'[y][k] = net[y][Old(q, y, k)]
       \/ /\ k = Len(Rest(q, y)) + 1
          /\ \E p \in ps : y = Home(Other(p.by)) /\ net'[y][k] = p

LEMMA RestIs ==
    ASSUME Typed, NEW q \in Side \cup {"none"}, q \in Side => net[q] # <<>>,
           NEW y \in Side
    PROVE  /\ Rest(q, y) \in Seq(Pkt)
           /\ \A k \in Nat : k \in DOMAIN Rest(q, y) =>
                On(y, Old(q, y, k)) /\ Rest(q, y)[k] = net[y][Old(q, y, k)]
<1>0. net[y] \in Seq(Pkt)
  BY DEF Typed
<1>1. CASE y = q
  <2>1. net[y] # <<>> /\ Rest(q, y) = Tail(net[y])
    BY <1>1 DEF Rest
  <2>2. /\ Tail(net[y]) \in Seq(Pkt) /\ Len(Tail(net[y])) = Len(net[y]) - 1
        /\ \A k \in 1 .. Len(Tail(net[y])) : Tail(net[y])[k] = net[y][k + 1]
    BY <1>0, <2>1, HeadTailProperties
  <2>3. ASSUME NEW k \in Nat, k \in DOMAIN Tail(net[y])
        PROVE  k + 1 \in DOMAIN net[y] /\ Tail(net[y])[k] = net[y][k + 1]
    <3>1. /\ DOMAIN Tail(net[y]) = 1 .. Len(Tail(net[y]))
          /\ DOMAIN net[y] = 1 .. Len(net[y]) /\ Len(net[y]) \in Nat
      BY <1>0, <2>2
    <3> QED  BY <2>2, <2>3, <3>1
  <2> QED  BY <1>1, <2>1, <2>2, <2>3 DEF On, Old
<1>2. CASE y # q
  BY <1>0, <1>2 DEF Rest, On, Old
<1> QED  BY <1>1, <1>2

LEMMA TakenIs ==
    ASSUME Typed, NEW q \in Side, net[q] # <<>>, Taken(q)
    PROVE  net' \in [Side -> Seq(Pkt)] /\ NetStep(q, {})
BY RestIs DEF Taken, NetStep, On

LEMMA AnswerIs ==
    ASSUME Typed, NEW q \in Side \cup {"none"}, q \in Side => net[q] # <<>>,
           NEW p \in Pkt, Answer(q, p)
    PROVE  net' \in [Side -> Seq(Pkt)] /\ NetStep(q, {p})
<1> DEFINE to == Home(Other(p.by))
<1>1. ASSUME NEW y \in Side
      PROVE  /\ net'[y] \in Seq(Pkt)
             /\ \A k \in Nat : k \in DOMAIN net'[y] =>
                  \/ On(y, Old(q, y, k)) /\ net'[y][k] = net[y][Old(q, y, k)]
                  \/ k = Len(Rest(q, y)) + 1 /\ y = to /\ net'[y][k] = p
  <2> DEFINE rest == Rest(q, y)
  <2>1. /\ rest \in Seq(Pkt)
        /\ \A k \in Nat : k \in DOMAIN rest =>
             On(y, Old(q, y, k)) /\ rest[k] = net[y][Old(q, y, k)]
    BY RestIs
  <2>2. net'[y] = IF y = to THEN Append(rest, p) ELSE rest
    BY DEF Answer
  <2> HIDE DEF rest, to
  <2>3. CASE y = to
    <3>1. /\ Append(rest, p) \in Seq(Pkt) /\ Len(rest) \in Nat
          /\ DOMAIN rest = 1 .. Len(rest)
          /\ DOMAIN Append(rest, p) = 1 .. Len(rest) + 1
          /\ \A k \in 1 .. Len(rest) : Append(rest, p)[k] = rest[k]
          /\ Append(rest, p)[Len(rest) + 1] = p
      BY <2>1, AppendProperties
    <3>2. ASSUME NEW k \in Nat, k \in 1 .. Len(rest) + 1
          PROVE  k \in 1 .. Len(rest) \/ k = Len(rest) + 1
      BY <3>1, <3>2
    <3> QED  BY <2>1, <2>2, <2>3, <3>1, <3>2 DEF rest
  <2>4. CASE y # to
    BY <2>1, <2>2, <2>4 DEF rest
  <2> QED  BY <2>3, <2>4
<1>2. net' = [y \in Side |-> net'[y]]
  BY DEF Answer
<1>3. net' \in [Side -> Seq(Pkt)]
  BY <1>1, <1>2
<1> QED  BY <1>1, <1>3 DEF NetStep, On

LEMMA HeadIs ==
    ASSUME Typed, NEW q \in Side, net[q] # <<>>
    PROVE  On(q, 1) /\ Head(net[q]) = net[q][1] /\ Head(net[q]) \in Pkt
<1>1. net[q] \in Seq(Pkt)
  BY DEF Typed
<1> QED  BY <1>1 DEF On

LEMMA PacketIs ==
    ASSUME said' \in [Side -> Nat], NEW k \in Kind, NEW n \in Nat, NEW x \in Side
    PROVE  /\ Packet(k, n, x) \in Pkt /\ Packet(k, n, x).kind = k
           /\ Packet(k, n, x).num = n /\ Packet(k, n, x).by = x
           /\ Packet(k, n, x).no = said'[x]
BY DEF Packet, Pkt

-----------------------------------------------------------------------------
(* A step that adds nothing to the conversation.                           *)
LEMMA QuietStep ==
    ASSUME Typed, Talks, NEW q \in Side \cup {"none"}, NEW ps \in SUBSET Pkt,
           net' \in [Side -> Seq(Pkt)], NetStep(q, ps),
           \A p \in ps : p.kind \in {"complete", "error"},
           \A p, r \in ps : p = r,
           ps # {} => q \in Side /\ On(q, 1),
           UNCHANGED <<loop, said, heard>>,
           \A y \in Side : /\ st'[y].num = st[y].num /\ st'[y].rr = st[y].rr
                           /\ st'[y].wait = st[y].wait
                           /\ st'[y].life = "none" <=> st[y].life = "none",
           \/ last' = last
           \/ Begun /\ \A r \in Side, k \in Nat : ~Talk(r, k)'
    PROVE  Talks'
<1>0. /\ \A y \in Side : Other(y) \in Side /\ Other(Other(y)) = y
      /\ "init" \in Side /\ "resp" \in Side
      /\ Begun' = Begun
  BY Sides DEF Home, Side, Begun
<1>1. \A x : Home(x)' = Home(x)
  BY DEF Home
<1>2. ASSUME NEW y \in Side, NEW k \in Nat
      PROVE  /\ Old(q, y, k) \in Nat
             /\ Talk(y, k)' => /\ Talk(y, Old(q, y, k))
                               /\ net'[y][k] = net[y][Old(q, y, k)]
  BY <1>2 DEF Old, NetStep, Talk, On
<1>3. Ways'
  <2>1. ASSUME NEW r \in Side, NEW k \in Nat, On(r, k)'
        PROVE  (r = Home(Other(net[r][k].by)))'
    <3>1. CASE On(r, Old(q, r, k)) /\ net'[r][k] = net[r][Old(q, r, k)]
      <4>1. Old(q, r, k) \in Nat
        BY <1>2
      <4>2. r = Home(Other(net[r][Old(q, r, k)].by))
        BY <3>1, <4>1 DEF Talks, Ways
      <4> QED  BY <1>1, <3>1, <4>2
    <3>2. CASE \E p \in ps : r = Home(Other(p.by)) /\ net'[r][k] = p
      BY <1>1, <3>2
    <3> QED  BY <2>1, <3>1, <3>2 DEF NetStep
  <2>2. ASSUME loop, NEW r \in Side, NEW t \in Side, NEW k \in Nat, NEW l \in Nat,
               On(r, k)', On(t, l)'
        PROVE  r = t /\ k = l
    <3>1. CASE ps = {}
      <4>1. /\ On(r, Old(q, r, k)) /\ Old(q, r, k) \in Nat
            /\ On(t, Old(q, t, l)) /\ Old(q, t, l) \in Nat
        BY <1>2, <2>2, <3>1 DEF NetStep
      <4>2. r = t /\ Old(q, r, k) = Old(q, t, l)
        BY <2>2, <4>1 DEF Talks, Ways
      <4> QED  BY <4>2 DEF Old
    <3>2. CASE ps # {}
      <4>1. ASSUME NEW y \in Side, NEW m \in Nat, On(y, m)'
            PROVE  m = Len(Rest(q, y)) + 1 /\ \E p \in ps : y = Home(Other(p.by))
        <5>1. ~On(y, Old(q, y, m))
          <6>1. Old(q, y, m) \in Nat /\ q \in Side /\ On(q, 1) /\ 1 \in Nat
            BY <1>2, <3>2
          <6>2. On(y, Old(q, y, m)) => y = q /\ Old(q, y, m) = 1
            BY <2>2, <6>1 DEF Talks, Ways
          <6>3. m # 0
            <7>1. net'[y] \in Seq(Pkt) /\ m \in DOMAIN net'[y]
              BY <4>1 DEF On
            <7> QED  BY <7>1
          <6> QED  BY <6>2, <6>3 DEF Old
        <5> QED  BY <4>1, <5>1 DEF NetStep
      <4>2. r = t
        BY <2>2, <4>1
      <4> QED  BY <2>2, <4>1, <4>2
    <3> QED  BY <3>1, <3>2
  <2>3. ASSUME \A y \in Side : st'[y].wait # "sent",
               NEW r \in Side, NEW t \in Side, NEW k \in Nat, NEW l \in Nat,
               Talk(r, k)', Talk(t, l)'
        PROVE  r = t /\ k = l
    <3>1. \A y \in Side : st[y].wait # "sent"
      BY <2>3
    <3>2. /\ Talk(r, Old(q, r, k)) /\ Old(q, r, k) \in Nat
          /\ Talk(t, Old(q, t, l)) /\ Old(q, t, l) \in Nat
      BY <1>2, <2>3
    <3>3. r = t /\ Old(q, r, k) = Old(q, t, l)
      BY <3>1, <3>2 DEF Talks, Ways
    <3> QED  BY <3>3 DEF Old
  <2>4. loop' = loop
    OBVIOUS
  <2> QED  BY <2>1, <2>2, <2>3, <2>4 DEF Ways
<1>4. First'
  <2>1. st["init"].life = "none" =>
          ~Begun /\ \A y \in Side, k \in Nat : ~On(y, k) /\ ~On(y, k)'
    <3>1. st["init"].life = "none" =>
            ~Begun /\ ps = {} /\ \A y \in Side, k \in Nat : ~On(y, k)
      BY DEF Talks, First
    <3> QED  BY <1>2, <3>1 DEF NetStep
  <2>2. ~Begun => last' = last
    OBVIOUS
  <2>3. \A y \in Side, k \in Nat :
          On(y, k)' /\ net'[y][k].kind = "start" =>
            ~Begun /\ net'[y][k].by = "init" /\ net'[y][k].num = 1 /\ net'[y][k].no = 1
    <3>1. ASSUME NEW y \in Side, NEW k \in Nat, On(y, k)', net'[y][k].kind = "start"
          PROVE  ~Begun /\ net'[y][k].by = "init" /\ net'[y][k].num = 1 /\ net'[y][k].no = 1
      <4>1. Talk(y, k)'
        BY <3>1 DEF Talk, On
      <4>2. /\ On(y, Old(q, y, k)) /\ Old(q, y, k) \in Nat
            /\ net'[y][k] = net[y][Old(q, y, k)]
        BY <1>2, <4>1 DEF Talk
      <4> QED  BY <3>1, <4>2 DEF Talks, First
    <3> QED  BY <3>1
  <2>4. ~Begun => \A y \in Side, k \in Nat : Talk(y, k)' => net'[y][k].kind = "start"
    <3>1. ASSUME ~Begun, NEW y \in Side, NEW k \in Nat, Talk(y, k)'
          PROVE  net'[y][k].kind = "start"
      <4>1. /\ Talk(y, Old(q, y, k)) /\ Old(q, y, k) \in Nat
            /\ net'[y][k] = net[y][Old(q, y, k)]
        BY <1>2, <3>1
      <4> QED  BY <3>1, <4>1 DEF Talks, First
    <3> QED  BY <3>1
  <2>5. ~Begun => /\ \A y \in Side : /\ st[y].num = 1 /\ ~st[y].rr /\ st[y].wait = "no"
                                     /\ heard[y] = <<>>
                  /\ said = [y \in Side |-> IF y = "init" /\ st[y].life # "none"
                                            THEN 1 ELSE 0]
                  /\ last = "init"
    BY DEF Talks, First
  <2>6. ~Begun => said' = [y \in Side |-> IF y = "init" /\ st'[y].life # "none"
                                          THEN 1 ELSE 0]
    BY <1>0, <2>5
  <2>7. Begun => ~st["init"].rr /\ st["resp"].rr
    BY DEF Talks, First
  <2>8. (st["init"].life = "none" =>
           ~Begun /\ \A y \in Side, k \in Nat : ~On(y, k))'
    BY <1>0, <2>1
  <2>9. Begun' => ~st'["init"].rr /\ st'["resp"].rr
    BY <1>0, <2>7
  <2>10. ~Begun' => /\ \A y \in Side : /\ st'[y].num = 1 /\ ~st'[y].rr
                                       /\ st'[y].wait = "no" /\ heard'[y] = <<>>
                    /\ last' = "init"
    BY <1>0, <2>2, <2>5
  <2>11. \A y \in Side, k \in Nat :
          On(y, k)' /\ net'[y][k].kind = "start" =>
            ~Begun' /\ net'[y][k].by = "init" /\ net'[y][k].num = 1 /\ net'[y][k].no = 1
    BY <1>0, <2>3
  <2>12. ~Begun' => \A y \in Side, k \in Nat : Talk(y, k)' => net'[y][k].kind = "start"
    BY <1>0, <2>4
  <2>13. ~Begun' => said' = [y \in Side |-> IF y = "init" /\ st'[y].life # "none"
                                           THEN 1 ELSE 0]
    BY <1>0, <2>6
  <2> QED  BY <2>8, <2>9, <2>10, <2>11, <2>12, <2>13 DEF First
<1>5. OneWaits'
  <2>1. ASSUME NEW y \in Side, st'[y].wait # "no" PROVE Waiting(y)'
    <3>1. Waiting(y) /\ st[y].wait # "no"
      BY <2>1 DEF Talks, OneWaits
    <3>2. \A r \in Side, k \in Nat : Talk(r, k)' =>
             /\ net'[r][k].by = y
             /\ \/ net'[r][k].kind = "wait" /\ net'[r][k].num = st[Other(y)].num
                \/ /\ net'[r][k].kind = "continue" /\ net'[r][k].num = st[y].num
                   /\ st[y].wait = "sent"
      <4>1. ASSUME NEW r \in Side, NEW k \in Nat, Talk(r, k)'
            PROVE  /\ Talk(r, Old(q, r, k)) /\ Old(q, r, k) \in Nat
                   /\ net'[r][k] = net[r][Old(q, r, k)]
        BY <1>2, <4>1
      <4>2. \A r \in Side, k \in Nat : Talk(r, k) =>
             /\ net[r][k].by = y
             /\ \/ net[r][k].kind = "wait" /\ net[r][k].num = st[Other(y)].num
                \/ /\ net[r][k].kind = "continue" /\ net[r][k].num = st[y].num
                   /\ st[y].wait = "sent"
        BY <3>1 DEF Waiting
      <4> QED  BY <4>1, <4>2
    <3> QED  BY <1>0, <3>1, <3>2 DEF Waiting, Ahead
  <2> QED  BY <2>1 DEF OneWaits, Waiting
<1>6. Turns'
  <2>1. ASSUME NEW y \in Side, NEW k \in Nat, Talk(y, k)', net'[y][k].kind # "start"
        PROVE  /\ Begun
               /\ st'[net'[y][k].by].wait = "no" =>
                    /\ net'[y][k].kind # "wait"
                    /\ st'[Other(net'[y][k].by)].wait = "no"
                    /\ Turn(net[y][k])'
    <3> DEFINE j == Old(q, y, k)  p == net[y][j]
    <3>1. j \in Nat /\ Talk(y, j) /\ net'[y][k] = p /\ p.kind # "start"
      BY <1>2, <2>1
    <3>2. p.by \in Side /\ Other(p.by) \in Side
      <4>1. net[y] \in Seq(Pkt) /\ j \in DOMAIN net[y]
        BY <3>1 DEF Typed, Talk, On
      <4>2. p \in Pkt
        BY <4>1
      <4> QED  BY <1>0, <4>2 DEF Pkt
    <3>3. last' = last
      BY <2>1
    <3>4. /\ Begun
          /\ st[p.by].wait = "no" =>
               p.kind # "wait" /\ st[Other(p.by)].wait = "no" /\ Turn(p)
      BY <3>1 DEF Talks, Turns
    <3>5. Turn(p) => Turn(net[y][k])'
      <4> HIDE DEF p, j
      <4> QED  BY <3>1, <3>2, <3>3 DEF Turn, Ahead
    <3> HIDE DEF p, j
    <3> QED  BY <3>1, <3>2, <3>4, <3>5
  <2> QED  BY <1>0, <2>1 DEF Turns
<1> QED  BY <1>3, <1>4, <1>5, <1>6 DEF Talks

-----------------------------------------------------------------------------
(* What becomes of the packet at the head of q.                            *)
Talking == {"continue", "wait", "end"}

Continues(q, x) == /\ Head(net[q]).kind = "continue" /\ Valid(x, Head(net[q]))
                   /\ ProcessSfContinue(x, q)
Finishes(q, x) == /\ Head(net[q]).kind = "end" /\ Valid(x, Head(net[q]))
                  /\ ProcessSfEnd(x, q)
Passes(q, x) == Head(net[q]).kind = "wait" /\ ProcessSfContinueWait(x, q)
Rejects(q, x) == /\ Head(net[q]).kind \in Talking /\ ~Valid(x, Head(net[q]))
                 /\ OutOfSequence(x, q)
Unknown(q) == Head(net[q]).kind \in Talking /\ Target(q) = {} /\ UnknownStream(q)

LEMMA Deliveries ==
    ASSUME NEW q \in Side, Deliver(q)
    PROVE  /\ net[q] # <<>>
           /\ \/ ReceiveStart(q) \/ ReceiveComplete(q) \/ Unknown(q)
              \/ \E x \in Target(q) : \/ Continues(q, x) \/ Finishes(q, x)
                                      \/ Passes(q, x) \/ Rejects(q, x)
<1>1. CASE ReceiveStart(q) \/ ReceiveComplete(q)
  BY <1>1 DEF ReceiveStart, ReceiveComplete
<1>2. CASE ReceiveContinue(q)
  BY <1>2 DEF ReceiveContinue, Receive, Talking, Unknown, Continues, Rejects
<1>3. CASE ReceiveEnd(q)
  BY <1>3 DEF ReceiveEnd, Receive, Talking, Unknown, Finishes, Rejects
<1>4. CASE ReceiveWait(q)
  BY <1>4 DEF ReceiveWait, Receive, Talking, Unknown, Passes, Rejects
<1> QED  BY <1>1, <1>2, <1>3, <1>4 DEF Deliver

LEMMA TargetIs ==
    ASSUME Typed, NEW q \in Side
    PROVE  /\ \A x \in Target(q) : x \in Side /\ Open(x)
           /\ ~loop => Target(q) = IF Open(q) THEN {q} ELSE {}
           /\ Linked => Target(q) = {Other(last)} /\ loop
           /\ \A x \in Target(q), y \in Target(q) : x = y
<1>1. ~loop => Target(q) = IF Open(q) THEN {q} ELSE {}
  BY DEF Target, Linked, Home
<1>2. Linked => Target(q) = {Other(last)} /\ loop /\ last \in Side
  BY DEF Target, Linked, Typed
<1>3. CASE Linked
  BY <1>2, <1>3, Sides DEF Linked
<1>4. CASE ~Linked
  <2>1. Target(q) = {x \in Side : Home(x) = q /\ Open(x)}
    BY <1>4 DEF Target
  <2>2. ASSUME NEW x \in Target(q), NEW y \in Target(q), x # y PROVE FALSE
    <3>1. loop
      BY <2>1, <2>2 DEF Home
    <3>2. \A z \in Side : Open(z)
      BY <2>1, <2>2 DEF Side
    <3> QED  BY <1>4, <3>1, <3>2 DEF Linked
  <2> QED  BY <1>1, <1>4, <2>1, <2>2
<1> QED  BY <1>1, <1>2, <1>3, <1>4

LEMMA TellIs ==
    ASSUME Typed, NEW xs, NEW e \in Event, Tell(xs, e)
    PROVE  /\ told' \in [Side -> Seq(Event)]
           /\ \A x \in Side :
                /\ x \notin xs => told'[x] = told[x]
                /\ x \in xs => /\ told'[x] # <<>> /\ Len(told'[x]) = Len(told[x]) + 1
                               /\ told[x] = <<>> => told'[x] = <<e>>
                               /\ told[x] = <<"end">> => told'[x] = <<"end", e>>
                               /\ told[x] # <<>> => told'[x][1] = told[x][1]
<1>1. ASSUME NEW x \in Side
      PROVE  /\ told'[x] \in Seq(Event)
             /\ x \notin xs => told'[x] = told[x]
             /\ x \in xs => /\ told'[x] # <<>> /\ Len(told'[x]) = Len(told[x]) + 1
                            /\ told[x] = <<>> => told'[x] = <<e>>
                            /\ told[x] = <<"end">> => told'[x] = <<"end", e>>
                            /\ told[x] # <<>> => told'[x][1] = told[x][1]
  <2>1. told[x] \in Seq(Event) /\ told'[x] = IF x \in xs THEN Append(told[x], e) ELSE told[x]
    BY DEF Tell, Typed
  <2>2. /\ Append(told[x], e) \in Seq(Event) /\ Append(told[x], e) # <<>>
        /\ Len(Append(told[x], e)) = Len(told[x]) + 1
        /\ told[x] = <<>> => Append(told[x], e) = <<e>>
        /\ told[x] = <<"end">> => Append(told[x], e) = <<"end", e>>
        /\ told[x] # <<>> => Append(told[x], e)[1] = told[x][1]
    <3>1. ASSUME NEW t \in Seq(Event)
          PROVE  /\ Append(t, e) \in Seq(Event) /\ Append(t, e) # <<>>
                 /\ Len(Append(t, e)) = Len(t) + 1
                 /\ t # <<>> => Append(t, e)[1] = t[1]
      BY AppendProperties
    <3>2. Append(<<>>, e) = <<e>>
      OBVIOUS
    <3>3. Append(<<"end">>, e) = <<"end", e>>
      <4> DEFINE t == Append(<<"end">>, e)
      <4>1. <<"end">> \in Seq(Event) /\ Len(<<"end">>) = 1
        BY DEF Event
      <4>2. t \in Seq(Event) /\ Len(t) = 2 /\ t[1] = "end" /\ t[2] = e
        BY <4>1, AppendProperties
      <4> HIDE DEF t
      <4>3. t = <<"end", e>>
        BY <4>2
      <4> QED  BY <4>3 DEF t
    <3> QED  BY <2>1, <3>1, <3>2, <3>3
  <2> QED  BY <2>1, <2>2
<1>2. told' = [x \in Side |-> told'[x]]
  BY DEF Tell
<1> QED  BY <1>1, <1>2

(* Which stream a packet of the conversation reaches: the one it is for,   *)
(* in step with its sender, or, at one client, its sender's own.           *)
LEMMA HeadsFor ==
    ASSUME Typed, Talks, Loops, NEW q \in Side, net[q] # <<>>, NEW p, p = Head(net[q]),
           p.kind \in Talking, NEW x \in Target(q)
    PROVE  /\ p \in Pkt /\ x \in Side /\ Open(x) /\ Begun /\ Talk(q, 1) /\ net[q][1] = p
           /\ \/ /\ p.by = Other(x) /\ st[p.by].wait = "no" /\ st[x].wait = "no"
                 /\ p.kind # "wait" /\ Turn(p) /\ Valid(x, p)
              \/ /\ p.by = Other(x) /\ st[p.by].wait # "no" /\ ~loop
                 /\ p.kind # "end" /\ (p.kind = "wait" <=> Valid(x, p))
                 /\ p.kind = "continue" => st[p.by].wait = "sent"
              \/ /\ p.by = x /\ ~Valid(x, p) /\ loop /\ ~Linked /\ x = "resp"
                 /\ ~Open("init")
<1>1. p \in Pkt /\ p = net[q][1] /\ Talk(q, 1) /\ x \in Side /\ Open(x) /\ p.by \in Side
  BY HeadIs, TargetIs DEF Talk, Talking, Pkt
<1>2. /\ Begun
      /\ st[p.by].wait = "no" =>
           p.kind # "wait" /\ st[Other(p.by)].wait = "no" /\ Turn(p)
  <2>1. p.kind # "start" /\ 1 \in Nat
    BY DEF Talking
  <2> QED  BY <1>1, <2>1 DEF Talks, Turns
<1>3. q = Home(Other(p.by))
  <2>1. 1 \in Nat /\ On(q, 1)
    BY <1>1 DEF Talk
  <2> QED  BY <1>1, <2>1 DEF Talks, Ways
<1>4. CASE p.by = Other(x)
  <2>1. Other(p.by) = x
    BY <1>1, <1>4, Sides
  <2>2. CASE st[p.by].wait = "no"
    BY <1>1, <1>2, <1>4, <2>1, <2>2 DEF Turn, Valid
  <2>3. CASE st[p.by].wait # "no"
    <3>1. /\ ~loop /\ st[p.by].num = st[x].num + 1 + Ahead(p.by)
          /\ \/ p.kind = "wait" /\ p.num = st[x].num
             \/ /\ p.kind = "continue" /\ p.num = st[p.by].num /\ st[p.by].wait = "sent"
      <4>1. Waiting(p.by) /\ 1 \in Nat
        BY <1>1 DEF Talks, OneWaits
      <4> QED  BY <1>1, <2>1, <2>3, <4>1 DEF Waiting
    <3>2. st[x].num \in Nat /\ Ahead(p.by) \in Nat
      BY <1>1 DEF Typed, GDTStream, Ahead
    <3>3. st[x].num # st[p.by].num
      BY <3>1, <3>2
    <3> QED  BY <1>1, <1>2, <1>4, <2>3, <3>1, <3>3 DEF Valid
  <2> QED  BY <2>2, <2>3
<1>5. CASE p.by = x
  <2>1. loop
    BY <1>1, <1>3, <1>5, TargetIs, Sides DEF Home
  <2>2. st[x].wait = "no"
    BY <1>1, <2>1 DEF Talks, OneWaits, Waiting
  <2>3. Turn(p) /\ last = x
    BY <1>2, <1>5, <2>1, <2>2 DEF Turn
  <2>4. ~Linked
    BY <1>1, <2>3, TargetIs, Sides
  <2>5. x = "resp" /\ ~Open("init")
    BY <1>1, <1>2, <2>1, <2>4 DEF Linked, Loops, Side
  <2>6. ~Valid(x, p)
    <3>1. st[x].num = p.num + 1 /\ p.num \in Nat
      BY <1>1, <1>5, <2>3, <2>5 DEF Turn, Ahead, Pkt
    <3> QED  BY <3>1 DEF Valid
  <2> QED  BY <1>1, <1>2, <1>5, <2>1, <2>4, <2>5, <2>6
<1>6. p.by = x \/ p.by = Other(x)
  BY <1>1, Sides
<1> QED  BY <1>1, <1>2, <1>4, <1>5, <1>6

-----------------------------------------------------------------------------
(* The types. *)

LEMMA AnsweredIs ==
    ASSUME Typed, NEW x \in Side, NEW f, Answered(x, f)
    PROVE  /\ said' \in [Side -> Nat]
           /\ said'[x] = said[x] + IF f = "continue" THEN 1 ELSE 0
           /\ \A y \in Side \ {x} : said'[y] = said[y]
<1>0. said \in [Side -> Nat] /\ said[x] \in Nat
  BY DEF Typed
<1>1. CASE f = "continue"
  <2>1. said' = [said EXCEPT ![x] = said[x] + 1]
    BY <1>1 DEF Answered
  <2> QED  BY <1>0, <1>1, <2>1
<1>2. CASE f # "continue"
  BY <1>0, <1>2 DEF Answered
<1> QED  BY <1>1, <1>2

LEMMA ContinueIs ==
    ASSUME Typed, NEW q \in Side, net[q] # <<>>, NEW x \in Side, ProcessSfContinue(x, q)
    PROVE  \E f \in Flag(x) : \E num \in Nat :
             /\ num = st[x].num + Step(~st[x].rr) /\ f \in {"continue", "wait", "end"}
             /\ f = "wait" => ~loop
             /\ said' \in [Side -> Nat] /\ heard' \in [Side -> Seq(Message)]
             /\ said'[x] = said[x] + IF f = "continue" THEN 1 ELSE 0
             /\ heard' = [heard EXCEPT ![x] =
                  Append(heard[x], [by |-> Head(net[q]).by, no |-> Head(net[q]).no])]
             /\ said'[Other(x)] = said[Other(x)] /\ heard'[Other(x)] = heard[Other(x)]
             /\ Len(heard'[x]) = Len(heard[x]) + 1
             /\ st' \in [Side -> GDTStream] /\ st'[Other(x)] = st[Other(x)]
             /\ st'[x].life = st[x].life /\ st'[x].rr = st[x].rr
             /\ st'[x].num = num + Waits(f) + Step(st[x].rr)
             /\ st'[x].wait = (IF f = "wait" THEN "asked" ELSE "no")
             /\ Packet(f, num, x) \in Pkt /\ Answer(q, Packet(f, num, x))
             /\ last' = (IF Linked THEN x ELSE last)
             /\ UNCHANGED <<loop, told, faults>>
<1>0. /\ st[x] \in GDTStream /\ st[x].num \in Nat /\ st[x].rr \in BOOLEAN
      /\ said[x] \in Nat /\ heard[x] \in Seq(Message)
      /\ Head(net[q]).by \in Side /\ Head(net[q]).no \in Nat
      /\ Other(x) \in Side /\ Other(x) # x
  BY HeadIs, Sides DEF Typed, GDTStream, Pkt
<1> DEFINE num == st[x].num + Step(~st[x].rr)
           m == [by |-> Head(net[q]).by, no |-> Head(net[q]).no]
<1>1. PICK f \in Flag(x) :
         /\ Heard(x, Head(net[q])) /\ Answered(x, f)
         /\ st' = [st EXCEPT ![x].num = num + Waits(f) + Step(~~st[x].rr),
                             ![x].rr = ~~st[x].rr,
                             ![x].wait = IF f = "wait" THEN "asked" ELSE "no"]
         /\ Answer(q, Packet(f, num, x))
         /\ last' = IF Linked THEN x ELSE last
         /\ UNCHANGED <<loop, told, faults>>
  BY DEF ProcessSfContinue
<1>2. f \in {"continue", "wait", "end"} /\ (f = "wait" => ~loop)
  BY DEF Flag
<1>3. num \in Nat /\ Step(st[x].rr) \in Nat /\ Waits(f) \in Nat
  BY <1>0 DEF Step, Waits
<1>4. /\ said' \in [Side -> Nat] /\ said'[Other(x)] = said[Other(x)]
      /\ said'[x] = said[x] + IF f = "continue" THEN 1 ELSE 0
  BY <1>0, <1>1, AnsweredIs
<1>5. /\ heard' = [heard EXCEPT ![x] = Append(heard[x], m)]
      /\ m \in Message
  BY <1>0, <1>1 DEF Heard, Message
<1>6. Append(heard[x], m) \in Seq(Message) /\ Len(Append(heard[x], m)) = Len(heard[x]) + 1
  BY <1>0, <1>5, AppendProperties
<1>7. /\ heard' \in [Side -> Seq(Message)] /\ heard'[Other(x)] = heard[Other(x)]
      /\ Len(heard'[x]) = Len(heard[x]) + 1
  BY <1>0, <1>5, <1>6 DEF Typed
<1>8. Packet(f, num, x) \in Pkt
  BY <1>2, <1>3, <1>4, PacketIs DEF Kind
<1> DEFINE n == num + Waits(f) + Step(st[x].rr)
           w == IF f = "wait" THEN "asked" ELSE "no"
           y == [st[x] EXCEPT !.num = n, !.rr = st[x].rr, !.wait = w]
<1>9. st' = [st EXCEPT ![x] = y] /\ n \in Nat /\ w \in {"no", "asked"}
  <2>1. (~~st[x].rr) = st[x].rr
    BY <1>0
  <2>2. n \in Nat
    BY <1>3
  <2> HIDE DEF num
  <2>3. st' = [st EXCEPT ![x] = y]
    BY <1>1, <2>1 DEF Typed
  <2> QED  BY <2>2, <2>3
<1> HIDE DEF n, w
<1>10. /\ y \in GDTStream /\ y.life = st[x].life /\ y.rr = st[x].rr
       /\ y.num = n /\ y.wait = w
  BY <1>0, <1>9 DEF GDTStream
<1> HIDE DEF y
<1>11. st' \in [Side -> GDTStream] /\ st'[x] = y /\ st'[Other(x)] = st[Other(x)]
  BY <1>0, <1>9, <1>10 DEF Typed
<1> QED  BY <1>1, <1>2, <1>3, <1>4, <1>5, <1>7, <1>8, <1>10, <1>11 DEF n, w

LEMMA StartIs ==
    ASSUME Typed, NEW q \in Side, ReceiveStart(q)
    PROVE  \E f \in {"continue", "wait", "end"} :
             /\ net[q] # <<>> /\ Head(net[q]).kind = "start" /\ (f = "wait" => ~loop)
             /\ said' \in [Side -> Nat] /\ heard' \in [Side -> Seq(Message)]
             /\ said'["resp"] = said["resp"] + IF f = "continue" THEN 1 ELSE 0
             /\ said'["init"] = said["init"] /\ heard'["init"] = heard["init"]
             /\ heard' = [heard EXCEPT !["resp"] =
                  Append(heard["resp"], [by |-> Head(net[q]).by, no |-> Head(net[q]).no])]
             /\ Len(heard'["resp"]) = Len(heard["resp"]) + 1
             /\ st' \in [Side -> GDTStream] /\ st'["init"] = st["init"]
             /\ st'["resp"].life = "open" /\ st'["resp"].rr
             /\ st'["resp"].num = 2 + Waits(f)
             /\ st'["resp"].wait = (IF f = "wait" THEN "asked" ELSE "no")
             /\ Packet(f, 1, "resp") \in Pkt /\ Answer(q, Packet(f, 1, "resp"))
             /\ last' = "resp" /\ UNCHANGED <<loop, told, faults>>
<1>0. /\ net[q] # <<>> /\ Head(net[q]).by \in Side /\ Head(net[q]).no \in Nat
      /\ "resp" \in Side /\ "init" \in Side /\ heard["resp"] \in Seq(Message)
      /\ said["resp"] \in Nat
  BY HeadIs DEF ReceiveStart, Typed, Pkt, Side
<1> DEFINE m == [by |-> Head(net[q]).by, no |-> Head(net[q]).no]
<1>1. PICK f \in Flag("resp") :
         /\ Answered("resp", f)
         /\ st' = [st EXCEPT !["resp"] =
                     [life |-> "open", num |-> 2 + Waits(f), rr |-> TRUE,
                      wait |-> IF f = "wait" THEN "asked" ELSE "no"]]
         /\ Answer(q, Packet(f, 1, "resp"))
  BY DEF ReceiveStart
<1>2. f \in {"continue", "wait", "end"} /\ (f = "wait" => ~loop)
  BY DEF Flag
<1>3. Waits(f) \in Nat
  BY DEF Waits
<1>4. /\ said' \in [Side -> Nat] /\ said'["init"] = said["init"]
      /\ said'["resp"] = said["resp"] + IF f = "continue" THEN 1 ELSE 0
  BY <1>0, <1>1, AnsweredIs
<1>5. heard' = [heard EXCEPT !["resp"] = Append(heard["resp"], m)] /\ m \in Message
  BY <1>0 DEF ReceiveStart, Heard, Message
<1>6. /\ Append(heard["resp"], m) \in Seq(Message)
      /\ Len(Append(heard["resp"], m)) = Len(heard["resp"]) + 1
  BY <1>0, <1>5, AppendProperties
<1>7. /\ heard' \in [Side -> Seq(Message)] /\ heard'["init"] = heard["init"]
      /\ Len(heard'["resp"]) = Len(heard["resp"]) + 1
  BY <1>0, <1>5, <1>6 DEF Typed
<1>8. Packet(f, 1, "resp") \in Pkt
  BY <1>0, <1>2, <1>4, PacketIs DEF Kind
<1> DEFINE y == [life |-> "open", num |-> 2 + Waits(f), rr |-> TRUE,
                 wait |-> IF f = "wait" THEN "asked" ELSE "no"]
<1>9. y \in GDTStream
  BY <1>3 DEF GDTStream
<1>10. st' \in [Side -> GDTStream] /\ st'["resp"] = y /\ st'["init"] = st["init"]
  BY <1>0, <1>1, <1>9 DEF Typed
<1> QED  BY <1>0, <1>1, <1>2, <1>4, <1>5, <1>7, <1>8, <1>10 DEF ReceiveStart

(* Streams that are closed, or not, are otherwise as they were.            *)
OnlyClosed ==
    /\ st' \in [Side -> GDTStream]
    /\ \A y \in Side : /\ st'[y].num = st[y].num /\ st'[y].rr = st[y].rr
                       /\ st'[y].wait = st[y].wait
                       /\ st'[y].life = "none" <=> st[y].life = "none"
                       /\ st'[y].life = "open" => st[y].life = "open"

LEMMA ClosedIs ==
    ASSUME Typed, NEW xs \in SUBSET Side, \A x \in xs : Open(x),
           st' = [y \in Side |-> IF y \in xs THEN [st[y] EXCEPT !.life = "closed"]
                                 ELSE st[y]]
    PROVE  /\ OnlyClosed
           /\ \A y \in Side : st'[y].life = IF y \in xs THEN "closed" ELSE st[y].life
BY DEF OnlyClosed, Typed, GDTStream, Open

-----------------------------------------------------------------------------
(* The steps that add nothing to the conversation.                         *)

Quiet(q, ps) ==
    /\ q \in Side \cup {"none"} /\ ps \in SUBSET Pkt
    /\ net' \in [Side -> Seq(Pkt)] /\ NetStep(q, ps)
    /\ \A p \in ps : p.kind \in {"complete", "error"}
    /\ \A p, r \in ps : p = r
    /\ ps # {} => q \in Side /\ On(q, 1)
    /\ UNCHANGED <<loop, said, heard>> /\ OnlyClosed
    /\ told' \in [Side -> Seq(Event)]
    /\ faults' \in 0 .. MaxFaults /\ faults' >= faults
    /\ last' \in Side
    /\ \/ last' = last
       \/ Begun /\ \A r \in Side, k \in Nat : ~Talk(r, k)'

LEMMA QuietInv ==
    ASSUME Typed, Talks, NEW q, NEW ps, Quiet(q, ps)
    PROVE  Typed' /\ Talks'
<1>1. Typed'
  BY DEF Typed, Quiet, OnlyClosed
<1>2. Talks'
  BY QuietStep DEF Quiet, OnlyClosed
<1> QED  BY <1>1, <1>2

(* The streams xs are closed. *)
Closes(xs) == \A y \in Side : st'[y].life = IF y \in xs THEN "closed" ELSE st[y].life

LEMMA SameIs == ASSUME Typed, UNCHANGED st PROVE OnlyClosed /\ Closes({})
BY DEF Typed, OnlyClosed, Closes

LEMMA CloseIs ==
    ASSUME Typed, NEW x \in Side, Open(x), st' = Closed(x), ~Linked
    PROVE  OnlyClosed /\ Closes({x})
<1>1. st' = [y \in Side |-> IF y \in {x} THEN [st[y] EXCEPT !.life = "closed"]
                            ELSE st[y]]
  BY DEF Closed, Typed
<1> QED  BY <1>1, ClosedIs DEF Closes

LEMMA FaultsIs ==
    ASSUME Typed, UNCHANGED faults \/ (faults < MaxFaults /\ faults' = faults + 1)
    PROVE  faults' \in 0 .. MaxFaults /\ faults' >= faults
           /\ (faults' # faults => faults' > 0)
BY BoundsAssumption DEF Typed

LEMMA AnswerQuiet ==
    ASSUME Typed, NEW q \in Side, net[q] # <<>>, UNCHANGED said,
           NEW k \in {"complete", "error"}, NEW n \in Nat, NEW x \in Side,
           Answer(q, Packet(k, n, x))
    PROVE  \E p \in Pkt :
             /\ p.kind = k /\ net' \in [Side -> Seq(Pkt)]
             /\ NetStep(q, {p}) /\ On(q, 1)
<1>1. said' \in [Side -> Nat] /\ k \in Kind
  BY DEF Typed, Kind
<1>2. Packet(k, n, x) \in Pkt /\ Packet(k, n, x).kind = k /\ Packet(k, n, x).by = x
  BY <1>1, PacketIs
<1> QED  BY <1>2, AnswerIs, HeadIs

LEMMA UnknownIs ==
    ASSUME Typed, NEW q \in Side, net[q] # <<>>, Unknown(q)
    PROVE  /\ Target(q) = {} /\ UNCHANGED <<st, told, last, faults>>
           /\ \E p \in Pkt : p.kind = "error" /\ Quiet(q, {p})
<1>1. /\ Target(q) = {} /\ UNCHANGED <<loop, st, last, heard, told, faults, said>>
      /\ Answer(q, Packet("error", Head(net[q]).num, Other(Head(net[q]).by)))
  BY DEF Unknown, UnknownStream
<1>2. Head(net[q]).num \in Nat /\ Other(Head(net[q]).by) \in Side
  BY HeadIs, Sides DEF Pkt
<1>3. PICK p \in Pkt : /\ p.kind = "error" /\ net' \in [Side -> Seq(Pkt)]
                       /\ NetStep(q, {p}) /\ On(q, 1)
  BY <1>1, <1>2, AnswerQuiet
<1>4. OnlyClosed /\ faults' \in 0 .. MaxFaults /\ faults' >= faults
  BY <1>1, SameIs, FaultsIs
<1>5. Quiet(q, {p})
  BY <1>1, <1>3, <1>4 DEF Quiet, Typed
<1> QED  BY <1>1, <1>3, <1>5

LEMMA PassesIs ==
    ASSUME Typed, Talks, Loops, NEW q \in Side, net[q] # <<>>, NEW x \in Target(q),
           Passes(q, x)
    PROVE  /\ ~Linked /\ UNCHANGED <<st, told, last, faults>> /\ Quiet(q, {})
<1>1. /\ UNCHANGED <<loop, st, last, heard, told, faults, said>> /\ Taken(q)
      /\ Head(net[q]).kind = "wait"
  BY DEF Passes, ProcessSfContinueWait
<1>2. ~Linked
  BY <1>1, HeadsFor DEF Talking, Linked
<1>3. OnlyClosed /\ faults' \in 0 .. MaxFaults /\ faults' >= faults
  BY <1>1, SameIs, FaultsIs
<1> QED  BY <1>1, <1>2, <1>3, TakenIs DEF Quiet, Typed

LEMMA RejectsIs ==
    ASSUME Typed, Talks, Loops, NEW q \in Side, net[q] # <<>>, NEW x \in Target(q),
           Rejects(q, x)
    PROVE  /\ ~Linked /\ x \in Side /\ Open(x) /\ Closes({x}) /\ Tell({x}, "error")
           /\ UNCHANGED <<last, faults>>
           /\ \E p \in Pkt : p.kind = "error" /\ Quiet(q, {p})
<1>1. /\ UNCHANGED <<loop, heard, faults, said>> /\ st' = Closed(x) /\ Tell({x}, "error")
      /\ Answer(q, Packet("error", Head(net[q]).num, x))
      /\ last' = IF Linked THEN x ELSE last
      /\ Head(net[q]).kind \in Talking /\ ~Valid(x, Head(net[q]))
  BY DEF Rejects, OutOfSequence
<1>2. ~Linked /\ x \in Side /\ Open(x)
  BY <1>1, HeadsFor DEF Linked
<1>3. Head(net[q]).num \in Nat
  BY HeadIs DEF Pkt
<1>4. PICK p \in Pkt : /\ p.kind = "error" /\ net' \in [Side -> Seq(Pkt)]
                       /\ NetStep(q, {p}) /\ On(q, 1)
  BY <1>1, <1>2, <1>3, AnswerQuiet
<1>5. OnlyClosed /\ Closes({x})
  BY <1>1, <1>2, CloseIs
<1>6. told' \in [Side -> Seq(Event)] /\ faults' \in 0 .. MaxFaults /\ faults' >= faults
  BY <1>1, TellIs, FaultsIs DEF Event
<1>7. Quiet(q, {p})
  BY <1>1, <1>2, <1>4, <1>5, <1>6 DEF Quiet, Typed
<1> QED  BY <1>1, <1>2, <1>4, <1>5, <1>7

LEMMA FinishesIs ==
    ASSUME Typed, Talks, Loops, NEW q \in Side, net[q] # <<>>, NEW x \in Target(q),
           Finishes(q, x)
    PROVE  /\ x \in Side /\ Open(x) /\ Tell({x}, "end") /\ UNCHANGED faults
           /\ Talk(q, 1) /\ net[q][1].kind = "end"
           /\ Linked => UNCHANGED st /\ last' = x /\ x = Other(last)
           /\ ~Linked => Closes({x}) /\ last' = last /\ ~loop
           /\ \E p \in Pkt : p.kind = "complete" /\ p.by = x /\ Quiet(q, {p})
<1>1. /\ UNCHANGED <<loop, heard, faults, said>> /\ st' = Closed(x) /\ Tell({x}, "end")
      /\ Answer(q, Packet("complete", st[x].num + Step(~st[x].rr), x))
      /\ last' = IF Linked THEN x ELSE last
      /\ Head(net[q]).kind = "end" /\ Valid(x, Head(net[q]))
  BY DEF Finishes, ProcessSfEnd
<1>2. /\ x \in Side /\ Open(x) /\ Begun /\ Talk(q, 1) /\ net[q][1] = Head(net[q])
      /\ Head(net[q]).by = Other(x) /\ st[Other(x)].wait = "no" /\ st[x].wait = "no"
      /\ Turn(Head(net[q]))
  BY <1>1, HeadsFor DEF Talking
<1> DEFINE n == st[x].num + Step(~st[x].rr)
<1>3. n \in Nat
  <2>1. st[x].num \in Nat /\ Step(~st[x].rr) \in Nat
    BY <1>2 DEF Typed, GDTStream, Step
  <2> QED  BY <2>1
<1>n. PICK m \in Nat : Answer(q, Packet("complete", m, x))
  BY <1>1, <1>3
<1>4. PICK p \in Pkt : /\ p.kind = "complete" /\ p.by = x
                       /\ net' \in [Side -> Seq(Pkt)]
                       /\ NetStep(q, {p}) /\ On(q, 1)
  <2>1. said' \in [Side -> Nat] /\ x \in Side /\ "complete" \in Kind
    BY <1>1, <1>2 DEF Typed, Kind
  <2> DEFINE p == Packet("complete", m, x)
  <2>2. p \in Pkt /\ p.kind = "complete" /\ p.by = x
    BY <2>1, PacketIs
  <2>3. net' \in [Side -> Seq(Pkt)] /\ NetStep(q, {p}) /\ On(q, 1)
    BY <1>n, <2>2, AnswerIs, HeadIs
  <2> QED  BY <2>2, <2>3
<1>5. told' \in [Side -> Seq(Event)] /\ faults' \in 0 .. MaxFaults /\ faults' >= faults
  BY <1>1, TellIs, FaultsIs DEF Event
<1>6. ASSUME NEW r \in Side, NEW k \in Nat, Talk(r, k)' PROVE FALSE
  <2>1. Talk(r, Old(q, r, k)) /\ Old(q, r, k) \in Nat
    BY <1>4, <1>6 DEF NetStep, Talk, On, Old
  <2>2. \A y \in Side : st[y].wait # "sent"
    BY <1>2, Sides
  <2>3. r = q /\ Old(q, r, k) = 1
    <3>1. 1 \in Nat
      OBVIOUS
    <3> QED  BY <1>2, <2>1, <2>2, <3>1 DEF Talks, Ways
  <2>4. k # 0
    <3>1. net'[r] \in Seq(Pkt) /\ k \in DOMAIN net'[r]
      BY <1>4, <1>6 DEF Talk, On
    <3> QED  BY <3>1
  <2> QED  BY <2>3, <2>4 DEF Old
<1>7. CASE Linked
  <2>1. UNCHANGED st /\ last' = x /\ x = Other(last)
    BY <1>1, <1>7, TargetIs DEF Closed
  <2>2. Quiet(q, {p})
    BY <1>1, <1>2, <1>4, <1>5, <1>6, <2>1, SameIs DEF Quiet
  <2> QED  BY <1>1, <1>2, <1>4, <1>7, <2>1, <2>2
<1>8. CASE ~Linked
  <2>1. OnlyClosed /\ Closes({x})
    BY <1>1, <1>2, <1>8, CloseIs
  <2>2. ~loop
    <3>1. loop => Open("resp") /\ "resp" # Other("resp")
      BY <1>2 DEF Loops, Side, Other
    <3>2. loop => ~Open("init")
      BY <1>8, <3>1 DEF Linked, Side
    <3>3. loop => x = "resp" /\ last = "resp"
      BY <1>2, <3>1, <3>2 DEF Loops, Side
    <3>4. loop => Other(last) # "resp"
      BY <3>3 DEF Other
    <3> QED  BY <1>2, <3>3, Sides DEF Turn
  <2>3. Quiet(q, {p})
    BY <1>1, <1>4, <1>5, <1>8, <2>1 DEF Quiet, Typed
  <2> QED  BY <1>1, <1>2, <1>4, <1>8, <2>1, <2>2, <2>3
<1> QED  BY <1>7, <1>8

LEMMA CompleteIs ==
    ASSUME Typed, NEW q \in Side, ReceiveComplete(q)
    PROVE  /\ On(q, 1) /\ net[q][1].kind \in {"complete", "error"}
           /\ net[q][1].by \in Side
           /\ Tell(Target(q), net[q][1].kind) /\ UNCHANGED <<last, faults>>
           /\ Closes(IF Linked THEN Side ELSE Target(q))
           /\ Quiet(q, {})
<1>1. /\ net[q] # <<>> /\ Head(net[q]).kind \in {"complete", "error"}
      /\ UNCHANGED <<said, loop, last, heard, faults>> /\ Taken(q)
      /\ Tell(Target(q), Head(net[q]).kind)
      /\ st' = [x \in Side |-> IF x \in Target(q) \/ Linked
                               THEN [st[x] EXCEPT !.life = "closed"] ELSE st[x]]
  BY DEF ReceiveComplete
<1>2. On(q, 1) /\ Head(net[q]) = net[q][1] /\ Head(net[q]) \in Pkt
  BY <1>1, HeadIs
<1> DEFINE xs == IF Linked THEN Side ELSE Target(q)
<1>3. xs \in SUBSET Side /\ \A x \in xs : Open(x)
  BY TargetIs DEF Linked
<1>4. st' = [x \in Side |-> IF x \in xs THEN [st[x] EXCEPT !.life = "closed"] ELSE st[x]]
  BY <1>1, TargetIs
<1>5. OnlyClosed /\ Closes(xs)
  <2> HIDE DEF xs
  <2> QED  BY <1>3, <1>4, ClosedIs DEF Closes
<1>6. told' \in [Side -> Seq(Event)] /\ faults' \in 0 .. MaxFaults /\ faults' >= faults
  BY <1>1, TellIs, FaultsIs DEF Event
<1>7. Quiet(q, {})
  BY <1>1, <1>5, <1>6, TakenIs DEF Quiet, Typed
<1> QED  BY <1>1, <1>2, <1>5, <1>7 DEF Pkt

LEMMA TimeoutIs ==
    ASSUME Typed, NEW x \in Side, Timeout(x)
    PROVE  /\ Open(x) /\ UNCHANGED <<last, faults, net>>
           /\ Tell(IF Linked THEN Side ELSE {x}, "timeout")
           /\ Closes(IF Linked THEN Side ELSE {x})
           /\ Quiet("none", {})
<1> DEFINE xs == IF Linked THEN Side ELSE {x}
<1>1. /\ Open(x) /\ Tell(xs, "timeout")
      /\ st' = [y \in Side |-> IF y \in xs THEN [st[y] EXCEPT !.life = "closed"] ELSE st[y]]
      /\ UNCHANGED <<loop, last, net, said, heard, faults>>
  BY DEF Timeout
<1>2. xs \in SUBSET Side /\ \A y \in xs : Open(y)
  BY <1>1 DEF Linked
<1> HIDE DEF xs
<1>3. OnlyClosed /\ Closes(xs)
  BY <1>1, <1>2, ClosedIs DEF Closes
<1>4. told' \in [Side -> Seq(Event)] /\ faults' \in 0 .. MaxFaults /\ faults' >= faults
  BY <1>1, TellIs, FaultsIs DEF Event
<1>5. NetStep("none", {})
  BY <1>1 DEF NetStep, Old, On, Side
<1>6. Quiet("none", {})
  BY <1>1, <1>3, <1>4, <1>5 DEF Quiet, Typed
<1> QED  BY <1>1, <1>3, <1>6 DEF xs

LEMMA LoseIs ==
    ASSUME Typed, NEW q \in Side, Lose(q)
    PROVE  UNCHANGED <<st, told, last>> /\ Quiet(q, {})
<1>1. /\ net[q] # <<>> /\ UNCHANGED <<loop, st, last, said, heard, told>>
      /\ net' = [net EXCEPT ![q] = Tail(net[q])]
      /\ UNCHANGED faults \/ (faults < MaxFaults /\ faults' = faults + 1)
  BY DEF Lose
<1>2. Taken(q)
  BY <1>1 DEF Taken, Rest, Typed
<1> QED  BY <1>1, <1>2, SameIs, TakenIs, FaultsIs DEF Quiet, Typed

LEMMA RefuseIs ==
    ASSUME Typed, NEW q \in Side, Refuse(q)
    PROVE  /\ UNCHANGED <<st, told, last>> /\ faults' > 0
           /\ \E p \in Pkt : p.kind = "error" /\ Quiet(q, {p})
<1>1. /\ net[q] # <<>> /\ UNCHANGED <<loop, st, last, said, heard, told>>
      /\ Answer(q, Packet("error", Head(net[q]).num, Other(Head(net[q]).by)))
      /\ faults < MaxFaults /\ faults' = faults + 1
  BY DEF Refuse
<1>2. Head(net[q]).num \in Nat /\ Other(Head(net[q]).by) \in Side
  BY <1>1, HeadIs, Sides DEF Pkt
<1>3. PICK p \in Pkt : /\ p.kind = "error" /\ net' \in [Side -> Seq(Pkt)]
                       /\ NetStep(q, {p}) /\ On(q, 1)
  BY <1>1, <1>2, AnswerQuiet
<1>4. faults' \in 0 .. MaxFaults /\ faults' >= faults /\ faults' > 0
  <2>1. faults \in Nat
    BY DEF Typed
  <2> QED  BY <1>1, <2>1, FaultsIs
<1>5. Quiet(q, {p})
  BY <1>1, <1>3, <1>4, SameIs DEF Quiet, Typed
<1> QED  BY <1>1, <1>3, <1>4, <1>5

-----------------------------------------------------------------------------
(* The steps that carry the conversation. *)

(* When the conversation's packet is answered, the answer is all there is  *)
(* of it.                                                                  *)
LEMMA OnlyAnswer ==
    ASSUME Typed, Ways, NEW q \in Side, Talk(q, 1), NEW p \in Pkt, Answer(q, p),
           \A y \in Side : st[y].wait # "sent"
    PROVE  /\ net' \in [Side -> Seq(Pkt)] /\ NetStep(q, {p})
           /\ \A r \in Side, k \in Nat : Talk(r, k)' =>
                net'[r][k] = p /\ r = Home(Other(p.by)) /\ k = Len(Rest(q, r)) + 1
           /\ loop => \A r \in Side, k \in Nat : On(r, k)' =>
                net'[r][k] = p /\ r = Home(Other(p.by)) /\ k = Len(Rest(q, r)) + 1
<1>0. net[q] # <<>>
  <2>1. net[q] \in Seq(Pkt) /\ 1 \in DOMAIN net[q]
    BY DEF Typed, Talk, On
  <2> QED  BY <2>1
<1>1. net' \in [Side -> Seq(Pkt)] /\ NetStep(q, {p})
  BY <1>0, AnswerIs
<1>2. ASSUME NEW r \in Side, NEW k \in Nat, On(r, k)' PROVE k # 0
  <2>1. net'[r] \in Seq(Pkt) /\ k \in DOMAIN net'[r]
    BY <1>1, <1>2 DEF On
  <2> QED  BY <2>1
<1>3. ASSUME NEW r \in Side, NEW k \in Nat, On(r, k)', Talk(r, k)' \/ loop
      PROVE  net'[r][k] = p /\ r = Home(Other(p.by)) /\ k = Len(Rest(q, r)) + 1
  <2>1. Old(q, r, k) \in Nat /\ 1 \in Nat /\ On(q, 1)
    BY DEF Old, Talk
  <2>2. ASSUME On(r, Old(q, r, k)), net'[r][k] = net[r][Old(q, r, k)] PROVE FALSE
    <3>1. Talk(r, k)' => Talk(r, Old(q, r, k))
      BY <2>2 DEF Talk, On
    <3>2. r = q /\ Old(q, r, k) = 1
      BY <1>3, <2>1, <2>2, <3>1 DEF Ways
    <3> QED  BY <1>2, <1>3, <3>2 DEF Old
  <2> QED  BY <1>1, <1>3, <2>2 DEF NetStep
<1>4. \A r \in Side, k \in Nat : Talk(r, k)' => On(r, k)'
  BY DEF Talk
<1> QED  BY <1>1, <1>3, <1>4

LEMMA TalkStart ==
    ASSUME Typed, Talks, Start
    PROVE  /\ Typed' /\ Talks'
           /\ \E p \in Pkt : p.kind = "start" /\ NetStep("none", {p})
<1>0. /\ st["init"].life = "none" /\ ~Begun /\ \A q \in Side, k \in Nat : ~On(q, k)
      /\ \A y \in Side : st[y] \in GDTStream /\ st[y].num = 1 /\ ~st[y].rr
                         /\ st[y].wait = "no" /\ heard[y] = <<>>
      /\ last = "init" /\ said \in [Side -> Nat] /\ "init" \in Side /\ "resp" \in Side
      /\ said["resp"] = 0 /\ said["init"] = 0
  BY DEF Start, Talks, First, Typed, Side
<1>1. /\ said' = [said EXCEPT !["init"] = 1]
      /\ st' = [st EXCEPT !["init"] = [st["init"] EXCEPT !.life = "open"]]
      /\ net' = [net EXCEPT ![Home("resp")] = Append(net[Home("resp")], Packet("start", 1, "init"))]
      /\ UNCHANGED <<loop, last, heard, told, faults>>
  BY <1>0 DEF Start, Typed
<1>2. said' \in [Side -> Nat] /\ said'["init"] = 1 /\ said'["resp"] = 0
  BY <1>0, <1>1
<1> DEFINE p == Packet("start", 1, "init")
<1>3. /\ p \in Pkt /\ p.kind = "start" /\ p.num = 1 /\ p.by = "init" /\ p.no = 1
  BY <1>0, <1>2, PacketIs DEF Kind
<1>4. Other(p.by) = "resp"
  BY <1>3 DEF Other
<1>5. Answer("none", p)
  <2>1. \A y \in Side : Rest("none", y) = net[y]
    BY DEF Rest, Side
  <2> HIDE DEF p
  <2>2. net' = [net EXCEPT ![Home("resp")] = Append(net[Home("resp")], p)]
    BY <1>1 DEF p
  <2> QED  BY <1>4, <2>1, <2>2 DEF Answer, Typed
<1> HIDE DEF p
<1>6. net' \in [Side -> Seq(Pkt)] /\ NetStep("none", {p})
  <2>1. "none" \notin Side
    BY DEF Side
  <2> QED  BY <1>3, <1>5, <2>1, AnswerIs
<1>7. \A y \in Side, k \in Nat : On(y, k)' =>
         k = Len(Rest("none", y)) + 1 /\ y = Home("resp") /\ net'[y][k] = p
  BY <1>0, <1>4, <1>6 DEF NetStep, Old
<1>8. /\ st' \in [Side -> GDTStream] /\ st'["resp"] = st["resp"]
      /\ st'["init"].life = "open" /\ st'["init"].num = 1 /\ ~st'["init"].rr
      /\ st'["init"].wait = "no"
  BY <1>0, <1>1 DEF Typed, GDTStream
<1>9. Typed'
  BY <1>1, <1>2, <1>6, <1>8 DEF Typed
<1>10. Ways'
  <2>1. \A x : Home(x)' = Home(x)
    BY <1>1 DEF Home
  <2>2. \A y \in Side, k \in Nat : (On(y, k) => y = Home(Other(net[y][k].by)))'
    BY <1>4, <1>7, <2>1, <1>3
  <2>3. \A q, r \in Side, k, l \in Nat : On(q, k)' /\ On(r, l)' => q = r /\ k = l
    BY <1>7
  <2> QED  BY <2>2, <2>3 DEF Ways, Talk
<1>11. First'
  <2>1. \A y \in Side : st'[y].num = 1 /\ ~st'[y].rr /\ st'[y].wait = "no" /\ heard'[y] = <<>>
    BY <1>0, <1>1, <1>8 DEF Side
  <2>2. said' = [y \in Side |-> IF y = "init" /\ st'[y].life # "none" THEN 1 ELSE 0]
    BY <1>2, <1>8 DEF Side
  <2>3. ~Begun'
    BY <1>0, <1>8 DEF Begun
  <2>4. \A q \in Side, k \in Nat : Talk(q, k)' => net'[q][k].kind = "start"
    BY <1>3, <1>7 DEF Talk
  <2>5. \A q \in Side, k \in Nat : On(q, k)' /\ net'[q][k].kind = "start" =>
           net'[q][k].by = "init" /\ net'[q][k].num = 1 /\ net'[q][k].no = 1
    BY <1>3, <1>7
  <2>6. st'["init"].life # "none" /\ last' = "init"
    BY <1>0, <1>1, <1>8
  <2>7. \A q \in Side, k \in Nat : On(q, k)' /\ net'[q][k].kind = "start" =>
           ~Begun' /\ net'[q][k].by = "init" /\ net'[q][k].num = 1 /\ net'[q][k].no = 1
    BY <2>3, <2>5
  <2>8. (\A y \in Side : st[y].num = 1 /\ ~st[y].rr /\ st[y].wait = "no" /\ heard[y] = <<>>)'
    BY <2>1
  <2> QED  BY <2>2, <2>3, <2>4, <2>6, <2>7, <2>8 DEF First
<1>12. OneWaits'
  BY <1>0, <1>8 DEF OneWaits, Waiting, Side
<1>13. Turns'
  BY <1>3, <1>7 DEF Turns, Talk
<1> QED  BY <1>3, <1>6, <1>9, <1>10, <1>11, <1>12, <1>13 DEF Talks

(* The side x has been given the conversation's packet and has answered it *)
(* with p.                                                                 *)
LEMMA TalkAnswer ==
    ASSUME Typed, Talks, NEW q \in Side, Talk(q, 1), NEW x \in Side, NEW y, y = Other(x),
           NEW p \in Pkt, Answer(q, p), p.by = x, p.no = said'[x],
           p.kind \in {"continue", "wait", "end"}, p.kind = "wait" => ~loop,
           \A z \in Side : st[z].wait # "sent",
           loop' = loop, loop => last' = x, Begun',
           st' \in [Side -> GDTStream],
           said' \in [Side -> Nat], heard' \in [Side -> Seq(Message)],
           ~st'["init"].rr, st'["resp"].rr, st'["init"].life # "none",
           st'[x].wait = IF p.kind = "wait" THEN "asked" ELSE "no",
           st'[y].wait = "no",
           p.num = st'[y].num, st'[x].num = p.num + Ahead(x) + Waits(p.kind),
           Len(heard'[x]) = said'[y],
           said'[x] = Len(heard'[y]) + IF p.kind = "continue" THEN 1 ELSE 0,
           p.kind = "continue" => said'[x] = said'[y] + Ahead(y),
           p.kind = "wait" => said'[x] + Ahead(x) = Len(heard'[x])
    PROVE  Talks'
<1>0. /\ y \in Side /\ Other(y) = x /\ x # y /\ \A z \in Side : z = x \/ z = y
      /\ \A z : Home(z)' = Home(z)
  BY Sides DEF Home
<1>1. /\ net' \in [Side -> Seq(Pkt)] /\ NetStep(q, {p})
      /\ \A r \in Side, k \in Nat : Talk(r, k)' =>
           net'[r][k] = p /\ r = Home(Other(p.by)) /\ k = Len(Rest(q, r)) + 1
      /\ loop => \A r \in Side, k \in Nat : On(r, k)' =>
           net'[r][k] = p /\ r = Home(Other(p.by)) /\ k = Len(Rest(q, r)) + 1
  BY OnlyAnswer DEF Talks
<1>2. Ways'
  <2>1. ASSUME NEW r \in Side, NEW k \in Nat, On(r, k)'
        PROVE  (r = Home(Other(net[r][k].by)))'
    <3>1. CASE On(r, Old(q, r, k)) /\ net'[r][k] = net[r][Old(q, r, k)]
      <4>1. Old(q, r, k) \in Nat
        BY DEF Old
      <4>2. r = Home(Other(net[r][Old(q, r, k)].by))
        BY <3>1, <4>1 DEF Talks, Ways
      <4> QED  BY <1>0, <3>1, <4>2
    <3>2. CASE r = Home(Other(p.by)) /\ net'[r][k] = p
      BY <1>0, <3>2
    <3> QED  BY <1>1, <2>1, <3>1, <3>2 DEF NetStep
  <2>2. loop' => \A r, t \in Side, k, l \in Nat :
                   On(r, k)' /\ On(t, l)' => r = t /\ k = l
    BY <1>1
  <2>3. \A r, t \in Side, k, l \in Nat : Talk(r, k)' /\ Talk(t, l)' => r = t /\ k = l
    BY <1>1
  <2> QED  BY <2>1, <2>2, <2>3 DEF Ways
<1>3. First'
  <2>1. ASSUME NEW r \in Side, NEW k \in Nat, On(r, k)', net'[r][k].kind = "start"
        PROVE  FALSE
    <3>1. Talk(r, k)'
      BY <2>1 DEF Talk
    <3> QED  BY <1>1, <2>1, <3>1
  <2>2. Begun' /\ st'["init"].life # "none" /\ ~st'["init"].rr /\ st'["resp"].rr
    OBVIOUS
  <2> QED  BY <2>1, <2>2 DEF First
<1>4. Waiting(x)'
  <2>1. CASE p.kind = "wait"
    <3>1. st'[x].num = st'[y].num + 1 + Ahead(x)
      <4>1. st'[y].num \in Nat /\ Ahead(x) \in Nat
        BY <1>0 DEF GDTStream, Ahead
      <4> QED  BY <2>1, <4>1 DEF Waits
    <3>2. said'[x] = Len(heard'[y])
      <4>1. Len(heard'[y]) \in Nat
        BY <1>0
      <4> QED  BY <2>1, <4>1
    <3>3. \A r \in Side, k \in Nat : Talk(r, k)' =>
            net'[r][k].by = x /\ net'[r][k].kind = "wait" /\ net'[r][k].num = st'[y].num
      BY <1>1, <2>1
    <3> QED  BY <2>1, <3>1, <3>2, <3>3 DEF Waiting, Ahead
  <2>2. CASE p.kind # "wait"
    BY <2>2 DEF Waiting
  <2> QED  BY <2>1, <2>2
<1>5. OneWaits'
  <2>1. Waiting(y)'
    BY DEF Waiting
  <2>2. \A z \in Side : Waiting(z)'
    BY <1>0, <1>4, <2>1
  <2> QED  BY <2>2 DEF OneWaits
<1>6. Turns'
  <2>1. ASSUME NEW r \in Side, NEW k \in Nat, Talk(r, k)', st'[net'[r][k].by].wait = "no"
        PROVE  /\ net'[r][k].kind # "wait" /\ st'[Other(net'[r][k].by)].wait = "no"
               /\ Turn(net[r][k])'
    <3>1. net'[r][k] = p
      BY <1>1, <2>1
    <3>2. p.kind # "wait"
      BY <2>1, <3>1
    <3>3. st'[x].num = p.num + Ahead(x)
      <4>1. p.num \in Nat /\ Ahead(x) \in Nat
        BY DEF Pkt, Ahead
      <4> QED  BY <3>2, <4>1 DEF Waits
    <3>4. Turn(p)'
      BY <3>3 DEF Turn, Ahead
    <3> QED  BY <3>1, <3>2, <3>4 DEF Turn, Ahead
  <2>2. Begun'
    OBVIOUS
  <2> QED  BY <2>1, <2>2 DEF Turns
<1> QED  BY <1>2, <1>3, <1>5, <1>6 DEF Talks

LEMMA TalkReceiveStart ==
    ASSUME Typed, Talks, NEW q \in Side, ReceiveStart(q)
    PROVE  Typed' /\ Talks'
<1>1. PICK f \in {"continue", "wait", "end"} :
        /\ net[q] # <<>> /\ Head(net[q]).kind = "start" /\ (f = "wait" => ~loop)
        /\ said' \in [Side -> Nat] /\ heard' \in [Side -> Seq(Message)]
        /\ said'["resp"] = said["resp"] + IF f = "continue" THEN 1 ELSE 0
        /\ said'["init"] = said["init"] /\ heard'["init"] = heard["init"]
        /\ Len(heard'["resp"]) = Len(heard["resp"]) + 1
        /\ st' \in [Side -> GDTStream] /\ st'["init"] = st["init"]
        /\ st'["resp"].life = "open" /\ st'["resp"].rr
        /\ st'["resp"].num = 2 + Waits(f)
        /\ st'["resp"].wait = (IF f = "wait" THEN "asked" ELSE "no")
        /\ Packet(f, 1, "resp") \in Pkt /\ Answer(q, Packet(f, 1, "resp"))
        /\ last' = "resp" /\ UNCHANGED <<loop, told, faults>>
  BY StartIs
<1> DEFINE p == Packet(f, 1, "resp")
<1>2. /\ p \in Pkt /\ p.kind = f /\ p.num = 1 /\ p.by = "resp" /\ p.no = said'["resp"]
      /\ Answer(q, p)
  BY <1>1, PacketIs DEF Kind, Side
<1> HIDE DEF p
<1>3. On(q, 1) /\ net[q][1].kind = "start" /\ Talk(q, 1) /\ 1 \in Nat
  BY <1>1, HeadIs DEF Talk
<1>4. /\ ~Begun
      /\ \A y \in Side : st[y].num = 1 /\ ~st[y].rr /\ st[y].wait = "no" /\ heard[y] = <<>>
      /\ st["init"].life # "none"
      /\ said = [y \in Side |-> IF y = "init" /\ st[y].life # "none" THEN 1 ELSE 0]
  BY <1>3 DEF Talks, First
<1>5. said["init"] = 1 /\ said["resp"] = 0 /\ "init" \in Side /\ "resp" \in Side
  BY <1>4 DEF Side
<1>6. Other("resp") = "init" /\ Ahead("resp") = 1 /\ Ahead("init") = 0
  BY DEF Other, Ahead
<1>7. st'["init"].num = 1 /\ ~st'["init"].rr /\ st'["init"].wait = "no"
      /\ st'["init"].life # "none" /\ heard'["init"] = <<>> /\ Len(heard'["init"]) = 0
      /\ Len(heard'["resp"]) = 1
  BY <1>1, <1>4, <1>5
<1>8. said'["resp"] = 0 + IF f = "continue" THEN 1 ELSE 0
  BY <1>1, <1>5
<1>9. st'["resp"].num = p.num + Ahead("resp") + Waits(p.kind)
  BY <1>1, <1>2, <1>6 DEF Waits
<1>10. Begun'
  BY <1>1 DEF Begun
<1>11. \A z \in Side : st[z].wait # "sent"
  BY <1>4
<1>12. net' \in [Side -> Seq(Pkt)]
  BY <1>1, <1>2, AnswerIs
<1>13. Typed'
  BY <1>1, <1>5, <1>12 DEF Typed
<1>14. Talks'
  <2>1. /\ p.kind \in {"continue", "wait", "end"} /\ (p.kind = "wait" => ~loop)
        /\ st'["resp"].wait = IF p.kind = "wait" THEN "asked" ELSE "no"
    BY <1>1, <1>2
  <2>2. loop' = loop /\ last' = "resp"
    BY <1>1
  <2>3. Len(heard'["resp"]) = said'["init"]
    BY <1>1, <1>5, <1>7
  <2>4. said'["resp"] = Len(heard'["init"]) + IF p.kind = "continue" THEN 1 ELSE 0
    BY <1>2, <1>7, <1>8
  <2>5. p.kind = "continue" => said'["resp"] = said'["init"] + Ahead("init")
    BY <1>1, <1>2, <1>5, <1>6, <1>8
  <2>6. p.kind = "wait" => said'["resp"] + Ahead("resp") = Len(heard'["resp"])
    BY <1>2, <1>6, <1>7, <1>8
  <2>7. p.num = st'["init"].num /\ st'["resp"].rr
    BY <1>1, <1>2, <1>7
  <2>8. st' \in [Side -> GDTStream] /\ said' \in [Side -> Nat] /\ heard' \in [Side -> Seq(Message)]
    BY <1>1
  <2>9. "init" = Other("resp")
    BY <1>6
  <2> QED  BY <1>2, <1>3, <1>5, <1>7, <1>9, <1>10, <1>11, <2>1, <2>2, <2>3, <2>4,
              <2>5, <2>6, <2>7, <2>8, <2>9, TalkAnswer
<1> QED  BY <1>13, <1>14

LEMMA TalkContinues ==
    ASSUME Typed, Talks, Loops, NEW q \in Side, net[q] # <<>>, NEW x \in Target(q),
           Continues(q, x)
    PROVE  /\ Typed' /\ Talks'
           /\ x \in Side /\ Open(x) /\ x = Other(Head(net[q]).by) /\ Turn(Head(net[q]))
           /\ Linked => last' = x /\ x = Other(last)
           /\ ~Linked => ~loop
           /\ Talk(q, 1) /\ net[q][1].kind = "continue"
           /\ \A z \in Side : st'[z].life = st[z].life
           /\ UNCHANGED <<loop, told, faults>>
           /\ \E p \in Pkt : p.kind \in {"continue", "wait", "end"} /\ NetStep(q, {p})
<1> DEFINE m == Head(net[q])  y == m.by
<1>0. m.kind = "continue" /\ Valid(x, m) /\ ProcessSfContinue(x, q)
  BY DEF Continues
<1>1. /\ m \in Pkt /\ x \in Side /\ Open(x) /\ Begun /\ Talk(q, 1)
      /\ y = Other(x) /\ st[y].wait = "no" /\ st[x].wait = "no" /\ Turn(m)
  BY <1>0, HeadsFor DEF Talking
<1>2. PICK f \in Flag(x), num \in Nat :
        /\ num = st[x].num + Step(~st[x].rr) /\ f \in {"continue", "wait", "end"}
        /\ f = "wait" => ~loop
        /\ said' \in [Side -> Nat] /\ heard' \in [Side -> Seq(Message)]
        /\ said'[x] = said[x] + IF f = "continue" THEN 1 ELSE 0
        /\ said'[Other(x)] = said[Other(x)] /\ heard'[Other(x)] = heard[Other(x)]
        /\ Len(heard'[x]) = Len(heard[x]) + 1
        /\ st' \in [Side -> GDTStream] /\ st'[Other(x)] = st[Other(x)]
        /\ st'[x].life = st[x].life /\ st'[x].rr = st[x].rr
        /\ st'[x].num = num + Waits(f) + Step(st[x].rr)
        /\ st'[x].wait = (IF f = "wait" THEN "asked" ELSE "no")
        /\ Packet(f, num, x) \in Pkt /\ Answer(q, Packet(f, num, x))
        /\ last' = (IF Linked THEN x ELSE last)
        /\ UNCHANGED <<loop, told, faults>>
  BY <1>0, <1>1, ContinueIs
<1> HIDE DEF m
<1>3. /\ y \in Side /\ x = Other(y) /\ x # y /\ \A z \in Side : z = x \/ z = y
      /\ st[x] \in GDTStream /\ st[y] \in GDTStream /\ Len(heard[x]) \in Nat
      /\ Len(heard[y]) \in Nat /\ said[x] \in Nat /\ said[y] \in Nat
  <2>1. /\ Other(x) \in Side /\ x = Other(Other(x)) /\ x # Other(x)
        /\ \A z \in Side : z = x \/ z = Other(x)
    BY <1>1, Sides
  <2>2. y = Other(x)
    BY <1>1
  <2> HIDE DEF y
  <2>3. /\ y \in Side /\ x = Other(y) /\ x # y /\ \A z \in Side : z = x \/ z = y
    BY <2>1, <2>2
  <2>4. /\ st[x] \in GDTStream /\ st[y] \in GDTStream /\ heard[x] \in Seq(Message)
        /\ heard[y] \in Seq(Message) /\ said[x] \in Nat /\ said[y] \in Nat
    BY <1>1, <2>3 DEF Typed
  <2> QED  BY <2>3, <2>4
<1> DEFINE p == Packet(f, num, x)
<1>4. /\ p \in Pkt /\ p.kind = f /\ p.num = num /\ p.by = x /\ p.no = said'[x]
      /\ Answer(q, p)
  BY <1>1, <1>2, PacketIs DEF Kind
<1> HIDE DEF p
<1>5. ~st["init"].rr /\ st["resp"].rr /\ st["init"].life # "none"
  BY <1>1 DEF Talks, First
<1>6. /\ Step(~st[x].rr) = Ahead(y) /\ Step(st[x].rr) = Ahead(x)
      /\ Ahead(x) + Ahead(y) = 1 /\ Ahead(x) \in Nat /\ Ahead(y) \in Nat
  BY <1>3, <1>5 DEF Step, Ahead, Side, Other
<1>7. /\ m.num = st[x].num /\ st[y].num = m.num + Ahead(y)
      /\ Len(heard[y]) = said[x] /\ said[y] = m.no /\ m.no = Len(heard[x]) + 1
      /\ said[y] = said[x] + Ahead(x) /\ (loop => last = y)
  BY <1>0, <1>1, <1>3 DEF Turn
<1>8. p.num = st'[y].num
  BY <1>1, <1>2, <1>4, <1>6, <1>7
<1>9. st'[x].num = p.num + Ahead(x) + Waits(p.kind)
  <2>1. Waits(f) \in Nat
    BY DEF Waits
  <2> QED  BY <1>2, <1>4, <1>6, <2>1
<1>10. Len(heard'[x]) = said'[y]
  BY <1>1, <1>2, <1>7
<1>11. said'[x] = Len(heard'[y]) + IF p.kind = "continue" THEN 1 ELSE 0
  BY <1>1, <1>2, <1>4, <1>7
<1>12. p.kind = "continue" => said'[x] = said'[y] + Ahead(y)
  BY <1>1, <1>2, <1>3, <1>4, <1>6, <1>7
<1>13. p.kind = "wait" => said'[x] + Ahead(x) = Len(heard'[x])
  BY <1>1, <1>2, <1>3, <1>4, <1>6, <1>7
<1>14. Linked => x = Other(last) /\ loop
  <2>1. Linked => Target(q) = {Other(last)} /\ loop
    BY TargetIs
  <2> QED  BY <2>1
<1>15. ~Linked => ~loop
  <2>1. loop /\ ~Linked => ~Open("init") /\ Open("resp") /\ last = "resp" /\ x = "resp"
    BY <1>1 DEF Loops, Linked, Side
  <2> QED  BY <1>3, <1>7, <2>1
<1>16. ~st'["init"].rr /\ st'["resp"].rr /\ st'["init"].life # "none" /\ Begun'
  BY <1>1, <1>2, <1>3, <1>5 DEF Begun, Side
<1>17. \A z \in Side : st[z].wait # "sent"
  BY <1>1, <1>3
<1>18. net' \in [Side -> Seq(Pkt)] /\ NetStep(q, {p})
  BY <1>4, AnswerIs
<1>19. Typed'
  BY <1>1, <1>2, <1>18 DEF Typed
<1>20. Talks'
  <2>1. st'[y].wait = "no" /\ (loop => last' = x) /\ loop' = loop
    BY <1>1, <1>2, <1>15
  <2>2. st'[x].wait = IF p.kind = "wait" THEN "asked" ELSE "no"
    BY <1>2, <1>4
  <2>3. p.kind \in {"continue", "wait", "end"} /\ (p.kind = "wait" => ~loop)
    BY <1>2, <1>4
  <2>4. y = Other(x)
    BY <1>1
  <2> HIDE DEF y
  <2> QED  BY <1>1, <1>2, <1>4, <1>8, <1>9, <1>10, <1>11, <1>12, <1>13, <1>16, <1>17,
              <2>1, <2>2, <2>3, <2>4, TalkAnswer
<1>21. /\ \A z \in Side : st'[z].life = st[z].life
       /\ p.kind \in {"continue", "wait", "end"}
  <2>1. st'[x].life = st[x].life /\ st'[Other(x)] = st[Other(x)]
    BY <1>2
  <2>2. \A z \in Side : z = x \/ z = Other(x)
    BY <1>1, Sides
  <2> QED  BY <1>2, <1>4, <2>1, <2>2
<1>22. Talk(q, 1) /\ net[q][1].kind = "continue"
  BY <1>0, <1>1, HeadsFor DEF Talking, m
<1> QED  BY <1>1, <1>2, <1>3, <1>4, <1>14, <1>15, <1>18, <1>19, <1>20, <1>21, <1>22 DEF m

LEMMA TalkSendMore ==
    ASSUME Typed, Talks, NEW x \in Side, SendMore(x)
    PROVE  /\ Typed' /\ Talks' /\ Begun /\ ~loop /\ UNCHANGED <<last, told, faults>>
           /\ said[x] + Ahead(x) = Len(heard[x])
           /\ \E p \in Pkt : p.kind = "continue" /\ NetStep("none", {p})
           /\ \A y \in Side : st'[y].life = st[y].life
<1> DEFINE y == Other(x)
<1>0. /\ y \in Side /\ Other(y) = x /\ x # y /\ \A z \in Side : z = x \/ z = y
      /\ st[x] \in GDTStream /\ said[x] \in Nat /\ Home(y) \in Side
  BY Sides DEF Typed
<1>1. /\ Open(x) /\ st[x].wait = "asked"
      /\ st' = [st EXCEPT ![x] = [st[x] EXCEPT !.wait = "sent"]]
      /\ said' = [said EXCEPT ![x] = said[x] + 1]
      /\ net' = [net EXCEPT ![Home(y)] = Append(net[Home(y)], Packet("continue", st[x].num, x))]
      /\ UNCHANGED <<loop, last, heard, told, faults>>
  BY <1>0 DEF SendMore, Typed
<1>2. /\ ~loop /\ Begun /\ st[y].wait = "no" /\ st[x].num = st[y].num + 1 + Ahead(x)
      /\ Len(heard[x]) = said[y] /\ said[x] = Len(heard[y])
      /\ said[x] + Ahead(x) = Len(heard[x])
      /\ \A q \in Side, k \in Nat : Talk(q, k) =>
           /\ net[q][k].by = x
           /\ \/ net[q][k].kind = "wait" /\ net[q][k].num = st[y].num
              \/ net[q][k].kind = "continue" /\ net[q][k].num = st[x].num
  BY <1>1 DEF Talks, OneWaits, Waiting
<1> HIDE DEF y
<1>3. /\ said' \in [Side -> Nat] /\ said'[y] = said[y] /\ said'[x] = said[x] + 1
  BY <1>0, <1>1 DEF Typed
<1> DEFINE p == Packet("continue", st[x].num, x)
<1>4. /\ p \in Pkt /\ p.kind = "continue" /\ p.num = st[x].num /\ p.by = x
  BY <1>0, <1>3, PacketIs DEF Kind, GDTStream
<1>5. Answer("none", p)
  <2>1. \A z \in Side : Rest("none", z) = net[z]
    BY DEF Rest, Side
  <2> HIDE DEF p
  <2>2. net' = [net EXCEPT ![Home(y)] = Append(net[Home(y)], p)]
    BY <1>1 DEF p
  <2> QED  BY <1>4, <2>1, <2>2 DEF Answer, Typed, y
<1> HIDE DEF p
<1>6. net' \in [Side -> Seq(Pkt)] /\ NetStep("none", {p})
  <2>1. "none" \notin Side
    BY DEF Side
  <2> QED  BY <1>4, <1>5, <2>1, AnswerIs
<1>7. ASSUME NEW r \in Side, NEW k \in Nat, On(r, k)'
      PROVE  \/ On(r, k) /\ net'[r][k] = net[r][k]
             \/ r = Home(y) /\ net'[r][k] = p
  <2>1. Old("none", r, k) = k
    BY DEF Old, Side
  <2>2. Other(p.by) = y
    BY <1>4 DEF y
  <2> QED  BY <1>6, <1>7, <2>1, <2>2 DEF NetStep
<1>8. /\ st' \in [Side -> GDTStream] /\ st'[y] = st[y] /\ st'[x].life = st[x].life
      /\ st'[x].num = st[x].num /\ st'[x].rr = st[x].rr /\ st'[x].wait = "sent"
  BY <1>0, <1>1 DEF Typed, GDTStream
<1>9. Typed'
  BY <1>1, <1>3, <1>6, <1>8 DEF Typed
<1>10. Begun' /\ \A z : Home(z)' = Home(z)
  BY <1>0, <1>1, <1>2, <1>8 DEF Begun, Home, Side
<1>11. Ways'
  <2>2. ASSUME NEW r \in Side, NEW k \in Nat, On(r, k)'
        PROVE  (r = Home(Other(net[r][k].by)))'
    <3>1. r = Home(Other(net'[r][k].by))
      BY <1>4, <1>7, <2>2 DEF Talks, Ways, y
    <3> QED  BY <1>10, <3>1
  <2> QED  BY <1>1, <1>2, <1>8, <2>2 DEF Ways
<1>12. ASSUME NEW r \in Side, NEW k \in Nat, Talk(r, k)'
       PROVE  /\ net'[r][k].by = x
              /\ \/ net'[r][k].kind = "wait" /\ net'[r][k].num = st[y].num
                 \/ net'[r][k].kind = "continue" /\ net'[r][k].num = st[x].num
  <2>1. On(r, k)'
    BY <1>12 DEF Talk
  <2>2. (Talk(r, k) /\ net'[r][k] = net[r][k]) \/ net'[r][k] = p
    BY <1>7, <1>12, <2>1 DEF Talk, On
  <2> QED  BY <1>2, <1>4, <2>2
<1>13. First'
  <2>1. \A r \in Side, k \in Nat : On(r, k)' => net'[r][k].kind # "start"
    <3>1. ASSUME NEW r \in Side, NEW k \in Nat, On(r, k)', net'[r][k].kind = "start"
          PROVE  FALSE
      <4>1. Talk(r, k)'
        BY <3>1 DEF Talk
      <4> QED  BY <1>12, <3>1, <4>1
    <3> QED  BY <3>1
  <2>2. st["init"].life # "none" /\ ~st["init"].rr /\ st["resp"].rr
    BY <1>2 DEF Talks, First
  <2>3. st'["init"].life # "none" /\ ~st'["init"].rr /\ st'["resp"].rr
    BY <1>0, <1>8, <2>2 DEF Side
  <2> QED  BY <1>10, <2>1, <2>3 DEF First
<1>14. OneWaits'
  <2>1. Waiting(y)'
    BY <1>2, <1>8 DEF Waiting
  <2>2. Waiting(x)'
    <3>1. ~loop' /\ Begun' /\ st'[y].wait = "no" /\ st'[x].num = st'[y].num + 1 + Ahead(x)
          /\ Len(heard'[x]) = said'[y]
      BY <1>1, <1>2, <1>3, <1>8, <1>10
    <3>2. \A r \in Side, k \in Nat : Talk(r, k)' =>
           /\ net'[r][k].by = x
           /\ \/ net'[r][k].kind = "wait" /\ net'[r][k].num = st'[y].num
              \/ net'[r][k].kind = "continue" /\ net'[r][k].num = st'[x].num
      BY <1>8, <1>12
    <3> QED  BY <1>8, <3>1, <3>2 DEF Waiting, Ahead, y
  <2>3. \A z \in Side : Waiting(z)'
    BY <1>0, <2>1, <2>2
  <2> QED  BY <2>3 DEF OneWaits
<1>15. Turns'
  <2>1. \A r \in Side, k \in Nat : Talk(r, k)' => st'[net'[r][k].by].wait # "no"
    BY <1>8, <1>12
  <2> QED  BY <1>10, <2>1 DEF Turns
<1>16. Talks'
  BY <1>11, <1>13, <1>14, <1>15 DEF Talks
<1>17. \A z \in Side : st'[z].life = st[z].life
  BY <1>0, <1>8
<1> QED  BY <1>1, <1>2, <1>4, <1>6, <1>9, <1>16, <1>17

-----------------------------------------------------------------------------
(* What the users are told.                                                *)

LEMMA LoopOnly ==
    ASSUME Typed, Ways, loop, NEW q \in Side, On(q, 1), NEW ps, NetStep(q, ps),
           net' \in [Side -> Seq(Pkt)], NEW r \in Side, NEW k \in Nat, On(r, k)'
    PROVE  \E p \in ps : net'[r][k] = p
<1>1. ~On(r, Old(q, r, k))
  <2>1. Old(q, r, k) \in Nat /\ 1 \in Nat
    BY DEF Old
  <2>2. On(r, Old(q, r, k)) => r = q /\ Old(q, r, k) = 1
    BY <2>1 DEF Ways
  <2>3. k # 0
    <3>1. net'[r] \in Seq(Pkt) /\ k \in DOMAIN net'[r]
      BY DEF On
    <3> QED  BY <3>1
  <2> QED  BY <2>2, <2>3 DEF Old
<1> QED  BY <1>1 DEF NetStep

(* A side goes on as it was, or it is told once that its stream is over.   *)
Stays(y) == /\ told'[y] = told[y]
            /\ \/ st'[y].life = st[y].life
               \/ st[y].life = "none" /\ st'[y].life = "open"

MayTell(y, e) == e = "complete" => told[Other(y)] # <<>> /\ told[Other(y)][1] = "end"

Over(y) == /\ Open(y) /\ told[y] = <<>> /\ st'[y].life = "closed"
           /\ \E e \in Event : told'[y] = <<e>> /\ MayTell(y, e)

LEMMA OverIs ==
    ASSUME Typed, Ends, ~Linked, NEW x \in Side, Open(x), Closes({x}),
           NEW e \in Event, Tell({x}, e), MayTell(x, e)
    PROVE  /\ \A y \in Side : Stays(y) \/ Over(y)
           /\ told[x] = <<>> /\ told'[x] = <<e>>
<1>1. told[x] = <<>>
  BY DEF Ends
<1>2. /\ told'[x] = <<e>> /\ st'[x].life = "closed"
      /\ \A y \in Side : y # x => told'[y] = told[y] /\ st'[y].life = st[y].life
  BY <1>1, TellIs DEF Closes
<1>3. Over(x)
  BY <1>1, <1>2 DEF Over
<1>4. \A y \in Side : y # x => Stays(y)
  BY <1>2 DEF Stays
<1> QED  BY <1>1, <1>2, <1>3, <1>4

LEMMA EndsApart ==
    ASSUME Typed, Ends, ~Linked, loop' = loop, faults' >= faults, faults' \in 0 .. MaxFaults,
           NEW q, NEW ps, NetStep(q, ps),
           \A y \in Side : Stays(y) \/ Over(y),
           \A p \in ps : p.kind = "complete" => /\ p.by \in Side /\ told'[p.by] # <<>>
                                                /\ told'[p.by][1] = "end",
           loop => \A r \in Side, k \in Nat :
                     On(r, k)' /\ net'[r][k].kind = "complete" =>
                       (Open("init")' <=> Open("resp")') /\ net'[r][k].by = last'
    PROVE  Ends'
<1>0. \A y \in Side : Other(y) \in Side /\ Other(y) # y /\ Other(Other(y)) = y
  BY Sides
<1>1. ASSUME NEW y \in Side
      PROVE  /\ Open(y)' => told'[y] = <<>>
             /\ st'[y].life = "none" => told'[y] = <<>>
             /\ ~loop /\ st'[y].life = "closed" => Len(told'[y]) = 1
             /\ loop /\ st'[y].life = "closed" =>
                  \/ told'[y] = <<>> /\ faults' > 0
                  \/ Len(told'[y]) = 1
                  \/ told'[y] = <<"end", "timeout">>
  <2>1. CASE Over(y)
    <3>1. Len(told'[y]) = 1 /\ st'[y].life = "closed"
      BY <2>1 DEF Over
    <3> QED  BY <3>1 DEF Open
  <2>2. CASE Stays(y)
    <3>1. /\ Open(y) => told[y] = <<>>
          /\ st[y].life = "none" => told[y] = <<>>
          /\ ~loop /\ st[y].life = "closed" => Len(told[y]) = 1
          /\ loop /\ st[y].life = "closed" =>
               \/ told[y] = <<>> /\ faults > 0
               \/ Len(told[y]) = 1
               \/ told[y] = <<"end", "timeout">>
      BY DEF Ends
    <3>2. faults > 0 => faults' > 0
      BY BoundsAssumption DEF Typed
    <3> QED  BY <2>2, <3>1, <3>2 DEF Stays, Open
  <2> QED  BY <1>1, <2>1, <2>2
<1>2. ASSUME NEW y \in Side, told[y] # <<>> PROVE told'[y] = told[y]
  BY <1>2 DEF Stays, Over
<1>3. ASSUME NEW r \in Side, NEW k \in Nat, On(r, k)', net'[r][k].kind = "complete"
      PROVE  told'[net'[r][k].by] # <<>> /\ told'[net'[r][k].by][1] = "end"
  <2>1. CASE On(r, Old(q, r, k)) /\ net'[r][k] = net[r][Old(q, r, k)]
    <3> DEFINE j == Old(q, r, k)  p == net[r][j]
    <3>1. j \in Nat /\ net[r] \in Seq(Pkt) /\ j \in DOMAIN net[r]
      BY <2>1 DEF Old, Typed, On
    <3>2. p.by \in Side
      <4>1. p \in Pkt
        BY <3>1
      <4> QED  BY <4>1 DEF Pkt
    <3>3. told[p.by] # <<>> /\ told[p.by][1] = "end"
      BY <1>3, <2>1, <3>1 DEF Ends
    <3> QED  BY <1>2, <2>1, <3>2, <3>3
  <2>2. CASE \E p \in ps : net'[r][k] = p
    BY <1>3, <2>2
  <2> QED  BY <1>3, <2>1, <2>2 DEF NetStep
<1>4. CompleteIsMutual'
  <2>1. ASSUME NEW x \in Side, NEW k \in DOMAIN told'[x], told'[x][k] = "complete"
        PROVE  told'[Other(x)] # <<>> /\ told'[Other(x)][1] = "end"
    <3>1. CASE Stays(x)
      <4>1. told[Other(x)] # <<>> /\ told[Other(x)][1] = "end"
        BY <2>1, <3>1 DEF Stays, Ends, CompleteIsMutual
      <4> QED  BY <1>0, <1>2, <4>1
    <3>2. CASE Over(x)
      <4>1. PICK e \in Event : told'[x] = <<e>> /\ MayTell(x, e)
        BY <3>2 DEF Over
      <4>2. e = "complete"
        BY <2>1, <4>1
      <4> QED  BY <1>0, <1>2, <4>1, <4>2 DEF MayTell
    <3> QED  BY <3>1, <3>2
  <2> QED  BY <2>1 DEF CompleteIsMutual
<1>5. \A x \in Side :
        /\ Open(x)' => told'[x] = <<>> \/ Linked'
        /\ st'[x].life = "none" => told'[x] = <<>>
        /\ ~loop' /\ st'[x].life = "closed" => Len(told'[x]) = 1
        /\ loop' /\ st'[x].life = "closed" =>
             \/ told'[x] = <<>> /\ faults' > 0
             \/ Len(told'[x]) = 1
             \/ told'[x] = <<"end", "timeout">>
  BY <1>1
<1>6. \A r \in Side, k \in Nat :
         On(r, k)' /\ net'[r][k].kind = "complete" =>
           /\ told'[net'[r][k].by] # <<>> /\ told'[net'[r][k].by][1] = "end"
           /\ loop' => /\ Open("init")' <=> Open("resp")'
                       /\ net'[r][k].by = last'
  BY <1>3
<1> QED  BY <1>4, <1>5, <1>6 DEF Ends

LEMMA EndsSame ==
    ASSUME Typed, Ends, Loops, UNCHANGED <<loop, st, told, last>>,
           faults' >= faults, faults' \in 0 .. MaxFaults,
           NEW q, NEW ps, NetStep(q, ps), \A p \in ps : p.kind = "error",
           ps # {} => ~Linked \/ faults' > 0
    PROVE  Ends' /\ Loops'
<1>0. /\ \A y : Open(y)' = Open(y)
      /\ Linked' = Linked /\ Begun' = Begun
      /\ faults > 0 => faults' > 0
  BY BoundsAssumption DEF Open, Linked, Begun, Typed
<1>1. ASSUME NEW r \in Side, NEW k \in Nat, On(r, k)'
      PROVE  \/ \E j \in Nat : On(r, j) /\ net'[r][k] = net[r][j]
             \/ net'[r][k].kind = "error" /\ (~Linked \/ faults' > 0)
  <2>1. Old(q, r, k) \in Nat
    BY DEF Old
  <2> QED  BY <1>1, <2>1 DEF NetStep
<1>2. ASSUME NEW r \in Side, NEW k \in Nat, On(r, k)', net'[r][k].kind = "complete"
      PROVE  /\ told[net'[r][k].by] # <<>> /\ told[net'[r][k].by][1] = "end"
             /\ loop => /\ Open("init") <=> Open("resp")
                        /\ net'[r][k].by = last
  <2>1. PICK j \in Nat : On(r, j) /\ net'[r][k] = net[r][j]
    BY <1>1, <1>2
  <2> QED  BY <1>2, <2>1 DEF Ends
<1>3. \A x \in Side :
        /\ Open(x) => told[x] = <<>> \/ Linked
        /\ st[x].life = "none" => told[x] = <<>>
        /\ ~loop /\ st[x].life = "closed" => Len(told[x]) = 1
        /\ loop /\ st[x].life = "closed" =>
             \/ told[x] = <<>> /\ faults' > 0
             \/ Len(told[x]) = 1
             \/ told[x] = <<"end", "timeout">>
  BY <1>0 DEF Ends
<1>4. CompleteIsMutual'
  BY DEF Ends, CompleteIsMutual
<1>5. Ends'
  <2>1. (\A x \in Side :
           /\ Open(x) => told[x] = <<>> \/ Linked
           /\ st[x].life = "none" => told[x] = <<>>
           /\ ~loop /\ st[x].life = "closed" => Len(told[x]) = 1
           /\ loop /\ st[x].life = "closed" =>
                \/ told[x] = <<>> /\ faults > 0
                \/ Len(told[x]) = 1
                \/ told[x] = <<"end", "timeout">>)'
    BY <1>0, <1>3
  <2>2. \A r \in Side, k \in Nat : On(r, k)' /\ net'[r][k].kind = "complete" =>
           /\ told'[net'[r][k].by] # <<>> /\ told'[net'[r][k].by][1] = "end"
           /\ loop' => /\ Open("init")' <=> Open("resp")'
                       /\ net'[r][k].by = last'
    BY <1>0, <1>2
  <2> QED  BY <1>4, <2>1, <2>2 DEF Ends
<1>6. ASSUME Linked, NEW r \in Side, NEW k \in Nat, On(r, k)'
      PROVE  /\ told[last] = <<"end">> => net'[r][k].kind \in {"complete", "error"}
             /\ net'[r][k].kind = "error" => faults' > 0
  <2>1. CASE \E j \in Nat : On(r, j) /\ net'[r][k] = net[r][j]
    BY <1>0, <1>6, <2>1 DEF Loops, Linked
  <2>2. CASE net'[r][k].kind = "error" /\ (~Linked \/ faults' > 0)
    BY <1>6, <2>2
  <2> QED  BY <1>1, <1>6, <2>1, <2>2
<1>7. Loops'
  <2>1. loop' /\ Linked' =>
          /\ told'[Other(last')] = <<>> /\ told'[last'] \in {<<>>, <<"end">>}
          /\ \A r \in Side, k \in Nat : On(r, k)' =>
                /\ told'[last'] = <<"end">> => net'[r][k].kind \in {"complete", "error"}
                /\ net'[r][k].kind = "error" => faults' > 0
    BY <1>0, <1>6 DEF Loops
  <2>2. loop' => /\ Begun' /\ Open("init")' => Open("resp")'
                 /\ Open("resp")' /\ ~Open("init")' => last' = "resp"
    BY <1>0 DEF Loops
  <2> QED  BY <2>1, <2>2 DEF Loops
<1> QED  BY <1>5, <1>7

(* While no stream is linked, at one client nothing is complete.           *)
LEMMA Apart ==
    ASSUME Typed, Ends, Loops, ~Linked, NEW r \in Side, NEW k \in Nat, On(r, k),
           net[r][k].kind = "complete", loop
    PROVE  ~Open("init") /\ ~Open("resp")
BY DEF Ends, Linked, Side

LEMMA EndsStart ==
    ASSUME Typed, Talks, Ends, Loops, Start
    PROVE  Ends' /\ Loops'
<1>1. /\ st["init"].life = "none" /\ ~Begun /\ \A r \in Side, k \in Nat : ~On(r, k)
      /\ UNCHANGED <<loop, last, told, faults>>
      /\ st' = [st EXCEPT !["init"] = [st["init"] EXCEPT !.life = "open"]]
      /\ "init" \in Side /\ "resp" \in Side
  BY DEF Start, Talks, First, Typed, Side
<1>2. ~Linked /\ ~Begun' /\ ~Linked'
  BY <1>1 DEF Linked, Open, Begun, Typed, Side
<1>3. \A y \in Side : Stays(y)
  BY <1>1 DEF Stays, Typed, GDTStream, Side
<1>4. faults' >= faults /\ faults' \in 0 .. MaxFaults
  BY <1>1, FaultsIs
<1>5. PICK p \in Pkt : p.kind = "start" /\ NetStep("none", {p})
  BY TalkStart
<1>6. \A r \in Side, k \in Nat : On(r, k)' => net'[r][k].kind = "start"
  <2>1. \A r \in Side, k \in Nat : Old("none", r, k) = k
    BY DEF Old, Side
  <2> QED  BY <1>1, <1>5, <2>1 DEF NetStep
<1>7. Ends'
  <2>1. \A z \in {p} : z.kind = "complete" => /\ z.by \in Side /\ told'[z.by] # <<>>
                                             /\ told'[z.by][1] = "end"
    BY <1>5
  <2>2. loop => \A r \in Side, k \in Nat :
                  On(r, k)' /\ net'[r][k].kind = "complete" =>
                    (Open("init")' <=> Open("resp")') /\ net'[r][k].by = last'
    BY <1>6
  <2> QED  BY <1>1, <1>2, <1>3, <1>4, <1>5, <2>1, <2>2, EndsApart
<1>8. Loops'
  <2>1. ~Open("resp")'
    BY <1>2 DEF Begun, Open
  <2> QED  BY <1>2, <2>1 DEF Loops
<1> QED  BY <1>7, <1>8

LEMMA EndsReceiveStart ==
    ASSUME Typed, Talks, Ends, Loops, NEW q \in Side, ReceiveStart(q)
    PROVE  Ends' /\ Loops'
<1>1. PICK f \in {"continue", "wait", "end"} :
        /\ net[q] # <<>> /\ Head(net[q]).kind = "start" /\ (f = "wait" => ~loop)
        /\ said' \in [Side -> Nat]
        /\ st' \in [Side -> GDTStream] /\ st'["init"] = st["init"]
        /\ st'["resp"].life = "open"
        /\ Packet(f, 1, "resp") \in Pkt /\ Answer(q, Packet(f, 1, "resp"))
        /\ last' = "resp" /\ UNCHANGED <<loop, told, faults>>
  BY StartIs
<1> DEFINE p == Packet(f, 1, "resp")
<1>2. p \in Pkt /\ p.kind = f /\ Answer(q, p)
  BY <1>1, PacketIs DEF Kind, Side
<1> HIDE DEF p
<1>3. On(q, 1) /\ net[q][1].kind = "start" /\ 1 \in Nat
  BY <1>1, HeadIs
<1>4. ~Begun /\ "resp" \in Side /\ "init" \in Side
  BY <1>3 DEF Talks, First, Side
<1>5. ~Linked
  BY <1>4 DEF Linked, Begun, Open
<1>6. net' \in [Side -> Seq(Pkt)] /\ NetStep(q, {p})
  BY <1>1, <1>2, AnswerIs
<1>7. ASSUME loop, NEW r \in Side, NEW k \in Nat, On(r, k)'
      PROVE  net'[r][k].kind \in {"continue", "wait", "end"}
  BY <1>2, <1>3, <1>6, <1>7, LoopOnly DEF Talks
<1>8. \A y \in Side : Stays(y)
  <2>1. Stays("init")
    BY <1>1 DEF Stays
  <2>2. Stays("resp")
    BY <1>1, <1>4 DEF Stays, Begun
  <2> QED  BY <2>1, <2>2 DEF Side
<1>9. faults' >= faults /\ faults' \in 0 .. MaxFaults
  BY <1>1, FaultsIs
<1>10. Ends'
  <2>1. \A z \in {p} : z.kind = "complete" => /\ z.by \in Side /\ told'[z.by] # <<>>
                                             /\ told'[z.by][1] = "end"
    BY <1>2
  <2>2. loop => \A r \in Side, k \in Nat :
                  On(r, k)' /\ net'[r][k].kind = "complete" =>
                    (Open("init")' <=> Open("resp")') /\ net'[r][k].by = last'
    BY <1>7
  <2> QED  BY <1>1, <1>5, <1>6, <1>8, <1>9, <2>1, <2>2, EndsApart
<1>11. Loops'
  <2>1. Open("resp")' /\ last' = "resp" /\ Other(last') = "init"
    BY <1>1 DEF Open, Other
  <2>2. Open("init") => told["init"] = <<>>
    BY <1>4, <1>5 DEF Ends
  <2>3. told["resp"] = <<>>
    BY <1>4 DEF Ends, Begun
  <2>4. Linked' => told'["init"] = <<>> /\ told'["resp"] = <<>>
    BY <1>1, <1>4, <2>2, <2>3 DEF Linked, Open
  <2>5. \A r \in Side, k \in Nat : loop' /\ On(r, k)' => net'[r][k].kind # "error"
    BY <1>1, <1>7
  <2> QED  BY <2>1, <2>4, <2>5 DEF Loops
<1> QED  BY <1>10, <1>11

LEMMA EndsSendMore ==
    ASSUME Typed, Talks, Ends, Loops, NEW x \in Side, SendMore(x)
    PROVE  Ends' /\ Loops'
<1>1. PICK p \in Pkt : p.kind = "continue" /\ NetStep("none", {p})
  BY TalkSendMore
<1>2. /\ ~loop /\ UNCHANGED <<last, told, faults>>
      /\ \A y \in Side : st'[y].life = st[y].life
  BY TalkSendMore
<1>3. loop' = loop
  BY DEF SendMore
<1>4. ~Linked /\ \A y \in Side : Stays(y)
  BY <1>2 DEF Linked, Stays
<1>5. faults' >= faults /\ faults' \in 0 .. MaxFaults
  BY <1>2, FaultsIs
<1>6. \A z \in {p} : z.kind = "complete" => /\ z.by \in Side /\ told'[z.by] # <<>>
                                            /\ told'[z.by][1] = "end"
  BY <1>1
<1>7. Ends'
  BY <1>1, <1>2, <1>3, <1>4, <1>5, <1>6, EndsApart
<1> QED  BY <1>2, <1>3, <1>7 DEF Loops

LEMMA EndsContinues ==
    ASSUME Typed, Talks, Ends, Loops, NEW q \in Side, net[q] # <<>>, NEW x \in Target(q),
           Continues(q, x)
    PROVE  Ends' /\ Loops'
<1>1. /\ x \in Side /\ Talk(q, 1) /\ net[q][1].kind = "continue"
      /\ (Linked => last' = x /\ x = Other(last)) /\ (~Linked => ~loop)
      /\ \A z \in Side : st'[z].life = st[z].life
      /\ UNCHANGED <<loop, told, faults>> /\ Typed'
  BY TalkContinues
<1>2. PICK p \in Pkt : p.kind \in {"continue", "wait", "end"} /\ NetStep(q, {p})
  BY TalkContinues
<1>3. faults' >= faults /\ faults' \in 0 .. MaxFaults
  BY <1>1, FaultsIs
<1>4. CASE ~Linked
  <2>1. ~loop /\ \A y \in Side : Stays(y)
    BY <1>1, <1>4 DEF Stays
  <2>2. \A z \in {p} : z.kind = "complete" => /\ z.by \in Side /\ told'[z.by] # <<>>
                                              /\ told'[z.by][1] = "end"
    BY <1>2
  <2>3. Ends'
    BY <1>1, <1>2, <1>3, <1>4, <2>1, <2>2, EndsApart
  <2> QED  BY <1>1, <2>1, <2>3 DEF Loops
<1>5. CASE Linked
  <2>1. /\ loop /\ On(q, 1) /\ 1 \in Nat /\ \A y \in Side : Open(y) /\ Open(y)'
    BY <1>1, <1>5 DEF Linked, Talk, Open
  <2>2. \A r \in Side, k \in Nat : On(r, k)' => net'[r][k].kind \in {"continue", "wait", "end"}
    <3>1. net' \in [Side -> Seq(Pkt)] /\ Ways
      BY <1>1 DEF Typed, Talks
    <3> QED  BY <1>2, <2>1, <3>1, LoopOnly
  <2>3. told[Other(last)] = <<>> /\ told[last] = <<>>
    BY <1>1, <1>5, <2>1 DEF Loops
  <2>4. /\ last \in Side /\ Other(x) = last /\ \A y \in Side : y = x \/ y = Other(x)
        /\ "init" \in Side /\ "resp" \in Side
    <3>1. last \in Side
      BY DEF Typed
    <3> QED  BY <1>1, <1>5, <3>1, Sides DEF Side
  <2>5. \A y \in Side : told'[y] = <<>>
    BY <1>1, <1>5, <2>3, <2>4
  <2>6. Linked'
    BY <1>1, <2>1 DEF Linked
  <2>7. CompleteIsMutual'
    BY <2>5 DEF CompleteIsMutual
  <2>8. \A y \in Side : Open(y)' /\ st'[y].life = "open"
    BY <2>1 DEF Open
  <2>9. Ends'
    BY <2>2, <2>5, <2>6, <2>7, <2>8 DEF Ends
  <2>10. Loops'
    <3>1. told'[Other(last')] = <<>> /\ told'[last'] = <<>>
      BY <1>1, <1>5, <2>4, <2>5
    <3> QED  BY <2>2, <2>4, <2>8, <3>1 DEF Loops
  <2> QED  BY <2>9, <2>10
<1> QED  BY <1>4, <1>5

LEMMA EndsFinishes ==
    ASSUME Typed, Talks, Ends, Loops, NEW q \in Side, net[q] # <<>>, NEW x \in Target(q),
           Finishes(q, x)
    PROVE  Ends' /\ Loops'
<1>1. /\ x \in Side /\ Open(x) /\ Tell({x}, "end") /\ UNCHANGED faults
      /\ Talk(q, 1) /\ net[q][1].kind = "end"
      /\ Linked => UNCHANGED st /\ last' = x /\ x = Other(last)
      /\ ~Linked => Closes({x}) /\ last' = last /\ ~loop
  BY FinishesIs
<1>2. PICK p \in Pkt : p.kind = "complete" /\ p.by = x /\ Quiet(q, {p})
  BY FinishesIs
<1>3. /\ NetStep(q, {p}) /\ net' \in [Side -> Seq(Pkt)] /\ loop' = loop
      /\ faults' >= faults /\ faults' \in 0 .. MaxFaults
  BY <1>2 DEF Quiet
<1>4. CASE ~Linked
  <2>1. "end" \in Event /\ MayTell(x, "end")
    BY DEF Event, MayTell
  <2>2. told'[x] = <<"end">> /\ \A y \in Side : Stays(y) \/ Over(y)
    BY <1>1, <1>4, <2>1, OverIs
  <2>3. \A z \in {p} : z.kind = "complete" => /\ z.by \in Side /\ told'[z.by] # <<>>
                                              /\ told'[z.by][1] = "end"
    <3>1. told'[p.by] = <<"end">> /\ p.by \in Side
      BY <1>1, <1>2, <2>2
    <3>2. <<"end">> # <<>> /\ <<"end">>[1] = "end"
      OBVIOUS
    <3> QED  BY <3>1, <3>2
  <2>4. Ends'
    BY <1>1, <1>3, <1>4, <2>2, <2>3, EndsApart
  <2> QED  BY <1>1, <1>3, <1>4, <2>4 DEF Loops
<1>5. CASE Linked
  <2>1. /\ loop /\ On(q, 1) /\ 1 \in Nat /\ \A y \in Side : Open(y) /\ Open(y)'
    BY <1>1, <1>5 DEF Linked, Talk, Open
  <2>2. \A r \in Side, k \in Nat : On(r, k)' => net'[r][k] = p
    BY <1>3, <2>1, LoopOnly DEF Talks
  <2>3. told[x] = <<>> /\ told[last] = <<>>
    BY <1>1, <1>5, <2>1 DEF Loops
  <2>4. /\ last \in Side /\ Other(x) = last /\ last # x /\ \A y \in Side : y = x \/ y = last
        /\ "init" \in Side /\ "resp" \in Side
    <3>1. last \in Side
      BY DEF Typed
    <3> QED  BY <1>1, <1>5, <3>1, Sides DEF Side
  <2>5. told'[x] = <<"end">> /\ told'[last] = <<>>
    <3>1. "end" \in Event
      BY DEF Event
    <3> QED  BY <1>1, <2>3, <2>4, <3>1, TellIs
  <2>6. Linked'
    BY <1>1, <1>3, <2>1 DEF Linked
  <2>7. CompleteIsMutual'
    <3>1. \A y \in Side : \A k \in DOMAIN told'[y] : told'[y][k] # "complete"
      BY <2>4, <2>5
    <3> QED  BY <3>1 DEF CompleteIsMutual
  <2>8. \A y \in Side : Open(y)' /\ st'[y].life = "open"
    BY <2>1 DEF Open
  <2>9. Ends'
    <3>1. \A r \in Side, k \in Nat : On(r, k)' =>
             told'[net'[r][k].by] = <<"end">> /\ net'[r][k].by = last'
      BY <1>1, <1>2, <1>5, <2>2, <2>5
    <3>2. <<"end">> # <<>> /\ <<"end">>[1] = "end"
      OBVIOUS
    <3>3. \A r \in Side, k \in Nat : On(r, k)' /\ net'[r][k].kind = "complete" =>
           /\ told'[net'[r][k].by] # <<>> /\ told'[net'[r][k].by][1] = "end"
           /\ loop' => /\ Open("init")' <=> Open("resp")'
                       /\ net'[r][k].by = last'
      BY <2>4, <2>8, <3>1, <3>2
    <3> QED  BY <2>6, <2>7, <2>8, <3>3 DEF Ends
  <2>10. Loops'
    <3>1. told'[Other(last')] = <<>> /\ told'[last'] = <<"end">>
      BY <1>1, <1>5, <2>4, <2>5
    <3>2. \A r \in Side, k \in Nat : On(r, k)' => net'[r][k].kind = "complete"
      BY <1>2, <2>2
    <3> QED  BY <2>4, <2>8, <3>1, <3>2 DEF Loops
  <2> QED  BY <2>9, <2>10
<1> QED  BY <1>4, <1>5

LEMMA EndsRejects ==
    ASSUME Typed, Talks, Ends, Loops, NEW q \in Side, net[q] # <<>>, NEW x \in Target(q),
           Rejects(q, x)
    PROVE  Ends' /\ Loops'
<1>1. /\ ~Linked /\ x \in Side /\ Open(x) /\ Closes({x}) /\ Tell({x}, "error")
      /\ UNCHANGED <<last, faults>>
  BY RejectsIs
<1>2. PICK p \in Pkt : p.kind = "error" /\ Quiet(q, {p})
  BY RejectsIs
<1>3. /\ NetStep(q, {p}) /\ net' \in [Side -> Seq(Pkt)] /\ loop' = loop
      /\ faults' >= faults /\ faults' \in 0 .. MaxFaults
  BY <1>2 DEF Quiet
<1>4. /\ Begun /\ Talk(q, 1)
      /\ loop => x = "resp" /\ ~Open("init")
  <2>1. Head(net[q]).kind \in Talking /\ ~Valid(x, Head(net[q]))
    BY DEF Rejects
  <2> QED  BY <2>1, HeadsFor
<1>5. "error" \in Event /\ MayTell(x, "error")
  BY DEF Event, MayTell
<1>6. told'[x] = <<"error">> /\ \A y \in Side : Stays(y) \/ Over(y)
  BY <1>1, <1>5, OverIs
<1>7. \A r \in Side, k \in Nat : loop /\ On(r, k)' => net'[r][k].kind = "error"
  BY <1>2, <1>3, <1>4, LoopOnly DEF Talk, Talks
<1>8. Ends'
  <2>1. \A z \in {p} : z.kind = "complete" => /\ z.by \in Side /\ told'[z.by] # <<>>
                                              /\ told'[z.by][1] = "end"
    BY <1>2
  <2>2. loop => \A r \in Side, k \in Nat :
                  On(r, k)' /\ net'[r][k].kind = "complete" =>
                    (Open("init")' <=> Open("resp")') /\ net'[r][k].by = last'
    BY <1>7
  <2> QED  BY <1>1, <1>3, <1>6, <2>1, <2>2, EndsApart
<1>9. Loops'
  <2>1. loop => ~Open("init")' /\ ~Open("resp")' /\ ~Linked'
    BY <1>1, <1>4 DEF Closes, Open, Linked, Side
  <2> QED  BY <1>3, <2>1 DEF Loops
<1> QED  BY <1>8, <1>9

LEMMA EndsComplete ==
    ASSUME Typed, Talks, Ends, Loops, NEW q \in Side, ReceiveComplete(q)
    PROVE  Ends' /\ Loops'
<1> DEFINE e == net[q][1].kind
<1>1. /\ On(q, 1) /\ e \in {"complete", "error"} /\ 1 \in Nat
      /\ Tell(Target(q), e) /\ UNCHANGED <<last, faults>>
      /\ Closes(IF Linked THEN Side ELSE Target(q)) /\ Quiet(q, {})
      /\ net[q][1].by \in Side
  BY CompleteIs
<1>2. /\ NetStep(q, {}) /\ net' \in [Side -> Seq(Pkt)] /\ loop' = loop
      /\ faults' >= faults /\ faults' \in 0 .. MaxFaults
  BY <1>1 DEF Quiet
<1>3. \A r \in Side, k \in Nat : loop => ~On(r, k)'
  BY <1>1, <1>2, LoopOnly DEF Talks
<1>4. /\ e = "complete" => /\ told[net[q][1].by] # <<>> /\ told[net[q][1].by][1] = "end"
                           /\ loop => /\ Open("init") <=> Open("resp")
                                      /\ net[q][1].by = last
      /\ q = Home(Other(net[q][1].by))
  BY <1>1 DEF Ends, Talks, Ways
<1>5. e \in Event
  BY <1>1 DEF Event
<1>c. loop => \A r \in Side, k \in Nat :
                On(r, k)' /\ net'[r][k].kind = "complete" =>
                  (Open("init")' <=> Open("resp")') /\ net'[r][k].by = last'
  BY <1>3
<1> HIDE DEF e
<1>6. CASE Target(q) = {} /\ ~Linked
  <2>1. \A y \in Side : Stays(y)
    BY <1>1, <1>5, <1>6, TellIs DEF Stays, Closes
  <2>2. Ends'
    BY <1>2, <1>6, <1>c, <2>1, EndsApart
  <2>3. \A y \in Side : Open(y)' = Open(y)
    BY <1>1, <1>6 DEF Closes, Open
  <2>4. ~Linked' /\ "init" \in Side /\ "resp" \in Side /\ (Begun' => Begun)
    BY <1>1, <1>2, <1>6, <2>3 DEF Linked, Begun, Closes, Side
  <2>5. loop => /\ Begun' /\ Open("init")' => Open("resp")'
                /\ Open("resp")' /\ ~Open("init")' => last' = "resp"
    BY <1>1, <2>3, <2>4 DEF Loops
  <2> QED  BY <1>2, <2>2, <2>4, <2>5 DEF Loops
<1>7. CASE Target(q) # {} /\ ~Linked
  <2>1. PICK x \in Target(q) : TRUE
    BY <1>7
  <2>2. Target(q) = {x} /\ x \in Side /\ Open(x) /\ (~loop => x = q)
    BY <1>7, <2>1, TargetIs
  <2>3. Closes({x}) /\ Tell({x}, e)
    BY <1>1, <1>7, <2>2
  <2>4. loop => e # "complete"
    BY <1>4, <1>7, <2>2 DEF Linked, Side
  <2>5. MayTell(x, e)
    <3>1. ~loop => Other(x) = net[q][1].by
      BY <1>1, <1>4, <2>2, Sides DEF Home
    <3> QED  BY <1>4, <2>4, <3>1 DEF MayTell
  <2>6. \A y \in Side : Stays(y) \/ Over(y)
    BY <1>5, <1>7, <2>2, <2>3, <2>5, OverIs
  <2>7. Ends'
    BY <1>2, <1>7, <1>c, <2>6, EndsApart
  <2>8. \A y \in Side : Open(y)' => Open(y)
    BY <2>3 DEF Closes, Open
  <2>9. ~Open(x)' /\ "init" \in Side /\ "resp" \in Side
    BY <2>2, <2>3 DEF Closes, Open, Side
  <2>10. loop => ~(Begun' /\ Open("init")')
    <3>1. Begun' /\ x # "resp" => Begun
      BY <2>2, <2>3, <2>9 DEF Begun, Closes
    <3>2. x = "resp" => Begun
      BY <2>2 DEF Begun, Open
    <3>3. Begun' => Begun
      BY <3>1, <3>2
    <3>4. loop /\ Begun /\ Open("init") => Linked
      BY DEF Loops, Linked, Side
    <3> QED  BY <1>7, <2>8, <2>9, <3>3, <3>4
  <2>11. loop /\ Open("resp")' => last = "resp"
    <3>1. Open("resp")' => (~Open("init") /\ Open("resp")) \/ ~loop
      BY <1>7, <2>8, <2>9 DEF Linked, Side
    <3> QED  BY <3>1 DEF Loops
  <2>12. loop => ~Linked'
    <3>1. Linked' => Open("init")' /\ Open("resp")'
      BY <2>9 DEF Linked
    <3>2. Open("resp")' => Begun'
      BY DEF Open, Begun
    <3> QED  BY <2>10, <3>1, <3>2
  <2> QED  BY <1>1, <1>2, <2>7, <2>10, <2>11, <2>12 DEF Loops
<1>8. CASE Linked
  <2>1. /\ loop /\ Target(q) = {Other(last)} /\ last \in Side /\ Other(last) \in Side
        /\ Other(last) # last /\ Other(Other(last)) = last
        /\ \A y \in Side : y = last \/ y = Other(last)
    BY <1>8, TargetIs, Sides DEF Typed
  <2>2. told[Other(last)] = <<>> /\ told[last] \in {<<>>, <<"end">>}
        /\ (e = "error" => faults > 0)
    BY <1>1, <1>8, <2>1 DEF Loops, e
  <2>3. told'[Other(last)] = <<e>> /\ told'[last] = told[last]
    BY <1>1, <1>5, <2>1, <2>2, TellIs
  <2>4. e = "complete" => told[last] = <<"end">>
    BY <1>4, <2>1, <2>2
  <2>5. \A y \in Side : st'[y].life = "closed"
    BY <1>1, <1>8 DEF Closes
  <2>6. CompleteIsMutual'
    <3>1. ASSUME NEW y \in Side, NEW k \in DOMAIN told'[y], told'[y][k] = "complete"
          PROVE  told'[Other(y)] # <<>> /\ told'[Other(y)][1] = "end"
      <4>1. \A j \in DOMAIN told[last] : told[last][j] # "complete"
        BY <2>2
      <4>2. y = Other(last)
        BY <2>1, <2>3, <3>1, <4>1
      <4>3. e = "complete"
        BY <2>3, <3>1, <4>2
      <4> QED  BY <2>1, <2>3, <2>4, <4>2, <4>3
    <3> QED  BY <3>1 DEF CompleteIsMutual
  <2>7. Len(told'[Other(last)]) = 1
    BY <2>3
  <2>8. (told'[last] = <<>> /\ faults' > 0) \/ Len(told'[last]) = 1
    BY <1>1, <2>2, <2>3, <2>4
  <2>9. \A y \in Side : (told'[y] = <<>> /\ faults' > 0) \/ Len(told'[y]) = 1
    BY <2>1, <2>7, <2>8
  <2>10. Ends'
    BY <1>2, <1>3, <2>1, <2>5, <2>6, <2>9 DEF Ends, Open
  <2>11. ~Open("init")' /\ ~Open("resp")' /\ ~Linked'
    BY <2>5 DEF Open, Linked, Side
  <2> QED  BY <2>10, <2>11 DEF Loops
<1> QED  BY <1>6, <1>7, <1>8

LEMMA EndsTimeout ==
    ASSUME Typed, Talks, Ends, Loops, NEW x \in Side, Timeout(x)
    PROVE  Ends' /\ Loops'
<1>1. /\ Open(x) /\ UNCHANGED <<last, faults, net>>
      /\ Tell(IF Linked THEN Side ELSE {x}, "timeout")
      /\ Closes(IF Linked THEN Side ELSE {x}) /\ Quiet("none", {})
  BY TimeoutIs
<1>2. /\ NetStep("none", {}) /\ loop' = loop
      /\ faults' >= faults /\ faults' \in 0 .. MaxFaults
  BY <1>1 DEF Quiet
<1>3. "timeout" \in Event /\ MayTell(x, "timeout")
  BY DEF Event, MayTell
<1>4. \A r \in Side, k \in Nat : On(r, k)' = On(r, k)
  BY <1>1 DEF On
<1>5. CASE ~Linked
  <2>1. Closes({x}) /\ Tell({x}, "timeout")
    BY <1>1, <1>5
  <2>2. \A y \in Side : Stays(y) \/ Over(y)
    BY <1>1, <1>3, <1>5, <2>1, OverIs
  <2>3. \A r \in Side, k \in Nat : loop /\ On(r, k)' => net'[r][k].kind # "complete"
    <3>1. x = "init" \/ x = "resp"
      BY DEF Side
    <3> QED  BY <1>1, <1>4, <1>5, <3>1, Apart
  <2>4. Ends'
    BY <1>2, <1>5, <2>2, <2>3, EndsApart
  <2>5. \A y \in Side : Open(y)' => Open(y)
    BY <2>1 DEF Closes, Open
  <2>6. ~Open(x)' /\ "init" \in Side /\ "resp" \in Side
    BY <2>1 DEF Closes, Open, Side
  <2>7. loop => ~(Begun' /\ Open("init")')
    <3>1. Begun' /\ x # "resp" => Begun
      BY <2>1, <2>6 DEF Begun, Closes
    <3>2. x = "resp" => Begun
      BY <1>1 DEF Begun, Open
    <3>3. loop /\ Begun /\ Open("init") => Linked
      BY DEF Loops, Linked, Side
    <3> QED  BY <1>5, <2>5, <2>6, <3>1, <3>2, <3>3
  <2>8. loop /\ Open("resp")' => last = "resp"
    <3>1. Open("resp")' => (~Open("init") /\ Open("resp")) \/ ~loop
      BY <1>5, <2>5, <2>6 DEF Linked, Side
    <3> QED  BY <3>1 DEF Loops
  <2>9. loop => ~Linked'
    <3>1. Linked' => Open("init")' /\ Open("resp")'
      BY <2>6 DEF Linked
    <3>2. Open("resp")' => Begun'
      BY DEF Open, Begun
    <3> QED  BY <2>7, <3>1, <3>2
  <2> QED  BY <1>1, <1>2, <2>4, <2>7, <2>8, <2>9 DEF Loops
<1>6. CASE Linked
  <2>1. /\ loop /\ last \in Side /\ Other(last) \in Side
        /\ Other(last) # last /\ Other(Other(last)) = last
        /\ \A y \in Side : y = last \/ y = Other(last)
    BY <1>6, Sides DEF Typed, Linked
  <2>2. told[Other(last)] = <<>> /\ told[last] \in {<<>>, <<"end">>}
    BY <1>6, <2>1 DEF Loops
  <2>3. Tell(Side, "timeout")
    BY <1>1, <1>6
  <2>4. told'[Other(last)] = <<"timeout">> /\ told'[last] \in {<<"timeout">>, <<"end", "timeout">>}
    BY <1>3, <2>1, <2>2, <2>3, TellIs
  <2>5. \A y \in Side : st'[y].life = "closed"
    BY <1>1, <1>6 DEF Closes
  <2>6. CompleteIsMutual'
    <3>1. ASSUME NEW y \in Side, NEW k \in DOMAIN told'[y] PROVE told'[y][k] # "complete"
      <4>1. told'[y] \in {<<"timeout">>, <<"end", "timeout">>}
        BY <2>1, <2>4
      <4> QED  BY <3>1, <4>1
    <3> QED  BY <3>1 DEF CompleteIsMutual
  <2>7. \A y \in Side : Len(told'[y]) = 1 \/ told'[y] = <<"end", "timeout">>
    BY <2>1, <2>4
  <2>8. ~Open("init")' /\ ~Open("resp")' /\ ~Linked'
    BY <2>5 DEF Open, Linked, Side
  <2>9. ASSUME NEW r \in Side, NEW k \in Nat, On(r, k)', net'[r][k].kind = "complete"
        PROVE  /\ told'[net'[r][k].by] # <<>> /\ told'[net'[r][k].by][1] = "end"
               /\ net'[r][k].by = last'
    <3>1. /\ net[r][k].by = last
          /\ told[last] # <<>> /\ net'[r][k] = net[r][k]
      BY <1>1, <1>4, <2>1, <2>9 DEF Ends
    <3>2. told'[last] # <<>> /\ told'[last][1] = "end"
      <4>1. told[last] = <<"end">>
        BY <2>2, <3>1
      <4> QED  BY <1>3, <2>1, <2>3, <4>1, TellIs
    <3> QED  BY <1>1, <3>1, <3>2
  <2>10. \A r \in Side, k \in Nat : On(r, k)' /\ net'[r][k].kind = "complete" =>
           /\ told'[net'[r][k].by] # <<>> /\ told'[net'[r][k].by][1] = "end"
           /\ loop' => /\ Open("init")' <=> Open("resp")'
                       /\ net'[r][k].by = last'
    BY <2>8, <2>9
  <2>11. \A y \in Side : ~Open(y)'
    BY <2>5 DEF Open
  <2>12. Ends'
    BY <1>2, <2>1, <2>5, <2>6, <2>7, <2>10, <2>11 DEF Ends
  <2> QED  BY <2>8, <2>12 DEF Loops
<1> QED  BY <1>5, <1>6

-----------------------------------------------------------------------------
(* The invariant. *)

LEMMA InitInv == Init => Inv
<1> SUFFICES ASSUME Init PROVE Inv
  OBVIOUS
<1>1. \A q \in Side, k \in Nat : ~On(q, k)
  BY DEF Init, On
<1>2. \A x \in Side : /\ st[x].life = "none" /\ st[x].num = 1 /\ st[x].rr = FALSE
                      /\ st[x].wait = "no" /\ heard[x] = <<>> /\ told[x] = <<>>
                      /\ said[x] = 0 /\ net[x] = <<>>
  BY DEF Init
<1>3. Typed
  BY BoundsAssumption DEF Init, Typed, GDTStream, Side
<1>4. ~Begun /\ "init" \in Side /\ \A x \in Side : ~Open(x)
  BY <1>2 DEF Begun, Open, Side
<1>5. Talks
  <2>1. Ways /\ OneWaits /\ Turns
    BY <1>1, <1>2 DEF Ways, OneWaits, Waiting, Turns, Talk
  <2>2. said = [y \in Side |-> IF y = "init" /\ st[y].life # "none" THEN 1 ELSE 0]
    BY <1>2 DEF Init
  <2>3. First
    BY <1>1, <1>2, <1>4, <2>2 DEF First, Talk, Init
  <2> QED  BY <2>1, <2>3 DEF Talks
<1>6. Ends
  <2>1. CompleteIsMutual
    BY <1>2 DEF CompleteIsMutual
  <2> QED  BY <1>1, <1>2, <1>4, <2>1 DEF Ends
<1>7. Loops
  BY <1>4 DEF Loops, Linked, Side
<1> QED  BY <1>3, <1>5, <1>6, <1>7 DEF Inv

LEMMA QuietEnds ==
    ASSUME Typed, Talks, Ends, Loops, NEW q, NEW ps, Quiet(q, ps),
           UNCHANGED <<st, told, last>>,
           \A p \in ps : p.kind = "error", ps # {} => ~Linked \/ faults' > 0
    PROVE  Inv'
<1>1. /\ NetStep(q, ps) /\ loop' = loop
      /\ faults' >= faults /\ faults' \in 0 .. MaxFaults
  BY DEF Quiet
<1>2. Ends' /\ Loops'
  BY <1>1, EndsSame
<1> QED  BY <1>2, QuietInv DEF Inv

LEMMA Inductive == Inv /\ [Next]_vars => Inv'
<1> SUFFICES ASSUME Typed, Talks, Ends, Loops, [Next]_vars PROVE Inv'
  BY DEF Inv
<1>1. CASE Start
  BY <1>1, TalkStart, EndsStart DEF Inv
<1>2. ASSUME NEW q \in Side, Deliver(q) PROVE Inv'
  <2>0. net[q] # <<>>
    BY <1>2, Deliveries
  <2>1. CASE ReceiveStart(q)
    BY <2>1, TalkReceiveStart, EndsReceiveStart DEF Inv
  <2>2. CASE ReceiveComplete(q)
    BY <2>2, CompleteIs, QuietInv, EndsComplete DEF Inv
  <2>3. CASE Unknown(q)
    <3>1. Target(q) = {} /\ UNCHANGED <<st, told, last, faults>>
      BY <2>0, <2>3, UnknownIs
    <3>2. PICK p \in Pkt : p.kind = "error" /\ Quiet(q, {p})
      BY <2>0, <2>3, UnknownIs
    <3>3. ~Linked
      BY <3>1, TargetIs
    <3> QED  BY <3>1, <3>2, <3>3, QuietEnds
  <2>4. ASSUME NEW x \in Target(q), Continues(q, x) PROVE Inv'
    BY <2>0, <2>4, TalkContinues, EndsContinues DEF Inv
  <2>5. ASSUME NEW x \in Target(q), Finishes(q, x) PROVE Inv'
    <3>1. \E p \in Pkt : Quiet(q, {p})
      BY <2>0, <2>5, FinishesIs
    <3> QED  BY <2>0, <2>5, <3>1, QuietInv, EndsFinishes DEF Inv
  <2>6. ASSUME NEW x \in Target(q), Passes(q, x) PROVE Inv'
    BY <2>0, <2>6, PassesIs, QuietEnds
  <2>7. ASSUME NEW x \in Target(q), Rejects(q, x) PROVE Inv'
    <3>1. \E p \in Pkt : Quiet(q, {p})
      BY <2>0, <2>7, RejectsIs
    <3> QED  BY <2>0, <2>7, <3>1, QuietInv, EndsRejects DEF Inv
  <2> QED  BY <1>2, <2>1, <2>2, <2>3, <2>4, <2>5, <2>6, <2>7, Deliveries
<1>3. ASSUME NEW x \in Side, SendMore(x) PROVE Inv'
  BY <1>3, TalkSendMore, EndsSendMore DEF Inv
<1>4. ASSUME NEW x \in Side, Timeout(x) PROVE Inv'
  BY <1>4, TimeoutIs, QuietInv, EndsTimeout DEF Inv
<1>5. ASSUME NEW q \in Side, Lose(q) PROVE Inv'
  BY <1>5, LoseIs, QuietEnds
<1>6. ASSUME NEW q \in Side, Refuse(q) PROVE Inv'
  <2>1. UNCHANGED <<st, told, last>> /\ faults' > 0
    BY <1>6, RefuseIs
  <2>2. PICK p \in Pkt : p.kind = "error" /\ Quiet(q, {p})
    BY <1>6, RefuseIs
  <2> QED  BY <2>1, <2>2, QuietEnds
<1>7. CASE UNCHANGED vars
  <2>1. UNCHANGED <<loop, st, last, net, said, heard, told, faults>>
    BY <1>7 DEF vars
  <2>2. /\ Quiet("none", {})
    <3>1. NetStep("none", {})
      BY <2>1 DEF NetStep, Old, On, Side
    <3> QED  BY <2>1, <3>1, SameIs, FaultsIs DEF Quiet, Typed
  <2> QED  BY <2>1, <2>2, QuietEnds
<1> QED  BY <1>1, <1>2, <1>3, <1>4, <1>5, <1>6, <1>7 DEF Next

(* InvCorrect: the numbers of the two sides and the packet between them    *)
(* stay in step (Talks), and so do the ends and the turn (Ends, Loops).    *)
THEOREM InvCorrect == Spec => []Inv
<1>1. Init => Inv
  BY InitInv
<1>2. Inv /\ [Next]_vars => Inv'
  BY Inductive
<1> QED  BY <1>1, <1>2, PTL DEF Spec

-----------------------------------------------------------------------------
(* What the invariant is for. *)

(* SequenceCorrect: a packet that reaches an open stream has the number    *)
(* that the stream expects, unless its sender has used CONTINUE_WAIT, or   *)
(* the packet is the stream's own (process_sf_continue(), generate_ack()). *)
THEOREM SequenceCorrect == Spec => []InSequence
<1>1. Inv => InSequence
  <2> SUFFICES ASSUME Typed, Talks, Loops, NEW q \in Side, net[q] # <<>>,
                      Head(net[q]).kind \in Talking, NEW x \in Target(q)
               PROVE  \/ Valid(x, Head(net[q])) <=> Head(net[q]).by # x
                      \/ st[Head(net[q]).by].wait = "sent"
    BY DEF Inv, InSequence, Talking
  <2> DEFINE p == Head(net[q])
  <2>1. p.kind = "wait" \/ p.kind = "continue" \/ p.kind = "end"
    BY DEF Talking
  <2>2. x \in Side
    BY TargetIs
  <2>3. Other(x) # x
    BY <2>2, Sides
  <2> QED  BY <2>1, <2>3, HeadsFor
<1> QED  BY <1>1, InvCorrect, PTL

(* EndsCorrect: the handlers of a stream are called once when it ends, but *)
(* for the linked streams' time-out, and a side is told that the stream is *)
(* complete only after the other has been told of the END it has sent.     *)
THEOREM EndsCorrect == Spec => []EndsAgree
<1>1. Inv => TypeOK
  <2> SUFFICES ASSUME Typed PROVE TypeOK
    BY DEF Inv
  <2>1. \A q \in Side : \A k \in DOMAIN net[q] :
          /\ net[q][k].kind \in Kind /\ net[q][k].by \in Side
          /\ {net[q][k].num, net[q][k].no} \subseteq Nat
    <3>1. ASSUME NEW q \in Side, NEW k \in DOMAIN net[q] PROVE net[q][k] \in Pkt
      <4>1. net[q] \in Seq(Pkt)
        BY DEF Typed
      <4> QED  BY <3>1, <4>1
    <3> QED  BY <3>1 DEF Pkt
  <2>2. \A x \in Side : \A k \in DOMAIN told[x] :
          told[x][k] \in {"end", "complete", "error", "timeout"}
    <3>1. ASSUME NEW x \in Side, NEW k \in DOMAIN told[x] PROVE told[x][k] \in Event
      <4>1. told[x] \in Seq(Event)
        BY DEF Typed
      <4> QED  BY <3>1, <4>1
    <3> QED  BY <3>1 DEF Event
  <2> QED  BY <2>1, <2>2 DEF TypeOK, Typed
<1>2. Inv => EndsOnce
  <2> SUFFICES ASSUME Typed, Ends, Loops, NEW x \in Side
               PROVE  /\ \/ Len(told[x]) <= 1
                         \/ loop /\ told[x] \in {<<"end", "timeout">>, <<"error", "timeout">>}
                      /\ st[x].life = "closed" => told[x] # <<>> \/ (loop /\ faults > 0)
    BY DEF Inv, EndsOnce
  <2>1. Len(<<>>) = 0 /\ Len(<<"end">>) = 1
    OBVIOUS
  <2>2. CASE Open(x)
    <3>1. CASE Linked
      <4>1. loop /\ (x = last \/ x = Other(last))
        <5>1. last \in Side
          BY DEF Typed
        <5> QED  BY <3>1, <5>1, Sides DEF Linked
      <4>2. told[x] = <<>> \/ told[x] = <<"end">>
        BY <3>1, <4>1 DEF Loops
      <4>3. Len(told[x]) = 0 \/ Len(told[x]) = 1
        BY <2>1, <4>2
      <4>4. Len(told[x]) <= 1
        <5>1. \A n \in {0, 1} : n <= 1
          OBVIOUS
        <5> QED  BY <4>3, <5>1
      <4> QED  BY <2>2, <4>4 DEF Open
    <3>2. CASE ~Linked
      <4>1. told[x] = <<>>
        BY <2>2, <3>2 DEF Ends
      <4> QED  BY <2>1, <2>2, <4>1 DEF Open
    <3> QED  BY <3>1, <3>2
  <2>3. CASE st[x].life = "none"
    <3>1. told[x] = <<>>
      BY <2>3 DEF Ends
    <3> QED  BY <2>1, <2>3, <3>1
  <2>4. CASE st[x].life = "closed"
    <3>1. /\ ~loop => Len(told[x]) = 1
          /\ loop => \/ told[x] = <<>> /\ faults > 0
                     \/ Len(told[x]) = 1
                     \/ told[x] = <<"end", "timeout">>
      BY <2>4 DEF Ends
    <3>2. told[x] = <<"end", "timeout">> => told[x] # <<>>
      OBVIOUS
    <3>3. Len(told[x]) = 1 => told[x] # <<>>
      BY <2>1
    <3>4. CASE told[x] = <<>> /\ loop /\ faults > 0
      <4>1. Len(told[x]) <= 1
        BY <2>1, <3>4
      <4> QED  BY <3>4, <4>1
    <3>5. CASE Len(told[x]) = 1
      <4>1. Len(told[x]) <= 1
        BY <3>5
      <4> QED  BY <3>3, <3>5, <4>1
    <3>6. CASE loop /\ told[x] = <<"end", "timeout">>
      BY <3>2, <3>6
    <3> QED  BY <3>1, <3>4, <3>5, <3>6
  <2>5. st[x].life \in {"none", "open", "closed"}
    BY DEF Typed, GDTStream
  <2> QED  BY <2>2, <2>3, <2>4, <2>5 DEF Open
<1>3. Inv => CompleteIsMutual
  BY DEF Inv, Ends
<1>4. Inv => EndsAgree
  BY <1>1, <1>2, <1>3 DEF EndsAgree
<1> QED  BY <1>4, InvCorrect, PTL

-----------------------------------------------------------------------------
(* The users' conversation. *)

Told == {x \in Side : told[x] # <<>>}

Talked == [C!CNext]_<<said, heard, Told>>

LEMMA Hears ==
    ASSUME Typed, NEW x \in Side, told[x] = <<>>, UNCHANGED told,
           NEW n \in Nat, n = Len(heard[x]) + 1, n <= said[Other(x)],
           heard' = [heard EXCEPT ![x] = Append(heard[x], [by |-> Other(x), no |-> n])],
           said' \in [Side -> Nat], said'[Other(x)] = said[Other(x)],
           said'[x] = said[x] \/ said'[x] = said[x] + 1
    PROVE  Talked
<1>0. /\ \A z \in Side : z = x \/ z = Other(x)
      /\ C!Other(x) = Other(x) /\ C!Side = Side
      /\ heard[x] \in Seq(Message) /\ said \in [Side -> Nat] /\ Other(x) \in Side
  <2>1. C!Other(x) = Other(x) /\ C!Side = Side
    BY DEF C!Other, C!Side, Other, Side
  <2>2. heard[x] \in Seq(Message) /\ said \in [Side -> Nat]
    BY DEF Typed
  <2> QED  BY <2>1, <2>2, Sides
<1>1. said' = said \/ said' = [said EXCEPT ![x] = said[x] + 1]
  <2>1. CASE said'[x] = said[x]
    <3>1. \A z \in Side : said'[z] = said[z]
      BY <1>0, <2>1
    <3> QED  BY <1>0, <3>1
  <2>2. CASE said'[x] = said[x] + 1
    <3>1. \A z \in Side : said'[z] = IF z = x THEN said[x] + 1 ELSE said[z]
      BY <1>0, <2>2
    <3> QED  BY <1>0, <3>1
  <2> QED  BY <2>1, <2>2
<1>2. C!Hear(x)
  BY <1>0, <1>1 DEF C!Hear, Told
<1> QED  BY <1>0, <1>2 DEF Talked, C!CNext

LEMMA Finish ==
    ASSUME Typed, UNCHANGED <<said, heard>>, NEW xs \in SUBSET Side, NEW e \in Event,
           Tell(xs, e)
    PROVE  Talked
<1>1. Told' = Told \cup xs
  <2>1. \A x \in Side : (x \in Told' <=> x \in Told \cup xs)
    BY TellIs DEF Told
  <2> QED  BY <2>1 DEF Told
<1>2. CASE xs = {}
  BY <1>1, <1>2 DEF Talked
<1>3. CASE xs # {}
  <2>1. C!Finish(xs)
    BY <1>1, <1>3 DEF C!Finish, Told
  <2> QED  BY <2>1 DEF Talked, C!CNext, C!Side, Side
<1> QED  BY <1>2, <1>3

LEMMA Stutters ==
    ASSUME UNCHANGED <<said, heard, told>>
    PROVE  Talked
BY DEF Talked, Told

LEMMA Speaks ==
    ASSUME Typed, Talks, Start
    PROVE  Talked
<1>1. said["init"] = 0 /\ said' = [said EXCEPT !["init"] = 1] /\ UNCHANGED <<heard, told>>
  BY DEF Start, Talks, First, Side
<1>2. C!Speak
  BY <1>1 DEF C!Speak, Told
<1> QED  BY <1>2 DEF Talked, C!CNext

LEMMA HearsStart ==
    ASSUME Typed, Talks, Ends, NEW q \in Side, ReceiveStart(q)
    PROVE  Talked
<1>1. PICK f \in {"continue", "wait", "end"} :
        /\ net[q] # <<>> /\ Head(net[q]).kind = "start"
        /\ said' \in [Side -> Nat]
        /\ said'["resp"] = said["resp"] + IF f = "continue" THEN 1 ELSE 0
        /\ said'["init"] = said["init"]
        /\ heard' = [heard EXCEPT !["resp"] =
             Append(heard["resp"], [by |-> Head(net[q]).by, no |-> Head(net[q]).no])]
        /\ UNCHANGED told
  BY StartIs
<1>2. On(q, 1) /\ net[q][1] = Head(net[q]) /\ 1 \in Nat
  BY <1>1, HeadIs
<1>3. /\ ~Begun /\ Head(net[q]).by = "init" /\ Head(net[q]).no = 1
      /\ heard["resp"] = <<>> /\ st["init"].life # "none"
      /\ said = [y \in Side |-> IF y = "init" /\ st[y].life # "none" THEN 1 ELSE 0]
      /\ "resp" \in Side /\ "init" \in Side
  BY <1>1, <1>2 DEF Talks, First, Side
<1>4. said["init"] = 1 /\ said["resp"] = 0 /\ Len(heard["resp"]) = 0
  BY <1>3
<1>5. told["resp"] = <<>> /\ Other("resp") = "init"
  BY <1>3 DEF Ends, Begun, Other
<1>6. said'["resp"] = said["resp"] \/ said'["resp"] = said["resp"] + 1
  BY <1>1, <1>4
<1>7. heard' = [heard EXCEPT !["resp"] =
         Append(heard["resp"], [by |-> Other("resp"), no |-> 1])]
  BY <1>1, <1>3, <1>5
<1>8. 1 = Len(heard["resp"]) + 1 /\ 1 <= said[Other("resp")]
  BY <1>4, <1>5
<1> QED  BY <1>1, <1>3, <1>5, <1>6, <1>7, <1>8, Hears

LEMMA HearsNext ==
    ASSUME Typed, Talks, Ends, Loops, NEW q \in Side, net[q] # <<>>, NEW x \in Target(q),
           Continues(q, x)
    PROVE  Talked
<1> DEFINE m == Head(net[q])
<1>1. /\ m.kind = "continue" /\ ProcessSfContinue(x, q)
      /\ x \in Side /\ Open(x) /\ m \in Pkt /\ m.by = Other(x) /\ Turn(m)
      /\ (Linked => x = Other(last)) /\ UNCHANGED told
  <2>1. m.kind = "continue" /\ Valid(x, m) /\ ProcessSfContinue(x, q)
    BY DEF Continues
  <2>2. x \in Side /\ Open(x) /\ m \in Pkt /\ m.by = Other(x) /\ Turn(m)
    BY <2>1, HeadsFor DEF Talking
  <2>3. (Linked => x = Other(last)) /\ UNCHANGED told
    BY TalkContinues
  <2> QED  BY <2>1, <2>2, <2>3
<1>2. PICK f \in Flag(x) :
        /\ said' \in [Side -> Nat]
        /\ said'[x] = said[x] + IF f = "continue" THEN 1 ELSE 0
        /\ heard' = [heard EXCEPT ![x] = Append(heard[x], [by |-> m.by, no |-> m.no])]
        /\ said'[Other(x)] = said[Other(x)]
  BY <1>1, ContinueIs
<1>3. m.no \in Nat /\ m.no = Len(heard[x]) + 1 /\ m.no = said[Other(x)]
  <2>1. Other(m.by) = x
    BY <1>1, Sides
  <2> QED  BY <1>1, <2>1 DEF Turn, Pkt
<1>4. told[x] = <<>>
  <2>1. CASE Linked
    BY <1>1, <2>1 DEF Loops, Linked
  <2>2. CASE ~Linked
    BY <1>1, <2>2 DEF Ends
  <2> QED  BY <2>1, <2>2
<1>5. said'[x] = said[x] \/ said'[x] = said[x] + 1
  <2>1. said[x] \in Nat
    BY <1>1 DEF Typed
  <2> QED  BY <1>2, <2>1
<1>6. heard' = [heard EXCEPT ![x] = Append(heard[x], [by |-> Other(x), no |-> m.no])]
  BY <1>1, <1>2
<1>7. m.no <= said[Other(x)]
  BY <1>3
<1> HIDE DEF m
<1> QED  BY <1>1, <1>2, <1>3, <1>4, <1>5, <1>6, <1>7, Hears

LEMMA Mores ==
    ASSUME Typed, Talks, NEW x \in Side, SendMore(x)
    PROVE  Talked
<1>1. said[x] + Ahead(x) = Len(heard[x]) /\ UNCHANGED told
  BY TalkSendMore
<1>2. said' = [said EXCEPT ![x] = said[x] + 1] /\ UNCHANGED heard
  BY DEF SendMore
<1>3. said[x] < Len(heard[x]) + IF x = "init" THEN 1 ELSE 0
  <2>1. said[x] \in Nat /\ (x = "resp" \/ x = "init")
    BY DEF Typed, Side
  <2>2. CASE x = "resp"
    BY <1>1, <2>1, <2>2 DEF Ahead
  <2>3. CASE x = "init"
    BY <1>1, <2>1, <2>3 DEF Ahead
  <2> QED  BY <2>1, <2>2, <2>3
<1>4. C!More(x)
  BY <1>1, <1>2, <1>3 DEF C!More, Told
<1> QED  BY <1>4 DEF Talked, C!CNext, C!Side, Side

(* ConversationCorrect: every step of the stream is a step of its users'   *)
(* conversation or none of it: they talk in turns and each hears what the  *)
(* other has said, in order, once, and nothing after its end.              *)
THEOREM ConversationCorrect == Spec => ConversationSpec
<1>1. Init => C!CInit
  BY DEF Init, C!CInit, C!Side, Side
<1>2. Inv /\ [Next]_vars => [C!CNext]_<<said, heard, {x \in Side : told[x] # <<>>}>>
  <2> SUFFICES ASSUME Typed, Talks, Ends, Loops, [Next]_vars PROVE Talked
    BY DEF Inv, Talked, Told
  <2>1. CASE Start
    BY <2>1, Speaks
  <2>2. ASSUME NEW q \in Side, Deliver(q) PROVE Talked
    <3>0. net[q] # <<>>
      BY <2>2, Deliveries
    <3>1. CASE ReceiveStart(q)
      BY <3>1, HearsStart
    <3>2. CASE ReceiveComplete(q)
      <4>1. /\ Tell(Target(q), net[q][1].kind) /\ Quiet(q, {})
            /\ net[q][1].kind \in {"complete", "error"}
        BY <3>2, CompleteIs
      <4>2. Target(q) \in SUBSET Side /\ net[q][1].kind \in Event
        BY <4>1, TargetIs DEF Event
      <4> QED  BY <4>1, <4>2, Finish DEF Quiet
    <3>3. CASE Unknown(q)
      BY <3>0, <3>3, UnknownIs, Stutters DEF Quiet
    <3>4. ASSUME NEW x \in Target(q), Continues(q, x) PROVE Talked
      BY <3>0, <3>4, HearsNext
    <3>5. ASSUME NEW x \in Target(q), Finishes(q, x) PROVE Talked
      <4>1. x \in Side /\ Tell({x}, "end") /\ \E p \in Pkt : Quiet(q, {p})
        BY <3>0, <3>5, FinishesIs
      <4> QED  BY <4>1, Finish DEF Quiet, Event
    <3>6. ASSUME NEW x \in Target(q), Passes(q, x) PROVE Talked
      BY <3>0, <3>6, PassesIs, Stutters DEF Quiet
    <3>7. ASSUME NEW x \in Target(q), Rejects(q, x) PROVE Talked
      <4>1. x \in Side /\ Tell({x}, "error") /\ \E p \in Pkt : Quiet(q, {p})
        BY <3>0, <3>7, RejectsIs
      <4> QED  BY <4>1, Finish DEF Quiet, Event
    <3> QED  BY <2>2, <3>1, <3>2, <3>3, <3>4, <3>5, <3>6, <3>7, Deliveries
  <2>3. ASSUME NEW x \in Side, SendMore(x) PROVE Talked
    BY <2>3, Mores
  <2>4. ASSUME NEW x \in Side, Timeout(x) PROVE Talked
    <3>1. Tell(IF Linked THEN Side ELSE {x}, "timeout") /\ Quiet("none", {})
      BY <2>4, TimeoutIs
    <3> QED  BY <3>1, Finish DEF Quiet, Event
  <2>5. ASSUME NEW q \in Side, Lose(q) PROVE Talked
    BY <2>5, LoseIs, Stutters DEF Quiet
  <2>6. ASSUME NEW q \in Side, Refuse(q) PROVE Talked
    BY <2>6, RefuseIs, Stutters DEF Quiet
  <2>7. CASE UNCHANGED vars
    BY <2>7, Stutters DEF vars
  <2> QED  BY <2>1, <2>2, <2>3, <2>4, <2>5, <2>6, <2>7 DEF Next
<1> QED  BY <1>1, <1>2, InvCorrect, PTL DEF Spec, ConversationSpec, C!CSpec
============================================================================
