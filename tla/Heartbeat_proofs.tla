-------------------------- MODULE Heartbeat_proofs --------------------------
(***************************************************************************)
(* What holds of the heartbeats with any number of clients, and however    *)
(* many are missed and associations lost: one thread at a time watches the *)
(* config daemon or looks for it, and the handlers of a stream outlive it. *)
(***************************************************************************)
EXTENDS Heartbeat, TLAPS

(* Somebody connects, watches, or cleans up; init_config() hands this on   *)
(* to the thread that it starts.                                           *)
InCharge(k) == hb[k].pc \in {"config", "loop", "made", "armed", "drain"}

OneInCharge == \A j, k \in Thread : InCharge(j) /\ InCharge(k) => j = k

Watched == TypeOK /\ OneInCharge /\ FlagIsWatched

(* The stream's handlers may still be called. *)
InUse == {"armed", "queued", "waiting"}

Excused == mishap \cap {"overtaken", "stray"} # {} \/ term

(* next is set when the stream has been given up, with what lets the OUT   *)
(* thread hold on to one that has.                                         *)
Safe(k) ==
    /\ hb[k].pc = "none" => str[k] = "none"
    /\ hb[k].next => str[k] \notin InUse
    /\ hb[k].pc \in {"config", "mark", "gone"} => str[k] \notin InUse
    /\ str[k] = "stray" => Excused
    /\ due[k] => str[k] = "waiting" \/ Excused

-----------------------------------------------------------------------------
(* Records. *)

LEMMA InfoType ==
    ASSUME NEW x \in HeartbeatInfo
    PROVE  /\ \A pc \in {"none", "config", "mark", "loop", "made", "armed",
                         "drain", "gone"} : [x EXCEPT !.pc = pc] \in HeartbeatInfo
           /\ [x EXCEPT !.next = TRUE] \in HeartbeatInfo
           /\ [x EXCEPT !.active = FALSE, !.next = TRUE] \in HeartbeatInfo
BY DEF HeartbeatInfo

(* Goto() is a step of one thread. *)
LEMMA GotoIs ==
    ASSUME TypeOK, NEW k \in Thread, NEW pc, Goto(k, pc),
           pc \in {"none", "config", "mark", "loop", "made", "armed", "drain", "gone"}
    PROVE  /\ hb' \in [Thread -> HeartbeatInfo]
           /\ hb'[k].pc = pc /\ hb'[k].client = hb[k].client
           /\ hb'[k].active = hb[k].active /\ hb'[k].next = hb[k].next
           /\ \A j \in Thread \ {k} : hb'[j] = hb[j]
BY DEF TypeOK, Goto, HeartbeatInfo

LEMMA ConnectIs ==
    ASSUME TypeOK, NEW k \in Thread, NEW c \in Client, Connect(k, c)
    PROVE  \E j \in Thread \ {k} :
             /\ hb[j].pc = "none" /\ hb[k].pc = "config"
             /\ hb' \in [Thread -> HeartbeatInfo]
             /\ hb'[j] = [pc |-> "loop", client |-> c, active |-> TRUE, next |-> TRUE]
             /\ hb'[k].pc = "mark" /\ hb'[k].active = hb[k].active
             /\ hb'[k].next = hb[k].next
             /\ \A i \in Thread \ {j, k} : hb'[i] = hb[i]
<1>1. PICK j \in Thread :
        /\ Fresh(j)
        /\ hb' = [hb EXCEPT ![k].pc = "mark",
                    ![j] = [pc |-> "loop", client |-> c, active |-> TRUE, next |-> TRUE]]
  BY DEF Connect
<1>2. hb[j].pc = "none" /\ hb[k].pc = "config" /\ j # k
  BY <1>1 DEF Fresh, Connect
<1>3. [hb[k] EXCEPT !.pc = "mark"] \in HeartbeatInfo
  BY InfoType DEF TypeOK
<1>4. [pc |-> "loop", client |-> c, active |-> TRUE, next |-> TRUE] \in HeartbeatInfo
  BY DEF HeartbeatInfo
<1>5. hb' \in [Thread -> HeartbeatInfo]
  BY <1>1, <1>2, <1>3, <1>4 DEF TypeOK
<1>6. /\ hb'[j] = [pc |-> "loop", client |-> c, active |-> TRUE, next |-> TRUE]
      /\ hb'[k] = [hb[k] EXCEPT !.pc = "mark"]
      /\ \A i \in Thread \ {j, k} : hb'[i] = hb[i]
  BY <1>1, <1>2 DEF TypeOK
<1>7. hb[k] \in HeartbeatInfo
  BY DEF TypeOK
<1>8. /\ hb'[k].pc = "mark" /\ hb'[k].active = hb[k].active
      /\ hb'[k].next = hb[k].next
  BY <1>6, <1>7 DEF HeartbeatInfo
<1> QED  BY <1>2, <1>5, <1>6, <1>8

(* The heartbeats of ks are missed. *)
LEMMA MissIs ==
    ASSUME TypeOK, NEW ks, Miss(ks)
    PROVE  /\ hb' \in [Thread -> HeartbeatInfo] /\ cfgd' \in BOOLEAN
           /\ \A k \in Thread : /\ hb'[k].pc = hb[k].pc
                                /\ hb'[k].client = hb[k].client
           /\ \A k \in Thread : k \notin ks => hb'[k] = hb[k]
           /\ ks # {} => ~cfgd'
           /\ ks = {} => cfgd' = cfgd
<1>1. hb' = [k \in Thread |-> IF k \in ks
               THEN [hb[k] EXCEPT !.active = FALSE, !.next = TRUE] ELSE hb[k]]
  BY DEF Miss
<1>2. hb' \in [Thread -> HeartbeatInfo]
  BY <1>1, InfoType DEF TypeOK
<1>3. \A k \in Thread : hb'[k].pc = hb[k].pc /\ hb'[k].client = hb[k].client
  BY <1>1 DEF TypeOK, HeartbeatInfo
<1> QED  BY <1>1, <1>2, <1>3 DEF Miss, TypeOK

(* Streams that are given up by Expire() or Refused(), and the flag with   *)
(* them.                                                                   *)
LEMMA ExpireTyped ==
    ASSUME TypeOK, NEW ks, Expire(ks)
    PROVE  /\ str' \in [Thread -> StreamState]
           /\ mishap' \subseteq {"flag", "thread", "unarmed", "stray", "overtaken"}
           /\ mishap \subseteq mishap'
BY DEF Expire, Overtaken, TypeOK, StreamState

-----------------------------------------------------------------------------
(* One heartbeat. *)

LEMMA InitWatched == Init => Watched
<1> SUFFICES ASSUME Init PROVE Watched
  OBVIOUS
<1>1. \A k \in Thread : hb[k] = [pc |-> IF k = 0 THEN "config" ELSE "none",
                                 client |-> None, active |-> FALSE, next |-> FALSE]
  BY DEF Init
<1>2. hb \in [Thread -> HeartbeatInfo]
  BY DEF Init, HeartbeatInfo
<1>3. OneInCharge
  <2>1. ASSUME NEW k \in Thread, k # 0 PROVE hb[k].pc = "none"
    <3>1. hb[k] = [pc |-> "none", client |-> None, active |-> FALSE, next |-> FALSE]
      BY <1>1, <2>1
    <3> QED  BY <3>1
  <2> QED  BY <2>1 DEF OneInCharge, InCharge
<1>4. TypeOK
  BY <1>1, <1>2 DEF TypeOK, Init, StreamState
<1> QED  BY <1>3, <1>4 DEF Init, FlagIsWatched, Watched

(* A step that leaves the threads where they are, or takes one to another  *)
(* place of the same kind, and keeps the flag and the heartbeats.          *)
LEMMA KeepsWatched ==
    ASSUME Watched, TypeOK',
           \A k \in Thread : InCharge(k)' => InCharge(k),
           cfgd' => cfgd, term => term', mishap \subseteq mishap',
           \A k \in Thread : cfgd' /\ hb[k].active => hb'[k].active
    PROVE  Watched'
BY DEF Watched, OneInCharge, FlagIsWatched

LEMMA NextWatched == Watched /\ [Next]_vars => Watched'
<1> SUFFICES ASSUME Watched, [Next]_vars PROVE Watched'
  OBVIOUS
<1> USE DEF Watched
<1>1. ASSUME NEW k \in Thread, NEW c \in Client, Connect(k, c) PROVE Watched'
  <2>1. PICK j \in Thread \ {k} :
          /\ hb[j].pc = "none" /\ hb[k].pc = "config"
          /\ hb' \in [Thread -> HeartbeatInfo]
          /\ hb'[j] = [pc |-> "loop", client |-> c, active |-> TRUE, next |-> TRUE]
          /\ hb'[k].pc = "mark" /\ hb'[k].active = hb[k].active
          /\ \A i \in Thread \ {j, k} : hb'[i] = hb[i]
    BY <1>1, ConnectIs
  <2>2. TypeOK' /\ ~cfgd'
    BY <1>1, <2>1 DEF Connect, TypeOK
  <2>3. OneInCharge'
    BY <2>1 DEF OneInCharge, InCharge
  <2> QED  BY <2>2, <2>3 DEF FlagIsWatched
<1>2. ASSUME NEW k \in Thread, Mark(k) PROVE Watched'
  <2>1. Goto(k, "gone") /\ hb[k].pc = "mark" /\ UNCHANGED <<up, term, str, due>>
    BY <1>2 DEF Mark
  <2>2. /\ hb' \in [Thread -> HeartbeatInfo] /\ hb'[k].pc = "gone"
        /\ hb'[k].active = hb[k].active /\ \A j \in Thread \ {k} : hb'[j] = hb[j]
    BY <2>1, GotoIs
  <2>3. TypeOK' /\ OneInCharge'
    BY <1>2, <2>1, <2>2 DEF Mark, TypeOK, OneInCharge, InCharge
  <2>4. FlagIsWatched'
    BY <1>2, <2>2 DEF Mark, FlagIsWatched
  <2> QED  BY <2>3, <2>4
<1>3. ASSUME NEW k \in Thread, NEW pc, Goto(k, pc), TypeOK',
             pc \in {"none", "config", "mark", "loop", "made", "armed", "drain", "gone"},
             InCharge(k) \/ pc = "gone",
             UNCHANGED <<cfgd, term>>, mishap \subseteq mishap'
      PROVE  Watched'
  <2>1. /\ hb'[k].pc = pc /\ hb'[k].active = hb[k].active
        /\ \A j \in Thread \ {k} : hb'[j] = hb[j]
    BY <1>3, GotoIs
  <2>2. \A j \in Thread : InCharge(j)' => InCharge(j)
    BY <1>3, <2>1 DEF InCharge
  <2> QED  BY <1>3, <2>1, <2>2, KeepsWatched
<1>4. ASSUME NEW k \in Thread, NoThread(k) \/ GiveUp(k) PROVE Watched'
  <2>1. Goto(k, "gone") /\ UNCHANGED <<up, cfgd, term, str, due>>
        /\ mishap \subseteq mishap' /\ mishap' \subseteq mishap \cup {"thread"}
    BY <1>4 DEF NoThread, GiveUp
  <2>2. TypeOK'
    BY <2>1, GotoIs DEF TypeOK
  <2> QED  BY <1>3, <2>1, <2>2
<1>5. ASSUME NEW k \in Thread, Make(k) \/ Send(k) \/ Leave(k) \/ Cleanup(k)
      PROVE  Watched'
  <2>1. PICK pc \in {"made", "loop", "drain", "config"} : Goto(k, pc) /\ InCharge(k)
                     /\ (pc = "config" \/ hb[k].pc \in {"loop", "made", "armed", "drain"})
    BY <1>5 DEF Make, Send, Leave, Cleanup, InCharge
  <2>2. UNCHANGED <<up, cfgd, term, due>> /\ mishap \subseteq mishap'
    BY <1>5 DEF Make, Send, Leave, Cleanup
  <2>3. hb[k].client \in Client
    BY <1>5 DEF Make, Send, Leave, Cleanup, TypeOK
  <2>4. str' \in [Thread -> StreamState]
        /\ mishap' \subseteq {"flag", "thread", "unarmed", "stray", "overtaken"}
    BY <1>5 DEF Make, Send, Leave, Cleanup, TypeOK, StreamState
  <2>5. TypeOK'
    BY <2>1, <2>2, <2>3, <2>4, GotoIs DEF TypeOK
  <2> QED  BY <1>3, <2>1, <2>2, <2>5
<1>6. ASSUME NEW k \in Thread, Arm(k) PROVE Watched'
  <2>1. /\ hb[k].pc = "made" /\ UNCHANGED <<up, cfgd, term, due>>
        /\ hb' = [hb EXCEPT ![k].pc = "armed", ![k].next = FALSE]
        /\ mishap \subseteq mishap' /\ mishap' \subseteq mishap \cup {"unarmed"}
        /\ str' \in [Thread -> StreamState]
    BY <1>6 DEF Arm, TypeOK, StreamState
  <2>2. /\ hb' \in [Thread -> HeartbeatInfo] /\ hb'[k].pc = "armed"
        /\ hb'[k].active = hb[k].active /\ hb'[k].client = hb[k].client
        /\ \A j \in Thread \ {k} : hb'[j] = hb[j]
    BY <2>1 DEF TypeOK, HeartbeatInfo
  <2>3. TypeOK' /\ \A j \in Thread : InCharge(j)' => InCharge(j)
    BY <2>1, <2>2 DEF TypeOK, InCharge
  <2> QED  BY <2>1, <2>2, <2>3, KeepsWatched
<1>7. ASSUME UNCHANGED <<up, term, cfgd, hb, mishap>>,
             str' \in [Thread -> StreamState], due' \in [Thread -> BOOLEAN]
      PROVE  Watched'
  BY <1>7, KeepsWatched DEF TypeOK, InCharge
<1>8. ASSUME NEW k \in Thread, OutSend(k) \/ OutDone(k) PROVE Watched'
  BY <1>7, <1>8 DEF OutSend, OutDone, TypeOK, StreamState
<1>9. ASSUME NEW k \in Thread, Reply(k) PROVE Watched'
  <2>1. /\ UNCHANGED <<up, cfgd, term, due>> /\ hb' = [hb EXCEPT ![k].next = TRUE]
        /\ mishap \subseteq mishap' /\ mishap' \subseteq mishap \cup {"overtaken"}
        /\ str' \in [Thread -> StreamState]
    BY <1>9 DEF Reply, Overtaken, TypeOK, StreamState
  <2>2. /\ hb' \in [Thread -> HeartbeatInfo]
        /\ \A j \in Thread : /\ hb'[j].pc = hb[j].pc /\ hb'[j].active = hb[j].active
                             /\ hb'[j].client = hb[j].client
    BY <2>1 DEF TypeOK, HeartbeatInfo
  <2>3. TypeOK' /\ \A j \in Thread : InCharge(j)' => InCharge(j)
    BY <2>1, <2>2 DEF TypeOK, InCharge
  <2> QED  BY <2>1, <2>2, <2>3, KeepsWatched
<1>10. ASSUME NEW ks, Miss(ks), UNCHANGED <<term, due>>, up' \subseteq Client,
              str' \in [Thread -> StreamState],
              mishap' \subseteq {"flag", "thread", "unarmed", "stray", "overtaken"},
              mishap \subseteq mishap'
       PROVE  Watched'
  <2>1. TypeOK' /\ \A j \in Thread : InCharge(j)' => InCharge(j)
    BY <1>10, MissIs DEF TypeOK, InCharge
  <2>2. \A k \in Thread : cfgd' /\ hb[k].active => hb'[k].active
    BY <1>10, MissIs
  <2>3. cfgd' => cfgd
    BY <1>10, MissIs
  <2> QED  BY <1>10, <2>1, <2>2, <2>3, KeepsWatched
<1>11. ASSUME NEW k \in Thread, Refused(k) PROVE Watched'
  <2>1. str' \in [Thread -> StreamState] /\ mishap \subseteq mishap'
        /\ mishap' \subseteq mishap \cup {"overtaken"}
    BY <1>11 DEF Refused, Overtaken, TypeOK, StreamState
  <2> QED  BY <1>10, <1>11, <2>1 DEF Refused, TypeOK
<1>12. ASSUME NEW ks, Expire(ks), UNCHANGED <<term, due>>, up' \subseteq Client
       PROVE  Watched'
  <2>1. Miss({k \in ks : str[k] # "bare"})
    BY <1>12 DEF Expire
  <2> QED  BY <1>10, <1>12, <2>1, ExpireTyped
<1>13. ASSUME NEW k \in Thread, Timeout(k) PROVE Watched'
  BY <1>12, <1>13 DEF Timeout, TypeOK
<1>14. ASSUME NEW c \in Client, Down(c) PROVE Watched'
  BY <1>12, <1>14 DEF Down, TypeOK
<1>15. ASSUME NEW c \in Client, Up(c) PROVE Watched'
  BY <1>15, KeepsWatched DEF Up, TypeOK, InCharge
<1>16. CASE Terminate
  BY <1>16, KeepsWatched DEF Terminate, TypeOK, InCharge
<1>17. CASE UNCHANGED vars
  BY <1>7, <1>17 DEF vars, TypeOK
<1> QED  BY <1>1, <1>2, <1>4, <1>5, <1>6, <1>8, <1>9, <1>11, <1>13, <1>14, <1>15,
            <1>16, <1>17 DEF Next, ThreadStep, InOut

(* The config daemon is watched by one heartbeat at a time, and whenever   *)
(* cfgd_active is set, but for the thread that set it late (Property       *)
(* WatchedByOne of Heartbeat).                                             *)
THEOREM WatchedCorrect == Spec => []WatchedByOne
<1>1. Watched => WatchedByOne
  BY DEF Watched, WatchedByOne, OneHeartbeat, OneInCharge, Beating, InCharge
<1> QED  BY <1>1, InitWatched, NextWatched, PTL DEF Spec

-----------------------------------------------------------------------------
(* No handler is deleted too early. *)

(* A thread that a step does not touch. *)
LEMMA OtherSafe ==
    ASSUME NEW j \in Thread, Safe(j), Excused => Excused',
           hb'[j].pc = hb[j].pc, hb'[j].next = hb[j].next,
           str'[j] = str[j], due'[j] => due[j]
    PROVE  Safe(j)'
BY DEF Safe

LEMMA InitSafe == Init => \A k \in Thread : Safe(k)
BY DEF Init, Safe, InUse

(* A thread whose stream is given up. *)
LEMMA GivenUpSafe ==
    ASSUME NEW k \in Thread, Safe(k), Excused => Excused',
           str[k] # "none", hb'[k].pc = hb[k].pc,
           \/ str'[k] = "none"
           \/ str'[k] = "stray" /\ Excused',
           due'[k] => Excused'
    PROVE  Safe(k)'
BY DEF Safe, InUse

(* The streams ks are timed out. *)
LEMMA ExpireSafe ==
    ASSUME TypeOK, \A k \in Thread : Safe(k), NEW ks \in SUBSET Thread,
           ks \subseteq Expirable(ks), Expire(ks), UNCHANGED <<term, due>>
    PROVE  \A k \in Thread : Safe(k)'
<1>1. mishap \subseteq mishap' /\ (Excused => Excused')
  BY DEF Expire, Overtaken, Excused
<1>2. \A k \in ks : due[k] => Excused'
  BY DEF Expire, Overtaken, Excused
<1>3. /\ \A k \in Thread : hb'[k].pc = hb[k].pc
      /\ \A k \in Thread \ ks : hb'[k] = hb[k]
  <2>1. Miss({k \in ks : str[k] # "bare"})
    BY DEF Expire
  <2> QED  BY <2>1, MissIs
<1>4. ASSUME NEW k \in Thread \ ks PROVE Safe(k)'
  <2>1. str'[k] = str[k]
    BY DEF Expire
  <2> QED  BY <1>1, <1>3, <2>1, OtherSafe
<1>5. ASSUME NEW k \in ks PROVE Safe(k)'
  <2>1. \/ str[k] \in {"bare", "armed", "waiting"}
        \/ str[k] = "queued" /\ term
    BY DEF Expirable
  <2>2. \/ str'[k] = "none"
        \/ str'[k] = "stray" /\ Excused'
    BY <2>1 DEF Expire, Excused
  <2> QED  BY <1>1, <1>2, <1>3, <2>1, <2>2, GivenUpSafe
<1> QED  BY <1>4, <1>5

LEMMA NextSafe ==
    TypeOK /\ (\A k \in Thread : Safe(k)) /\ [Next]_vars => \A k \in Thread : Safe(k)'
<1> SUFFICES ASSUME TypeOK, \A k \in Thread : Safe(k), [Next]_vars
             PROVE  \A k \in Thread : Safe(k)'
  OBVIOUS
<1>1. Excused => Excused'
  BY DEF Next, ThreadStep, InOut, Connect, Mark, NoThread, GiveUp, Make, Arm, Send,
         Leave, Cleanup, OutSend, OutDone, Reply, Refused, Timeout, Expire, Overtaken,
         Down, Up, Terminate, vars, Excused
<1>2. ASSUME NEW k \in Thread, Safe(k)',
             \A j \in Thread \ {k} : hb'[j] = hb[j] /\ str'[j] = str[j] /\ due'[j] = due[j]
      PROVE  \A j \in Thread : Safe(j)'
  BY <1>1, <1>2, OtherSafe
<1>3. ASSUME UNCHANGED <<hb, str, due>> PROVE \A j \in Thread : Safe(j)'
  BY <1>1, <1>3, OtherSafe
<1>4. ASSUME NEW k \in Thread, NEW c \in Client, Connect(k, c)
      PROVE  \A i \in Thread : Safe(i)'
  <2>1. PICK j \in Thread \ {k} :
          /\ hb[j].pc = "none" /\ hb[k].pc = "config"
          /\ hb'[j] = [pc |-> "loop", client |-> c, active |-> TRUE, next |-> TRUE]
          /\ hb'[k].pc = "mark" /\ hb'[k].next = hb[k].next
          /\ \A i \in Thread \ {j, k} : hb'[i] = hb[i]
    BY <1>4, ConnectIs
  <2>2. str' = str /\ due' = due
    BY <1>4 DEF Connect
  <2>3. Safe(j)' /\ Safe(k)'
    BY <1>1, <2>1, <2>2 DEF Safe, InUse
  <2>4. \A i \in Thread \ {j, k} : Safe(i)'
    BY <1>1, <2>1, <2>2, OtherSafe
  <2> QED  BY <2>3, <2>4
<1>5. ASSUME NEW k \in Thread, Mark(k) \/ NoThread(k) \/ GiveUp(k)
      PROVE  \A j \in Thread : Safe(j)'
  <2>1. Goto(k, "gone") /\ hb[k].pc \in {"config", "mark"} /\ UNCHANGED <<str, due>>
    BY <1>5 DEF Mark, NoThread, GiveUp
  <2>2. /\ hb'[k].pc = "gone" /\ hb'[k].next = hb[k].next
        /\ \A j \in Thread \ {k} : hb'[j] = hb[j]
    BY <2>1, GotoIs
  <2>3. Safe(k)'
    BY <1>1, <2>1, <2>2 DEF Safe, InUse
  <2> QED  BY <1>2, <2>1, <2>2, <2>3
<1>6. ASSUME NEW k \in Thread, Make(k) PROVE \A j \in Thread : Safe(j)'
  <2>1. /\ hb'[k].pc = "made" /\ \A j \in Thread \ {k} : hb'[j] = hb[j]
    BY <1>6, GotoIs DEF Make
  <2>2. /\ hb[k].next /\ str'[k] = "bare" /\ due' = due
        /\ \A j \in Thread \ {k} : str'[j] = str[j]
    BY <1>6 DEF Make, TypeOK
  <2>3. Safe(k)'
    BY <1>1, <2>1, <2>2 DEF Safe, InUse
  <2> QED  BY <1>2, <2>1, <2>2, <2>3
<1>7. ASSUME NEW k \in Thread, Arm(k) PROVE \A j \in Thread : Safe(j)'
  <2>1. /\ hb' = [hb EXCEPT ![k].pc = "armed", ![k].next = FALSE] /\ due' = due
        /\ \/ str[k] = "bare" /\ str' = [str EXCEPT ![k] = "armed"]
           \/ str[k] # "bare" /\ str' = str
    BY <1>7 DEF Arm
  <2>2. /\ hb'[k].pc = "armed" /\ ~hb'[k].next
        /\ \A j \in Thread \ {k} : hb'[j] = hb[j]
    BY <2>1 DEF TypeOK, HeartbeatInfo
  <2>3. /\ \A j \in Thread \ {k} : str'[j] = str[j]
        /\ \/ str'[k] = str[k]
           \/ str[k] = "bare" /\ str'[k] = "armed"
    BY <2>1 DEF TypeOK
  <2>4. Safe(k)'
    BY <1>1, <2>1, <2>2, <2>3 DEF Safe, InUse
  <2> QED  BY <1>2, <2>1, <2>2, <2>3, <2>4
<1>8. ASSUME NEW k \in Thread, Send(k) PROVE \A j \in Thread : Safe(j)'
  <2>1. /\ hb'[k].pc = "loop" /\ hb'[k].next = hb[k].next
        /\ \A j \in Thread \ {k} : hb'[j] = hb[j]
    BY <1>8, GotoIs DEF Send
  <2>2. /\ due' = due /\ \A j \in Thread \ {k} : str'[j] = str[j]
        /\ \/ str[k] = "armed" /\ str'[k] = "queued"
           \/ str'[k] = "stray" /\ "stray" \in mishap'
    BY <1>8 DEF Send, TypeOK
  <2>3. Safe(k)'
    BY <1>1, <2>1, <2>2 DEF Safe, InUse, Excused
  <2> QED  BY <1>2, <2>1, <2>2, <2>3
<1>9. ASSUME NEW k \in Thread, Leave(k) \/ Cleanup(k) PROVE \A j \in Thread : Safe(j)'
  <2>1. PICK pc \in {"drain", "config"} :
          Goto(k, pc) /\ (pc = "config" => hb[k].next)
    BY <1>9 DEF Leave, Cleanup
  <2>2. /\ hb'[k].pc = pc /\ hb'[k].next = hb[k].next
        /\ \A j \in Thread \ {k} : hb'[j] = hb[j]
    BY <2>1, GotoIs
  <2>3. UNCHANGED <<str, due>>
    BY <1>9 DEF Leave, Cleanup
  <2>4. Safe(k)'
    BY <1>1, <2>1, <2>2, <2>3 DEF Safe
  <2> QED  BY <1>2, <2>2, <2>3, <2>4
<1>10. ASSUME NEW k \in Thread, OutSend(k) \/ OutDone(k)
       PROVE  \A j \in Thread : Safe(j)'
  <2>1. /\ hb' = hb /\ \A j \in Thread \ {k} : str'[j] = str[j] /\ due'[j] = due[j]
    BY <1>10 DEF OutSend, OutDone, TypeOK
  <2>2. \/ str[k] = "queued" /\ str'[k] = "waiting"
        \/ str[k] = "stray" /\ str'[k] = "none"
        \/ str'[k] = str[k] /\ ~due'[k]
    BY <1>10 DEF OutSend, OutDone, TypeOK
  <2>3. Safe(k)'
    BY <1>1, <2>1, <2>2 DEF Safe, InUse
  <2> QED  BY <1>2, <2>1, <2>3
<1>11. ASSUME NEW k \in Thread, Reply(k) \/ Refused(k)
       PROVE  \A j \in Thread : Safe(j)'
  <2>1. hb'[k].pc = hb[k].pc /\ \A j \in Thread \ {k} : hb'[j] = hb[j]
    <3>1. CASE Reply(k)
      BY <3>1 DEF Reply, TypeOK, HeartbeatInfo
    <3>2. CASE Refused(k)
      BY <3>2, MissIs DEF Refused
    <3> QED  BY <1>11, <3>1, <3>2
  <2>2. /\ str[k] = "waiting" /\ str'[k] = "none" /\ due' = due
        /\ \A j \in Thread \ {k} : str'[j] = str[j]
        /\ due[k] => Excused'
    BY <1>11 DEF Reply, Refused, Overtaken, TypeOK, Excused
  <2>3. Safe(k)'
    BY <1>1, <2>1, <2>2, GivenUpSafe
  <2> QED  BY <1>2, <2>1, <2>2, <2>3
<1>12. ASSUME NEW k \in Thread, Timeout(k) PROVE \A j \in Thread : Safe(j)'
  BY <1>12, ExpireSafe DEF Timeout, Expirable
<1>13. ASSUME NEW c \in Client, Down(c) PROVE \A j \in Thread : Safe(j)'
  BY <1>13, ExpireSafe DEF Down, Expirable
<1>14. ASSUME NEW c \in Client, Up(c) PROVE \A j \in Thread : Safe(j)'
  BY <1>3, <1>14 DEF Up
<1>15. CASE Terminate \/ UNCHANGED vars
  BY <1>3, <1>15 DEF Terminate, vars
<1> QED  BY <1>4, <1>5, <1>6, <1>7, <1>8, <1>9, <1>10, <1>11, <1>12, <1>13, <1>14,
            <1>15 DEF Next, ThreadStep, InOut

(* The handlers of a stream are there for as long as the stream may call   *)
(* them, but for an answer that overtakes the OUT thread (Property         *)
(* NoUseAfterFree of Heartbeat).                                           *)
THEOREM HandlersCorrect == Spec => []NoUseAfterFree
<1> DEFINE IInv == Watched /\ \A k \in Thread : Safe(k)
<1>1. Init => IInv
  BY InitWatched, InitSafe
<1>2. IInv /\ [Next]_vars => IInv'
  BY NextWatched, NextSafe DEF Watched
<1>3. IInv => NoUseAfterFree
  BY DEF Safe, InUse, NoUseAfterFree, Excused
<1> QED  BY <1>1, <1>2, <1>3, PTL DEF Spec
=============================================================================
