------------------------ MODULE ClientSessionProofs ------------------------
(***************************************************************************)
(* What ClientSession guarantees for every number of requests, covers and  *)
(* packets under way, every set of weights and every split policy, in both *)
(* builds.                                                                 *)
(***************************************************************************)
EXTENDS ClientSession, TLAPS

USE SessionAssumption

-----------------------------------------------------------------------------
(* The inductive invariant                                                 *)

SettingUp == pc \in {"setup", "setup_wait"}

\* The legs in use, and the state of the split policy.
StripeType ==
  /\ build \in Builds /\ legs \in 1 .. N_LEGS
  /\ legs = (IF build = "loopix" THEN 1 ELSE N_LEGS)
  /\ policy \in Policies /\ rr_next \in Used
  /\ credit \in [Legs -> Int] /\ recent \in [Legs -> 0 .. STRIPE_RECENT_MAX]

\* The two threads; the cover thread starts after SETUP.
ThreadType ==
  /\ counter \in [Legs -> Nat] /\ cover_ctr \in Nat /\ ret_ctr \in Nat
  /\ mailbox \in Packet \cup {Nothing} /\ resp \in Packet \cup {Nothing}
  /\ pc \in {"setup", "setup_wait", "idle", "wait", "exited"} /\ setup_leg \in Used
  /\ attempt \in {0, 1} /\ header \in Nat \cup {Nothing} /\ streaming \in BOOLEAN
  /\ tick \in {"off", "sleep", "restore"} /\ sends \in 0 .. MaxSends /\ covers \in Nat
  /\ SettingUp => tick = "off" /\ mailbox = Nothing

\* What is outside of the program, and the history.
NetType ==
  /\ forward \subseteq Packet /\ back \subseteq Packet
  /\ ret_seen \subseteq Nat /\ bound \subseteq Legs
  /\ early \in BOOLEAN

TypeInv == StripeType /\ ThreadType /\ NetType

\* Covers are given up for credits only, and credits given for requests only;
\* the one taken too many is about to be restored.
CreditInv ==
  /\ CreditsKept
  /\ pending \in Int /\ credited \in Nat /\ suppressed \in Nat /\ credited <= sends
  /\ (build = "base" => mailbox = Nothing) /\ (build = "loopix" => tick # "restore")
  /\ IF tick = "restore" THEN pending >= -1 ELSE pending >= 0

\* What the legs owe each other adds up to nothing.
Owed(l) == IF l \in Legs THEN credit[l] ELSE 0

ShareInv ==
  /\ Owed(0) + Owed(1) + Owed(2) = 0
  /\ \A l \in Legs : -TotalWeight < credit[l] /\ credit[l] < TotalWeight

\* Every packet carries a return header that has been drawn.
HeaderInv ==
  /\ \A p \in forward \cup back : p.ret < ret_ctr
  /\ mailbox # Nothing => mailbox.ret < ret_ctr
  /\ resp # Nothing => resp.ret < ret_ctr

\* The answer to either attempt of a leg ends its SETUP; the answer to the
\* other finds the return header used.
SetupInv ==
  /\ SettingUp =>
       /\ \A p \in forward \cup back :
            /\ p.leg <= setup_leg
            /\ IF p.leg = setup_leg THEN p.ret = header ELSE p.ret \in ret_seen
            /\ attempt = 0 /\ pc = "setup" => p.leg < setup_leg
       /\ attempt = 0 /\ pc = "setup" => resp = Nothing
       /\ attempt = 1 \/ pc = "setup_wait" => header \in Nat /\ header < ret_ctr
       /\ resp # Nothing => resp.leg = setup_leg /\ header \in ret_seen
  /\ \A p \in back : p.leg \in bound
  /\ resp # Nothing => resp.leg \in bound
  /\ SetUpLegsAreBound

\* While the main thread waits for the answer to a packet that is still in the
\* mailbox, nothing else carries its header.
QueueInv ==
  mailbox # Nothing =>
    IF pc = "wait"
      THEN /\ header \in Nat
           /\ \A p \in forward \cup back : p.ret # header
           /\ resp # Nothing => resp.ret # header
      ELSE streaming \/ early \/ tick = "off"

ClientInv == TypeInv /\ CreditInv /\ ShareInv /\ HeaderInv /\ SetupInv /\ QueueInv
(* Types                                                                   *)

LEMMA LegNumbers == Legs \subseteq Nat /\ 0 \in Legs
  BY DEF Legs, MAX_STRIPE_LEGS

LEMMA TotalIsNat == TotalWeight \in Nat /\ TotalWeight > 0
  BY DEF TotalWeight, Legs, MAX_STRIPE_LEGS

LEMMA UsedAreLegs == ASSUME StripeType PROVE Used \subseteq Legs /\ 0 \in Used
  BY DEF StripeType, Used, Legs, MAX_STRIPE_LEGS

\* Choosing a leg.
LEMMA StripeStep ==
  ASSUME StripeType, NEW l \in Legs, stripe_pick_leg(l), UNCHANGED <<build, legs>>
  PROVE  StripeType' /\ l \in Used
<1>1. l \in Used /\ policy' = policy
  BY DEF stripe_pick_leg, stripeVars
<1>2. rr_next' \in Used
  <2>1. CASE rr_next' = rr_next
    BY <2>1 DEF StripeType
  <2>2. CASE rr_next' = (l + 1) % legs
    BY <1>1, <2>2 DEF StripeType, Used, MAX_STRIPE_LEGS
  <2> QED BY <2>1, <2>2 DEF stripe_pick_leg, stripeVars, WeightedRoundRobin, LatencyBound
<1>3. credit' \in [Legs -> Int]
  <2>1. CASE credit' = credit
    BY <2>1 DEF StripeType
  <2>2. CASE WeightedRoundRobin(l)
    <3> DEFINE grown == [i \in Legs |-> credit[i] + Weights[i]]
    <3>1. grown \in [Legs -> Int] /\ TotalWeight \in Int
      BY TotalIsNat DEF StripeType
    <3>2. credit' = [grown EXCEPT ![l] = @ - TotalWeight]
      BY <2>2 DEF WeightedRoundRobin
    <3> HIDE DEF grown
    <3> QED BY <3>1, <3>2
  <2> QED BY <2>1, <2>2 DEF stripe_pick_leg, stripeVars
<1>4. recent' \in [Legs -> 0 .. STRIPE_RECENT_MAX]
  <2>1. CASE recent' = recent
    BY <2>1 DEF StripeType
  <2>2. CASE LatencyBound(l)
    <3>1. PICK kept \in Younger :
            recent' = [kept EXCEPT ![l] = IF @ = STRIPE_RECENT_MAX THEN @ ELSE @ + 1]
      BY <2>2 DEF LatencyBound
    <3>2. kept \in [Legs -> 0 .. STRIPE_RECENT_MAX]
      BY DEF Younger
    <3>3. kept[l] \in 0 .. STRIPE_RECENT_MAX /\ STRIPE_RECENT_MAX \in Nat
      BY <3>2
    <3>4. (IF kept[l] = STRIPE_RECENT_MAX THEN kept[l] ELSE kept[l] + 1) \in 0 .. STRIPE_RECENT_MAX
      BY <3>3
    <3> QED BY <3>1, <3>2, <3>4
  <2> QED BY <2>1, <2>2 DEF stripe_pick_leg, stripeVars
<1> QED BY <1>1, <1>2, <1>3, <1>4 DEF StripeType, Used

LEMMA StripeTypeStep ==
  ASSUME StripeType, Next
  PROVE  StripeType'
<1>1. CASE UNCHANGED <<build, legs, stripeVars>>
  BY <1>1 DEF StripeType, stripeVars, Used
<1>2. CASE \E l \in Legs, wait \in BOOLEAN : send_app_request(l, wait)
  BY <1>2, StripeStep DEF send_app_request
<1> QED BY <1>1, <1>2 DEF Next, send_setup_leg, SetupAcknowledged, SetupTimeout, wait_response,
           WaitTimeout, TakeCredit, BaseTick, LoopixTick, Arrive, Return

LEMMA CounterDrawn ==
  ASSUME counter \in [Legs -> Nat], NEW l \in Legs
  PROVE  /\ stripe_next_counter(l) \in Nat
         /\ [counter EXCEPT ![l] = stripe_next_counter(l) + 1] \in [Legs -> Nat]
  BY DEF stripe_next_counter

LEMMA PacketFields ==
  ASSUME NEW p \in Packet
  PROVE  p.leg \in Legs /\ p.ret \in Nat
  BY DEF Packet

\* The packets the program makes.
LEMMA MadePackets ==
  ASSUME TypeInv
  PROVE  /\ setup_leg \in Legs
         /\ pc = "setup" /\ (attempt = 1 => header \in Nat) =>
              SetupHeader \in Nat
              /\ [kind |-> "SETUP", leg |-> setup_leg, ctr |-> stripe_next_counter(setup_leg),
                  ret |-> SetupHeader] \in Packet
         /\ \A l \in Legs :
              [kind |-> "REQUEST", leg |-> l, ctr |-> stripe_next_counter(l), ret |-> ret_ctr]
                \in Packet
         /\ [kind |-> "COVER", leg |-> 0, ctr |-> cover_ctr, ret |-> build_spare_return_header]
              \in Packet
<1>1. setup_leg \in Legs
  BY UsedAreLegs DEF TypeInv, ThreadType
<1>2. \A l \in Legs : stripe_next_counter(l) \in Nat
  BY DEF TypeInv, ThreadType, stripe_next_counter
<1>3. attempt \in {0, 1} /\ ret_ctr \in Nat /\ cover_ctr \in Nat
  BY DEF TypeInv, ThreadType
<1>4. (attempt = 1 => header \in Nat) => SetupHeader \in Nat
  BY <1>3 DEF SetupHeader
<1> QED BY <1>1, <1>2, <1>3, <1>4, LegNumbers DEF Packet, build_spare_return_header

LEMMA ThreadTypeStep ==
  ASSUME TypeInv, CreditInv, SetupInv, Next
  PROVE  ThreadType'
<1> USE DEF TypeInv
<1>0. Used' = Used
  BY DEF Next, send_setup_leg, SetupAcknowledged, SetupTimeout, send_app_request, wait_response,
         WaitTimeout, TakeCredit, BaseTick, LoopixTick, Arrive, Return, Used
<1>1. CASE send_setup_leg
  <2>1. setup_leg \in Legs /\ header' \in Nat
    BY <1>1, MadePackets DEF send_setup_leg, SetupInv, SettingUp
  <2>2. counter' \in [Legs -> Nat] /\ ret_ctr' \in Nat
    BY <1>1, <2>1, CounterDrawn DEF send_setup_leg, ThreadType
  <2>3. pc' \in {"setup_wait", "exited"}
    BY <1>1 DEF send_setup_leg
  <2> QED BY <1>0, <1>1, <2>1, <2>2, <2>3 DEF send_setup_leg, ThreadType, SettingUp
<1>2. CASE SetupAcknowledged
  <2>1. setup_leg' \in Used /\ tick' \in {"sleep", "off"}
        /\ (pc' \in {"setup", "setup_wait"} => tick' = "off") /\ pc' \in {"setup", "idle"}
    BY <1>2 DEF SetupAcknowledged, ThreadType, SettingUp, Used, StripeType, MAX_STRIPE_LEGS
  <2> QED BY <1>0, <1>2, <2>1 DEF SetupAcknowledged, ThreadType, SettingUp, ctrVars
<1>3. CASE SetupTimeout
  BY <1>0, <1>3 DEF SetupTimeout, ThreadType, SettingUp, ctrVars
<1>4. ASSUME NEW l \in Legs, NEW wait \in BOOLEAN, send_app_request(l, wait)
      PROVE  ThreadType'
  <2>1. pc = "idle" /\ pc' \in {"idle", "wait"}
    BY <1>4 DEF send_app_request, Queue, SendDirectly
  <2>2. mailbox' \in Packet \cup {Nothing}
    BY <1>4, MadePackets DEF send_app_request, Queue, SendDirectly, ThreadType
  <2>3. counter' \in [Legs -> Nat] /\ ret_ctr' \in Nat /\ header' \in Nat
    BY <1>4, CounterDrawn DEF send_app_request, ThreadType
  <2>4. streaming' \in BOOLEAN
    BY <1>4, Zenon DEF send_app_request
  <2>5. sends' \in 0 .. MaxSends
    BY <1>4 DEF send_app_request, ThreadType
  <2> QED BY <1>0, <1>4, <2>1, <2>2, <2>3, <2>4, <2>5 DEF send_app_request, ThreadType, SettingUp
<1>5. CASE wait_response \/ WaitTimeout
  BY <1>0, <1>5 DEF wait_response, WaitTimeout, ThreadType, SettingUp, ctrVars
<1>6. CASE TakeCredit
  <2>1. covers' \in Nat /\ tick' \in {"sleep", "restore"} /\ tick = "sleep"
    BY <1>6 DEF TakeCredit, ThreadType
  <2> QED BY <1>0, <1>6, <2>1 DEF TakeCredit, ThreadType, SettingUp, ctrVars, mainVars
<1>7. CASE BaseTick
  BY <1>0, <1>7 DEF BaseTick, SendCover, ThreadType, SettingUp, mainVars
<1>8. CASE LoopixTick
  BY <1>0, <1>8 DEF LoopixTick, SendCover, ThreadType, SettingUp, mainVars
<1>9. ASSUME NEW p \in forward, Arrive(p)
      PROVE  ThreadType'
  BY <1>0, <1>9 DEF Arrive, ThreadType, SettingUp, mainVars, ctrVars
<1>10. ASSUME NEW a \in back, Return(a)
       PROVE  ThreadType'
  <2>1. resp' \in Packet \cup {Nothing}
    BY <1>10 DEF Return, ThreadType, NetType
  <2> QED BY <1>0, <1>10, <2>1 DEF Return, ThreadType, SettingUp, mainVars, ctrVars
<1> QED BY <1>1, <1>2, <1>3, <1>4, <1>5, <1>6, <1>7, <1>8, <1>9, <1>10 DEF Next
-----------------------------------------------------------------------------
(* Outside                                                                 *)

LEMMA SentOrLost ==
  ASSUME NEW p, Send(p)
  PROVE  \A q \in forward' : q \in forward \/ q = p
  BY DEF Send

LEMMA NetTypeStep ==
  ASSUME TypeInv, SetupInv, Next
  PROVE  NetType'
<1>1. CASE send_setup_leg
  <2>1. PICK p \in Packet : Send(p)
    BY <1>1, MadePackets DEF send_setup_leg, SetupInv, SettingUp
  <2>2. forward' \subseteq Packet
    BY <2>1, SentOrLost DEF TypeInv, NetType
  <2> QED BY <1>1, <2>2 DEF send_setup_leg, histVars, TypeInv, NetType
<1>2. CASE SetupAcknowledged \/ SetupTimeout
  BY <1>2 DEF SetupAcknowledged, SetupTimeout, TypeInv, NetType, netVars, histVars
<1>3. ASSUME NEW l \in Legs, NEW wait \in BOOLEAN, send_app_request(l, wait)
      PROVE  NetType'
  <2>1. PICK p \in Packet : Send(p) \/ forward' = forward
    BY <1>3, MadePackets DEF send_app_request, SendDirectly, Queue
  <2>2. forward' \subseteq Packet
    BY <2>1, SentOrLost DEF TypeInv, NetType
  <2> QED BY <1>3, <2>2 DEF send_app_request, TypeInv, NetType
<1>4. CASE wait_response \/ WaitTimeout
  <2>1. early' \in BOOLEAN
    BY <1>4, Zenon DEF wait_response, WaitTimeout
  <2> QED BY <1>4, <2>1 DEF wait_response, WaitTimeout, TypeInv, NetType, netVars
<1>5. CASE TakeCredit
  BY <1>5 DEF TakeCredit, TypeInv, NetType, netVars
<1>6. CASE BaseTick \/ LoopixTick
  <2>1. PICK p \in Packet : Send(p)
    BY <1>6, MadePackets DEF BaseTick, LoopixTick, SendCover, TypeInv, ThreadType
  <2>2. forward' \subseteq Packet
    BY <2>1, SentOrLost DEF TypeInv, NetType
  <2> QED BY <1>6, <2>2 DEF BaseTick, LoopixTick, histVars, TypeInv, NetType
<1>7. ASSUME NEW p \in forward, Arrive(p)
      PROVE  NetType'
  <2>1. p \in Packet /\ p.leg \in Legs
    BY PacketFields DEF TypeInv, NetType
  <2>2. bound' \subseteq Legs /\ back' \subseteq Packet /\ forward' \subseteq Packet
    BY <1>7, <2>1 DEF Arrive, TypeInv, NetType
  <2> QED BY <1>7, <2>2 DEF Arrive, histVars, TypeInv, NetType
<1>8. ASSUME NEW a \in back, Return(a)
      PROVE  NetType'
  <2>1. a.ret \in Nat
    BY PacketFields DEF TypeInv, NetType
  <2>2. ret_seen' \subseteq Nat /\ back' \subseteq Packet
    BY <1>8, <2>1 DEF Return, TypeInv, NetType
  <2> QED BY <1>8, <2>2 DEF Return, histVars, TypeInv, NetType
<1> QED BY <1>1, <1>2, <1>3, <1>4, <1>5, <1>6, <1>7, <1>8 DEF Next
-----------------------------------------------------------------------------
(* Credits and shares                                                      *)

LEMMA CreditStep ==
  ASSUME TypeInv, CreditInv, Next
  PROVE  CreditInv'
<1>0. build' = build /\ build \in {"base", "loopix"} /\ sends \in Nat
  <2>1. build' = build
    BY DEF Next, send_setup_leg, SetupAcknowledged, SetupTimeout, send_app_request, wait_response,
           WaitTimeout, TakeCredit, BaseTick, LoopixTick, Arrive, Return
  <2> QED BY <2>1 DEF TypeInv, StripeType, ThreadType
<1>1. CASE UNCHANGED <<pending, credited, suppressed, sends, tick, mailbox>>
  BY <1>0, <1>1 DEF CreditInv, CreditsKept
<1>2. CASE SetupAcknowledged
  <2>1. tick = "off" /\ tick' \in {"off", "sleep"}
    BY <1>2 DEF SetupAcknowledged, TypeInv, ThreadType, SettingUp
  <2> QED BY <1>0, <1>2, <2>1 DEF SetupAcknowledged, mainVars, histVars, CreditInv, CreditsKept
<1>3. ASSUME NEW l \in Legs, NEW wait \in BOOLEAN, send_app_request(l, wait)
      PROVE  CreditInv'
  <2>1. CASE build = "loopix"
    BY <1>0, <1>3, <2>1 DEF send_app_request, Queue, CreditInv, CreditsKept
  <2>2. CASE build = "base"
    BY <1>0, <1>3, <2>2 DEF send_app_request, SendDirectly, CreditInv, CreditsKept
  <2> QED BY <1>0, <2>1, <2>2
<1>4. CASE TakeCredit
  BY <1>0, <1>4 DEF TakeCredit, mainVars, CreditInv, CreditsKept
<1>5. CASE BaseTick
  BY <1>0, <1>5 DEF BaseTick, RestoreCredit, mainVars, histVars, CreditInv, CreditsKept
<1>6. CASE LoopixTick
  BY <1>0, <1>6 DEF LoopixTick, mainVars, histVars, CreditInv, CreditsKept
<1> QED BY <1>1, <1>2, <1>3, <1>4, <1>5, <1>6 DEF Next, send_setup_leg, SetupTimeout, wait_response,
           WaitTimeout, Arrive, Return, mainVars, histVars

LEMMA ThreeLegs == Legs \subseteq {0, 1, 2} /\ \A l \in Legs : Weights[l] \in Nat
  BY DEF Legs, MAX_STRIPE_LEGS

\* What the legs owe each other stays below a round, and adds up to nothing.
LEMMA ShareStep ==
  ASSUME TypeInv, ShareInv, Next
  PROVE  ShareInv'
<1>1. CASE credit' = credit
  BY <1>1 DEF ShareInv, Owed
<1>2. ASSUME NEW l \in Legs, WeightedRoundRobin(l), Used = Legs
      PROVE  ShareInv'
  <2> DEFINE grown == [i \in Legs |-> credit[i] + Weights[i]]
             Share(i) == IF i \in Legs THEN Weights[i] ELSE 0
             G(i) == IF i \in Legs THEN grown[i] ELSE 0
             T == TotalWeight
  <2>1. /\ credit \in [Legs -> Int] /\ grown \in [Legs -> Int]
        /\ T \in Nat /\ T > 0 /\ T = Share(0) + Share(1) + Share(2)
    BY ThreeLegs, TotalIsNat DEF TypeInv, StripeType, TotalWeight
  <2>2. \A i \in {0, 1, 2} : G(i) = Owed(i) + Share(i) /\ G(i) \in Int /\ Owed(i) \in Int
                             /\ Share(i) \in Nat
    BY <2>1, ThreeLegs DEF Owed
  <2>3. /\ \A i \in Legs : G(i) <= G(l) /\ G(i) = grown[i]
        /\ credit' = [grown EXCEPT ![l] = @ - T]
    BY <1>2, <2>1 DEF WeightedRoundRobin
  <2>4. \A i \in Legs : credit'[i] = IF i = l THEN G(l) - T ELSE G(i)
    BY <2>1, <2>3
  <2>5. Owed(0) + Owed(1) + Owed(2) = 0 /\ \A i \in {0, 1, 2} : -T < Owed(i) /\ Owed(i) < T
    BY <2>1, ThreeLegs DEF ShareInv, Owed
  <2>6. \A i \in {0, 1, 2} \ Legs : G(i) = 0 /\ Owed(i) = 0 /\ Share(i) = 0
    BY DEF Owed
  <2>7. \A i \in {0, 1, 2} : Owed(i)' = IF i = l THEN G(i) - T ELSE G(i)
    BY <2>4, <2>6 DEF Owed
  <2>8. l \in {0, 1, 2} /\ Legs \subseteq {0, 1, 2} /\ 0 \in Legs
    BY ThreeLegs, LegNumbers
  <2> HIDE DEF grown, Share, G, T
  <2>9. G(0) + G(1) + G(2) = T
    BY <2>1, <2>2, <2>5
  <2>10. Owed(0)' + Owed(1)' + Owed(2)' = 0
    BY <2>1, <2>2, <2>7, <2>8, <2>9
  <2>11. G(l) > 0
    <3>1. \A i \in {0, 1, 2} : G(i) <= G(l) \/ G(i) = 0
      BY <2>3, <2>6
    <3> QED BY <2>1, <2>2, <2>8, <2>9, <3>1
  <2>12. \A i \in {0, 1, 2} : -T < G(i)
    BY <2>1, <2>2, <2>5
  <2>13. ASSUME NEW i \in Legs
         PROVE  -T < credit'[i] /\ credit'[i] < T
    <3>1. G(i) <= G(l)
      BY <2>3
    <3>2. CASE i = l
      <4>1. G(l) < 2 * T
        BY <2>1, <2>2, <2>5, <2>8
      <4> QED BY <2>1, <2>2, <2>4, <2>8, <2>11, <3>2, <4>1
    <3>3. CASE i # l
      <4>1. G(i) + G(l) < 2 * T
        BY <2>1, <2>2, <2>8, <2>9, <2>12, <3>3
      <4>2. G(i) < T
        BY <2>1, <2>2, <2>8, <3>1, <4>1
      <4> QED BY <2>4, <2>8, <2>12, <3>3, <4>2
    <3> QED BY <3>2, <3>3
  <2> QED BY <2>10, <2>13 DEF ShareInv, T
<1>3. ASSUME NEW l \in Legs, stripe_pick_leg(l), credit' # credit
      PROVE  WeightedRoundRobin(l) /\ Used = Legs
  <2>1. legs # 1 /\ WeightedRoundRobin(l)
    BY <1>3 DEF stripe_pick_leg, stripeVars
  <2>2. legs = N_LEGS
    BY <2>1 DEF TypeInv, StripeType
  <2> QED BY <2>1, <2>2 DEF Used, Legs
<1> QED BY <1>1, <1>2, <1>3 DEF Next, send_setup_leg, SetupAcknowledged, SetupTimeout, send_app_request,
           wait_response, WaitTimeout, TakeCredit, BaseTick, LoopixTick, Arrive, Return, stripeVars
-----------------------------------------------------------------------------
(* Return headers                                                          *)

\* What the actions that make a packet have in common.
LEMMA SetupPacket ==
  ASSUME TypeInv, SetupInv, send_setup_leg
  PROVE  \E p \in Packet :
           /\ Send(p) /\ p.leg = setup_leg /\ p.ret = header'
           /\ header' \in Nat /\ ret_ctr' \in {ret_ctr, ret_ctr + 1} /\ header' < ret_ctr'
           /\ IF attempt = 0 THEN ret_ctr' = ret_ctr + 1 /\ header' = ret_ctr
              ELSE UNCHANGED ret_ctr /\ header' = header
<1> DEFINE p == [kind |-> "SETUP", leg |-> setup_leg, ctr |-> stripe_next_counter(setup_leg),
                 ret |-> SetupHeader]
<1>1. /\ setup_leg \in Legs /\ attempt \in {0, 1} /\ pc = "setup" /\ ret_ctr \in Nat
      /\ attempt = 1 => header \in Nat /\ header < ret_ctr
  BY MadePackets DEF send_setup_leg, SetupInv, SettingUp, TypeInv, ThreadType
<1>2. SetupHeader \in Nat /\ p \in Packet
  BY <1>1, MadePackets
<1>3. header' = SetupHeader
  BY DEF send_setup_leg
<1>4. IF attempt = 0 THEN ret_ctr' = ret_ctr + 1 /\ header' = ret_ctr
      ELSE UNCHANGED ret_ctr /\ header' = header
  BY <1>1, <1>3 DEF send_setup_leg, SetupHeader
<1>5. ret_ctr' \in {ret_ctr, ret_ctr + 1} /\ header' < ret_ctr'
  BY <1>1, <1>4
<1>6. Send(p) /\ p.leg = setup_leg /\ p.ret = header'
  BY <1>3 DEF send_setup_leg
<1> HIDE DEF p
<1> QED BY <1>2, <1>3, <1>4, <1>5, <1>6

LEMMA RequestPacket ==
  ASSUME TypeInv, NEW l \in Legs, NEW wait \in BOOLEAN, send_app_request(l, wait)
  PROVE  \E p \in Packet :
           /\ p.ret = ret_ctr /\ ret_ctr' = ret_ctr + 1 /\ header' = ret_ctr
           /\ IF build = "loopix" THEN Queue(p, wait) ELSE SendDirectly(p, wait)
<1> DEFINE p == [kind |-> "REQUEST", leg |-> l, ctr |-> stripe_next_counter(l), ret |-> ret_ctr]
<1>1. p \in Packet
  BY MadePackets
<1>2. /\ p.ret = ret_ctr /\ ret_ctr' = ret_ctr + 1 /\ header' = ret_ctr
      /\ IF build = "loopix" THEN Queue(p, wait) ELSE SendDirectly(p, wait)
  BY DEF send_app_request
<1> HIDE DEF p
<1> QED BY <1>1, <1>2

LEMMA CoverPacket ==
  ASSUME TypeInv, SendCover
  PROVE  \E p \in Packet : Send(p) /\ p.ret = ret_ctr /\ ret_ctr' = ret_ctr + 1
<1> DEFINE p == [kind |-> "COVER", leg |-> 0, ctr |-> cover_ctr, ret |-> build_spare_return_header]
<1>1. p \in Packet
  BY MadePackets
<1>2. Send(p) /\ p.ret = ret_ctr /\ ret_ctr' = ret_ctr + 1
  BY DEF SendCover, build_spare_return_header
<1> HIDE DEF p
<1> QED BY <1>1, <1>2

LEMMA HeaderStep ==
  ASSUME TypeInv, HeaderInv, SetupInv, Next
  PROVE  HeaderInv'
<1>0. /\ forward \cup back \subseteq Packet /\ mailbox \in Packet \cup {Nothing}
      /\ resp \in Packet \cup {Nothing} /\ ret_ctr \in Nat
  BY DEF TypeInv, NetType, ThreadType
\* What is there was there, or is a packet under a header that is drawn.
<1>1. ASSUME NEW p \in Packet, p.ret < ret_ctr', ret_ctr' \in {ret_ctr, ret_ctr + 1},
             \A q \in (forward \cup back)' : q \in forward \cup back \/ q = p,
             mailbox' \in {mailbox, p, Nothing}, resp' \in {resp, p, Nothing}
      PROVE  HeaderInv'
  <2>1. \A q \in Packet : q.ret \in Nat
    BY PacketFields
  <2>2. \A q \in Packet : q.ret < ret_ctr => q.ret < ret_ctr'
    BY <1>0, <1>1, <2>1
  <2>3. \A q \in (forward \cup back)' : q.ret < ret_ctr'
    BY <1>0, <1>1, <2>2 DEF HeaderInv
  <2>4. mailbox' # Nothing => mailbox'.ret < ret_ctr'
    BY <1>0, <1>1, <2>2 DEF HeaderInv
  <2>5. resp' # Nothing => resp'.ret < ret_ctr'
    BY <1>0, <1>1, <2>2 DEF HeaderInv
  <2> QED BY <2>3, <2>4, <2>5 DEF HeaderInv
\* No header is drawn.
<1>2. ASSUME UNCHANGED ret_ctr,
             \A q \in (forward \cup back)' : q \in forward \cup back \/ q = mailbox,
             (forward \cup back)' \subseteq forward \cup back \/ mailbox # Nothing,
             mailbox' \in {mailbox, Nothing},
             resp' \in {resp, Nothing} \cup back
      PROVE  HeaderInv'
  BY <1>2 DEF HeaderInv
<1>3. CASE send_setup_leg
  <2>1. PICK p \in Packet :
          Send(p) /\ p.ret = header' /\ ret_ctr' \in {ret_ctr, ret_ctr + 1} /\ header' < ret_ctr'
    BY <1>3, SetupPacket
  <2>2. UNCHANGED <<back, resp, mailbox>>
    BY <1>3 DEF send_setup_leg
  <2> QED BY <1>1, <2>1, <2>2, SentOrLost
<1>4. ASSUME NEW l \in Legs, NEW wait \in BOOLEAN, send_app_request(l, wait)
      PROVE  HeaderInv'
  <2>1. PICK p \in Packet :
          /\ p.ret = ret_ctr /\ ret_ctr' = ret_ctr + 1
          /\ IF build = "loopix" THEN Queue(p, wait) ELSE SendDirectly(p, wait)
    BY <1>4, RequestPacket
  <2>2. UNCHANGED <<back, resp>>
    BY <1>4 DEF send_app_request
  <2>3. mailbox' \in {mailbox, p} /\ \A q \in forward' : q \in forward \/ q = p
    BY <2>1, SentOrLost DEF Queue, SendDirectly
  <2>4. p.ret < ret_ctr'
    BY <1>0, <2>1
  <2> QED BY <1>1, <2>1, <2>2, <2>3, <2>4
<1>5. CASE SendCover /\ UNCHANGED <<mailbox, resp, back>>
  <2>1. PICK p \in Packet : Send(p) /\ p.ret = ret_ctr /\ ret_ctr' = ret_ctr + 1
    BY <1>5, CoverPacket
  <2>2. p.ret < ret_ctr'
    BY <1>0, <2>1
  <2> QED BY <1>1, <1>5, <2>1, <2>2, SentOrLost
<1>6. CASE LoopixTick /\ mailbox # Nothing
  <2>1. Send(mailbox) /\ mailbox' = Nothing /\ UNCHANGED <<ret_ctr, back, resp>>
    BY <1>6 DEF LoopixTick
  <2> QED BY <1>2, <1>6, <2>1, SentOrLost
<1>7. ASSUME NEW p \in forward, Arrive(p)
      PROVE  HeaderInv'
  BY <1>2, <1>7 DEF Arrive, ctrVars
<1>8. ASSUME NEW a \in back, Return(a)
      PROVE  HeaderInv'
  BY <1>2, <1>8 DEF Return, ctrVars
<1>9. CASE SetupAcknowledged \/ SetupTimeout \/ wait_response \/ WaitTimeout \/ TakeCredit
  BY <1>2, <1>9 DEF SetupAcknowledged, SetupTimeout, wait_response, WaitTimeout, TakeCredit,
                    ctrVars, netVars
<1>10. BaseTick \/ (LoopixTick /\ mailbox = Nothing) =>
         SendCover /\ UNCHANGED <<mailbox, resp, back>>
  BY DEF BaseTick, LoopixTick
<1> QED BY <1>3, <1>4, <1>5, <1>6, <1>7, <1>8, <1>9, <1>10 DEF Next
-----------------------------------------------------------------------------
(* SETUP and the mailbox                                                   *)

\* Nothing of the set-up is to be waited for, and no leg loses its binding.
LEMMA AfterSetup ==
  ASSUME SetupInv, pc' \in {"idle", "wait", "exited"}, setup_leg' = setup_leg, Used' = Used,
         bound \subseteq bound', \A q \in back' : q.leg \in bound',
         resp' # Nothing => resp'.leg \in bound',
         pc' # "exited" => pc \in {"idle", "wait"}
  PROVE  SetupInv'
<1>1. SetUpLegsAreBound'
  BY DEF SetupInv, SetUpLegsAreBound
<1> QED BY <1>1 DEF SetupInv, SettingUp

LEMMA SetupStep ==
  ASSUME TypeInv, SetupInv, Next
  PROVE  SetupInv'
<1>0. /\ forward \cup back \subseteq Packet /\ resp \in Packet \cup {Nothing} /\ ret_ctr \in Nat
      /\ Used \subseteq Legs /\ setup_leg \in Used /\ attempt \in {0, 1} /\ bound \subseteq Legs
      /\ pc \in {"setup", "setup_wait", "idle", "wait", "exited"} /\ legs \in Nat
      /\ legs = (IF build = "loopix" THEN 1 ELSE N_LEGS)
  BY UsedAreLegs DEF TypeInv, StripeType, NetType, ThreadType, MAX_STRIPE_LEGS
<1>1. CASE send_setup_leg
  <2>1. PICK p \in Packet :
          /\ Send(p) /\ p.leg = setup_leg /\ p.ret = header'
          /\ header' \in Nat /\ ret_ctr' \in {ret_ctr, ret_ctr + 1} /\ header' < ret_ctr'
          /\ IF attempt = 0 THEN ret_ctr' = ret_ctr + 1 /\ header' = ret_ctr
             ELSE UNCHANGED ret_ctr /\ header' = header
    BY <1>1, SetupPacket
  <2>2. /\ UNCHANGED <<legs, back, resp, setup_leg, attempt, ret_seen, bound>>
        /\ pc = "setup" /\ pc' \in {"setup_wait", "exited"}
    BY <1>1 DEF send_setup_leg
  <2>3. Used' = Used
    BY <2>2 DEF Used
  <2>4. CASE pc' = "exited"
    BY <2>2, <2>3, <2>4, AfterSetup DEF SetupInv
  <2>5. CASE pc' = "setup_wait"
    <3>1. ASSUME NEW q \in (forward \cup back)'
          PROVE  /\ q.leg <= setup_leg'
                 /\ IF q.leg = setup_leg' THEN q.ret = header' ELSE q.ret \in ret_seen'
      <4>1. CASE q = p
        BY <1>0, <2>1, <2>2, <4>1 DEF Used
      <4>2. CASE q \in forward \cup back /\ attempt = 1
        BY <2>1, <2>2, <4>2 DEF SetupInv, SettingUp
      <4>3. CASE q \in forward \cup back /\ attempt = 0
        <5>1. q.leg <= setup_leg /\ q.leg < setup_leg /\ q.ret \in ret_seen
          <6>1. q.leg <= setup_leg /\ q.leg < setup_leg /\ setup_leg \in Nat /\ q.leg \in Nat
            BY <1>0, <2>2, <4>3, PacketFields, LegNumbers DEF SetupInv, SettingUp
          <6> QED BY <2>2, <4>3, <6>1 DEF SetupInv, SettingUp
        <5>2. q.leg # setup_leg
          BY <1>0, <4>3, <5>1, PacketFields, LegNumbers
        <5> QED BY <2>2, <5>1, <5>2
      <4>4. q = p \/ q \in forward \cup back
        BY <2>1, <2>2, SentOrLost
      <4> QED BY <1>0, <4>1, <4>2, <4>3, <4>4
    <3>2. resp' # Nothing => resp'.leg = setup_leg' /\ header' \in ret_seen'
      BY <1>0, <2>1, <2>2 DEF SetupInv, SettingUp
    <3>3. SetUpLegsAreBound'
      BY <2>2, <2>3, <2>5 DEF SetupInv, SetUpLegsAreBound
    <3> QED BY <2>1, <2>2, <2>5, <3>1, <3>2, <3>3 DEF SetupInv, SettingUp
  <2> QED BY <2>2, <2>4, <2>5
<1>2. CASE SetupAcknowledged
  <2>1. /\ resp # Nothing /\ resp' = Nothing /\ attempt' = 0 /\ pc = "setup_wait"
        /\ UNCHANGED <<legs, forward, back, header, ret_seen, bound, ret_ctr>>
    BY <1>2 DEF SetupAcknowledged, netVars, ctrVars
  <2>2. Used' = Used
    BY <2>1 DEF Used
  <2>3. header \in ret_seen /\ setup_leg \in bound
    BY <2>1 DEF SetupInv, SettingUp
  <2>4. \A l \in Used : l <= setup_leg => l \in bound
    BY <1>0, <2>1, <2>3 DEF SetupInv, SetUpLegsAreBound, Used
  <2>5. CASE setup_leg + 1 < legs
    <3>1. setup_leg' = setup_leg + 1 /\ pc' = "setup"
      BY <1>2, <2>5 DEF SetupAcknowledged
    <3>2. ASSUME NEW q \in forward \cup back
          PROVE  /\ q.leg <= setup_leg + 1 /\ q.leg < setup_leg + 1 /\ q.leg # setup_leg + 1
                 /\ q.ret \in ret_seen
      <4>1. q.leg <= setup_leg /\ q.leg \in Nat /\ setup_leg \in Nat
        BY <1>0, <2>1, PacketFields, LegNumbers DEF SetupInv, SettingUp
      <4>2. q.ret \in ret_seen
        BY <2>1, <2>3 DEF SetupInv, SettingUp
      <4> QED BY <4>1, <4>2
    <3>3. SetUpLegsAreBound'
      BY <1>0, <2>1, <2>2, <2>4, <3>1 DEF SetUpLegsAreBound, Used
    <3> QED BY <2>1, <3>1, <3>2, <3>3 DEF SetupInv, SettingUp
  <2>6. CASE ~(setup_leg + 1 < legs)
    <3>1. setup_leg' = setup_leg /\ pc' = "idle"
      BY <1>2, <2>6 DEF SetupAcknowledged
    <3>2. Used \subseteq bound
      BY <1>0, <2>4, <2>6 DEF Used
    <3>3. SetUpLegsAreBound'
      BY <2>1, <2>2, <3>1, <3>2 DEF SetUpLegsAreBound
    <3> QED BY <2>1, <3>1, <3>3 DEF SetupInv, SettingUp
  <2> QED BY <2>5, <2>6
<1>3. CASE SetupTimeout
  <2>1. /\ pc = "setup_wait" /\ resp = Nothing /\ attempt' = 1
        /\ UNCHANGED <<legs, forward, back, resp, setup_leg, header, ret_seen, bound, ret_ctr>>
        /\ pc' \in {"setup", "exited"}
    BY <1>3 DEF SetupTimeout, netVars, ctrVars
  <2>2. Used' = Used
    BY <2>1 DEF Used
  <2>3. CASE pc' = "exited"
    BY <2>1, <2>2, <2>3, AfterSetup DEF SetupInv
  <2>4. CASE pc' = "setup"
    <3>1. SetUpLegsAreBound'
      BY <2>1, <2>2, <2>4 DEF SetupInv, SetUpLegsAreBound
    <3> QED BY <2>1, <2>4, <3>1 DEF SetupInv, SettingUp
  <2> QED BY <2>1, <2>3, <2>4
<1>4. ASSUME NEW l \in Legs, NEW wait \in BOOLEAN, send_app_request(l, wait)
      PROVE  SetupInv'
  <2>1. pc = "idle" /\ pc' \in {"idle", "wait"} /\ UNCHANGED <<legs, back, resp, setup_leg, bound>>
    BY <1>4 DEF send_app_request, Queue, SendDirectly
  <2> QED BY <2>1, AfterSetup DEF SetupInv, Used
<1>5. CASE wait_response \/ WaitTimeout
  <2>1. pc = "wait" /\ pc' = "idle" /\ UNCHANGED <<legs, back, setup_leg, bound>>
        /\ resp' \in {resp, Nothing}
    BY <1>5 DEF wait_response, WaitTimeout, netVars
  <2> QED BY <2>1, AfterSetup DEF SetupInv, Used
<1>6. CASE TakeCredit \/ BaseTick \/ LoopixTick
  <2>1. tick # "off" /\ UNCHANGED <<pc, legs, back, resp, setup_leg, bound>>
    BY <1>6 DEF TakeCredit, BaseTick, LoopixTick, netVars, mainVars
  <2>2. pc \in {"idle", "wait", "exited"}
    BY <1>0, <2>1 DEF TypeInv, ThreadType, SettingUp
  <2> QED BY <2>1, <2>2, AfterSetup DEF SetupInv, Used
<1>7. ASSUME NEW p \in forward, Arrive(p)
      PROVE  SetupInv'
  <2>1. /\ UNCHANGED <<legs, pc, resp, setup_leg, attempt, header, ret_seen, ret_ctr>>
        /\ bound \subseteq bound'
        /\ \A q \in (forward \cup back)' : q \in forward \cup back
    BY <1>7 DEF Arrive, mainVars, ctrVars
  <2>2. \A q \in back' : q.leg \in bound'
    BY <1>7 DEF Arrive, SetupInv
  <2>3. resp' # Nothing => resp'.leg \in bound'
    BY <2>1 DEF SetupInv
  <2>4. Used' = Used
    BY <2>1 DEF Used
  <2>5. SetUpLegsAreBound'
    BY <2>1, <2>4 DEF SetupInv, SetUpLegsAreBound
  <2>6. SettingUp => SettingUp' /\ \A q \in (forward \cup back)' :
            /\ q.leg <= setup_leg'
            /\ IF q.leg = setup_leg' THEN q.ret = header' ELSE q.ret \in ret_seen'
            /\ attempt' = 0 /\ pc' = "setup" => q.leg < setup_leg'
    BY <2>1 DEF SetupInv, SettingUp
  <2>7. SettingUp' => SettingUp
    BY <2>1 DEF SettingUp
  <2>8. SettingUp =>
          /\ attempt' = 0 /\ pc' = "setup" => resp' = Nothing
          /\ attempt' = 1 \/ pc' = "setup_wait" => header' \in Nat /\ header' < ret_ctr'
          /\ resp' # Nothing => resp'.leg = setup_leg' /\ header' \in ret_seen'
    BY <2>1 DEF SetupInv
  <2> QED BY <2>2, <2>3, <2>5, <2>6, <2>7, <2>8 DEF SetupInv
<1>8. ASSUME NEW a \in back, Return(a)
      PROVE  SetupInv'
  <2>1. /\ UNCHANGED <<legs, pc, setup_leg, attempt, header, forward, bound, ret_ctr>>
        /\ back' \subseteq back
        /\ ret_seen \subseteq ret_seen'
        /\ resp' # resp => resp' = a /\ a.ret \notin ret_seen /\ a.ret \in ret_seen'
    BY <1>8 DEF Return, mainVars, ctrVars
  <2>2. \A q \in back' : q.leg \in bound'
    BY <2>1 DEF SetupInv
  <2>3. resp' # Nothing => resp'.leg \in bound'
    BY <2>1 DEF SetupInv
  <2>4. Used' = Used
    BY <2>1 DEF Used
  <2>5. SetUpLegsAreBound'
    BY <2>1, <2>4 DEF SetupInv, SetUpLegsAreBound
  <2>6. SettingUp' <=> SettingUp
    BY <2>1 DEF SettingUp
  <2>7. SettingUp => \A q \in (forward \cup back)' :
            /\ q.leg <= setup_leg'
            /\ IF q.leg = setup_leg' THEN q.ret = header' ELSE q.ret \in ret_seen'
            /\ attempt' = 0 /\ pc' = "setup" => q.leg < setup_leg'
    BY <2>1 DEF SetupInv
  <2>8. SettingUp /\ resp' # resp =>
          resp'.leg = setup_leg' /\ header' \in ret_seen' /\ ~(attempt = 0 /\ pc = "setup")
    <3>1. SUFFICES ASSUME SettingUp, resp' # resp
                   PROVE  a.leg = setup_leg /\ ~(attempt = 0 /\ pc = "setup")
      BY <2>1 DEF SetupInv
    <3>2. a.leg = setup_leg
      BY <2>1, <3>1 DEF SetupInv
    <3>3. setup_leg \in Nat
      BY <1>0, LegNumbers
    <3> QED BY <3>1, <3>2, <3>3 DEF SetupInv
  <2>9. SettingUp =>
          /\ attempt' = 0 /\ pc' = "setup" => resp' = Nothing
          /\ attempt' = 1 \/ pc' = "setup_wait" => header' \in Nat /\ header' < ret_ctr'
          /\ resp' # Nothing => resp'.leg = setup_leg' /\ header' \in ret_seen'
    BY <2>1, <2>8 DEF SetupInv
  <2> QED BY <2>2, <2>3, <2>5, <2>6, <2>7, <2>9 DEF SetupInv
<1> QED BY <1>1, <1>2, <1>3, <1>4, <1>5, <1>6, <1>7, <1>8 DEF Next

LEMMA QueueStep ==
  ASSUME TypeInv, CreditInv, HeaderInv, QueueInv, Next
  PROVE  QueueInv'
<1>0. /\ forward \cup back \subseteq Packet /\ mailbox \in Packet \cup {Nothing}
      /\ resp \in Packet \cup {Nothing} /\ ret_ctr \in Nat
      /\ build \in {"base", "loopix"} /\ pc \in {"setup", "setup_wait", "idle", "wait", "exited"}
      /\ tick \in {"off", "sleep", "restore"}
  BY DEF TypeInv, StripeType, NetType, ThreadType
\* The actions of the set-up: the mailbox is empty.
<1>1. CASE send_setup_leg \/ SetupAcknowledged \/ SetupTimeout
  <2>1. mailbox = Nothing /\ mailbox' = mailbox
    BY <1>1 DEF send_setup_leg, SetupAcknowledged, SetupTimeout, TypeInv, ThreadType, SettingUp
  <2> QED BY <2>1 DEF QueueInv
<1>2. ASSUME NEW l \in Legs, NEW wait \in BOOLEAN, send_app_request(l, wait)
      PROVE  QueueInv'
  <2>1. PICK p \in Packet :
          /\ p.ret = ret_ctr /\ header' = ret_ctr
          /\ IF build = "loopix" THEN Queue(p, wait) ELSE SendDirectly(p, wait)
    BY <1>2, RequestPacket
  <2>2. CASE build = "base"
    BY <2>1, <2>2 DEF SendDirectly, CreditInv, QueueInv
  <2>3. CASE build = "loopix"
    <3>1. /\ forward' = forward /\ back' = back /\ resp' = resp
          /\ pc' = (IF wait THEN "wait" ELSE "idle") /\ (streaming' <=> ~wait)
      BY <1>2, <2>1, <2>3 DEF send_app_request, Queue
    <3>2. /\ \A q \in forward \cup back : q.ret # ret_ctr
          /\ resp # Nothing => resp.ret # ret_ctr
      BY <1>0, PacketFields DEF HeaderInv
    <3> QED BY <1>0, <2>1, <3>1, <3>2 DEF QueueInv
  <2> QED BY <1>0, <2>2, <2>3
<1>3. CASE wait_response
  <2>1. pc = "wait" /\ pc' = "idle" /\ resp # Nothing /\ (early' <=> resp.ret # header)
        /\ mailbox' = mailbox
    BY <1>3 DEF wait_response
  <2> QED BY <2>1 DEF QueueInv
<1>4. CASE WaitTimeout
  <2>1. (mailbox = Nothing \/ tick = "off") /\ tick' = tick /\ mailbox' = mailbox /\ pc' = "idle"
    BY <1>4 DEF WaitTimeout
  <2> QED BY <2>1 DEF QueueInv
\* The build that counts credits has no use for the mailbox.
<1>5. CASE TakeCredit \/ BaseTick
  <2>1. build = "base" /\ mailbox' = mailbox
    BY <1>0, <1>5 DEF TakeCredit, BaseTick, CreditInv
  <2> QED BY <2>1 DEF CreditInv, QueueInv
<1>6. CASE LoopixTick
  BY <1>6 DEF LoopixTick, QueueInv
<1>7. ASSUME NEW p \in forward, Arrive(p)
      PROVE  QueueInv'
  <2>1. /\ UNCHANGED <<pc, header, resp, mailbox, streaming, early, tick>>
        /\ \A q \in (forward \cup back)' : q \in forward \cup back
    BY <1>7 DEF Arrive, mainVars, histVars
  <2> QED BY <2>1 DEF QueueInv
<1>8. ASSUME NEW a \in back, Return(a)
      PROVE  QueueInv'
  <2>1. /\ UNCHANGED <<pc, header, mailbox, streaming, early, tick, forward>>
        /\ back' \subseteq back /\ resp' \in {resp, a}
    BY <1>8 DEF Return, mainVars, histVars
  <2> QED BY <2>1 DEF QueueInv
<1> QED BY <1>1, <1>2, <1>3, <1>4, <1>5, <1>6, <1>7, <1>8 DEF Next
-----------------------------------------------------------------------------
(* The invariant, and what follows from it                                 *)

LEMMA InitEstablishes == Init => ClientInv
<1> SUFFICES ASSUME Init PROVE ClientInv
  OBVIOUS
<1>1. /\ Legs \subseteq {0, 1, 2} /\ 0 \in Legs /\ TotalWeight \in Nat /\ TotalWeight > 0
      /\ STRIPE_RECENT_MAX \in Nat
  BY ThreeLegs, LegNumbers, TotalIsNat
<1>2. StripeType
  BY <1>1 DEF Init, StripeType, Used, MAX_STRIPE_LEGS
<1>3. 0 \in Used /\ MaxSends \in Nat
  BY <1>2, UsedAreLegs
<1>4. ThreadType
  <2>1. streaming \in BOOLEAN
    BY Zenon DEF Init
  <2>2. counter \in [Legs -> Nat] /\ cover_ctr \in Nat /\ ret_ctr \in Nat /\ sends \in 0 .. MaxSends
        /\ covers \in Nat
    BY <1>3 DEF Init
  <2>3. setup_leg \in Used /\ attempt \in {0, 1} /\ tick = "off" /\ pc = "setup"
        /\ mailbox = Nothing /\ resp = Nothing /\ header = Nothing
    BY <1>3 DEF Init
  <2> QED BY <2>1, <2>2, <2>3 DEF ThreadType
<1>5. NetType
  <2>1. early \in BOOLEAN
    BY Zenon DEF Init
  <2> QED BY <2>1 DEF Init, NetType
<1>6. CreditInv
  BY DEF Init, CreditInv, CreditsKept
<1>7. ShareInv
  BY <1>1 DEF Init, ShareInv, Owed
<1>8. HeaderInv
  BY DEF Init, HeaderInv
<1>9. SetupInv
  <2>1. \A l \in Used : ~(l < setup_leg)
    <3>1. Used \subseteq Nat
      BY <1>2, UsedAreLegs, LegNumbers
    <3>2. \A l \in Nat : ~(l < 0)
      OBVIOUS
    <3> QED BY <3>1, <3>2 DEF Init
  <2> QED BY <2>1 DEF Init, SetupInv, SettingUp, SetUpLegsAreBound
<1>10. QueueInv
  BY DEF Init, QueueInv
<1> QED BY <1>2, <1>4, <1>5, <1>6, <1>7, <1>8, <1>9, <1>10 DEF ClientInv, TypeInv

LEMMA InvUnchanged == ClientInv /\ UNCHANGED vars => ClientInv'
<1> SUFFICES ASSUME ClientInv, UNCHANGED vars PROVE ClientInv'
  OBVIOUS
<1> USE DEF vars, stripeVars, ctrVars, mainVars, netVars, histVars
<1>1. TypeInv'
  BY DEF ClientInv, TypeInv, StripeType, ThreadType, NetType, Used, SettingUp
<1>2. CreditInv' /\ ShareInv'
  BY DEF ClientInv, CreditInv, CreditsKept, ShareInv, Owed
<1>3. HeaderInv'
  BY DEF ClientInv, HeaderInv
<1>4. SetupInv' /\ QueueInv'
  BY DEF ClientInv, SetupInv, QueueInv, SettingUp, SetUpLegsAreBound, Used
<1> QED BY <1>1, <1>2, <1>3, <1>4 DEF ClientInv

LEMMA NextPreserves == ClientInv /\ Next => ClientInv'
  BY StripeTypeStep, ThreadTypeStep, NetTypeStep, CreditStep, ShareStep, HeaderStep, SetupStep,
     QueueStep DEF ClientInv, TypeInv

\* The conjunction that every step of the client, of its cover thread and of
\* the surroundings preserves; the properties below follow from it.
THEOREM ClientInvHolds == Spec => []ClientInv
<1>1. ClientInv /\ [Next]_vars => ClientInv'
  BY NextPreserves, InvUnchanged
<1> QED BY <1>1, InitEstablishes, PTL DEF Spec

\* Every variable of the client and of its surroundings keeps its type, for
\* any number of requests and covers and any weights.
THEOREM TypeCorrect == Spec => []TypeOK
<1>1. ClientInv => TypeOK
  <2> SUFFICES ASSUME ClientInv PROVE TypeOK
    OBVIOUS
  <2>1. pending \in -1 .. MaxSends
    BY DEF ClientInv, CreditInv, CreditsKept, TypeInv, ThreadType
  <2> QED BY <2>1 DEF ClientInv, CreditInv, TypeInv, StripeType, ThreadType, NetType, TypeOK
<1> QED BY <1>1, ClientInvHolds, PTL

\* The two threads that count g_real_traffic_pending up and down
\* (client.c:1384, client.c:1497) lose no credit and invent none.
THEOREM CreditsKeptHolds == Spec => []CreditsKept
<1>1. ClientInv => CreditsKept
  BY DEF ClientInv, CreditInv
<1> QED BY <1>1, ClientInvHolds, PTL

\* A leg that send_setup() has passed is one the gateway has bound, though an
\* acknowledgement does not say which leg it is for.
THEOREM SetUpLegsAreBoundHolds == Spec => []SetUpLegsAreBound
<1>1. ClientInv => SetUpLegsAreBound
  BY DEF ClientInv, SetupInv
<1> QED BY <1>1, ClientInvHolds, PTL

\* After any number of requests no leg is a whole round ahead of its weight or
\* behind it (stripe_pick_leg()), whatever the weights of up to three legs.
THEOREM SharesKeptHolds == Spec => []SharesKept
<1>1. ClientInv => SharesKept
  BY UsedAreLegs DEF ClientInv, TypeInv, ShareInv, SharesKept
<1> QED BY <1>1, ClientInvHolds, PTL

\* The mailbox of the "loopix" build (client.c:1484) is overwritten in the
\* three cases of the property only; in all others the clock has taken its
\* packet before the main thread goes on.
THEOREM OverwrittenOnlyThenHolds == Spec => OverwrittenOnlyThen
<1>1. ClientInv /\ [Next]_vars =>
        [mailbox # Nothing /\ mailbox' \notin {mailbox, Nothing} => streaming \/ early \/ tick = "off"]_vars
  <2> SUFFICES ASSUME ClientInv, Next, mailbox # Nothing
               PROVE  mailbox' \notin {mailbox, Nothing} => streaming \/ early \/ tick = "off"
    OBVIOUS
  <2>1. CASE mailbox' \in {mailbox, Nothing}
    BY <2>1
  <2>2. CASE \E l \in Legs, wait \in BOOLEAN : send_app_request(l, wait)
    <3>1. pc = "idle"
      BY <2>2 DEF send_app_request
    <3> QED BY <3>1 DEF ClientInv, QueueInv
  <2> QED BY <2>1, <2>2 DEF Next, send_setup_leg, SetupAcknowledged, SetupTimeout, wait_response,
             WaitTimeout, TakeCredit, BaseTick, LoopixTick, Arrive, Return
<1> QED BY <1>1, ClientInvHolds, PTL DEF Spec, OverwrittenOnlyThen
=============================================================================
