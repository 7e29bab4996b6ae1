--------------------------- MODULE TelescopeProofs ---------------------------
(***************************************************************************)
(* What Telescope guarantees for every set of nodes and processes, every   *)
(* length of a path, and any number of rotations and crashes.              *)
(*                                                                         *)
(* An attempt has one token: a request on its way down, a handler that     *)
(* works on it, or its answer on the way up; where it is says which hop    *)
(* every handler of the chain waits for.  The attempts do not disturb one  *)
(* another, so the invariant is stated about the values of one attempt:    *)
(* its links L, its handlers h, the keys ms that the program has derived,  *)
(* the sessions S there are and those X that went with their node.         *)
(***************************************************************************)
EXTENDS Telescope, TLAPS

USE TelescopeAssumption

Ends == {"none", "open", "closed"}
PCs  == {"none", "mode", "alloc", "reply", "relay", "await", "proxy", "end"}
One(T)  == {<<>>} \cup {<<x>> : x \in T}
Linkage == [near : Ends, far : Ends, down : One(Request), up : One(Answer)]
Worker  == [pc : PCs, req : One(Request), key : Nat]
Session == [node : Nodes, att : Attempts, hop : Nat, key : Nat]

Down(L, j)    == L[j].down # <<>>
Upward(L, j)  == L[j].up # <<>>
Working(h, j) == h[j].pc \in {"alloc", "reply"}

SessionOf(a, i, k)      == [node |-> Hops(a)[i], att |-> a, hop |-> i, key |-> k]
Stored(a, i, k, S, X)   == SessionOf(a, i, k) \in S \/ <<a, i>> \in X
KeysOf(a, ms, S, X)     == \A i \in 1 .. Len(ms) : Stored(a, i, ms[i], S, X)

Shape(a, L, h, ms) ==
  /\ L \in [Positions(a) -> Linkage] /\ h \in [Positions(a) -> Worker]
  /\ ms \in Seq(Nat) /\ Len(ms) <= Len(Hops(a))

\* What a handler does says which hop it is; m hops are agreed upon.  Who has
\* returned has closed its socket.
Placed(a, L, h, m) ==
  \A j \in Positions(a) :
    /\ h[j].pc = "mode" => Down(L, j)
    /\ Working(h, j) => j = m + 1 /\ h[j].req = <<RequestFor(a, m + 1)>>
    /\ h[j].pc = "relay" => j \in {m, m + 1} /\ j < Len(Hops(a))
    /\ h[j].pc = "await" => j = m /\ j < Len(Hops(a))
    /\ h[j].pc = "proxy" => j <= m /\ j < Len(Hops(a))
    /\ L[j].far = "open" => h[j].pc \notin {"none", "end"}

\* The token is the request for hop m + 1: the hops before the last one
\* agreed upon copy it, that one extends to the next hop with it.
OnTheWayDown(a, L, h, m) ==
  \A i \in Positions(a) : Down(L, i) =>
    /\ L[i].far = "open" /\ L[i].down = <<RequestFor(a, m + 1)>> /\ m < Len(Hops(a))
    /\ \/ h[i].pc = "mode" /\ i = m + 1
       \/ h[i].pc = "relay" /\ i = m
       \/ h[i].pc = "proxy" /\ i < m
    /\ \A j \in Positions(a) :
         /\ ~Working(h, j) /\ ~Upward(L, j) /\ (Down(L, j) => j = i)
         /\ h[j].pc = "await" => i = m + 1
         /\ h[j].pc = "relay" => j = m /\ i <= m
         /\ h[j].pc = "proxy" => j < m

\* The token is a handler at work, which stores before it answers.
AtItsHop(a, L, h, S) ==
  \A i \in Positions(a) : Working(h, i) =>
    /\ \A j \in Positions(a) : ~Upward(L, j) /\ h[j].pc # "relay"
    /\ h[i].pc = "reply" => SessionOf(a, i, h[i].key) \in S

\* The token is the answer of hop m + 1, with the key of its session.
OnTheWayUp(a, L, h, m, S, X) ==
  \A i \in Positions(a) : Upward(L, i) =>
    /\ m < Len(Hops(a))
    /\ L[i].up[1].node = Hops(a)[m + 1] /\ Stored(a, m + 1, L[i].up[1].key, S, X)
    /\ \A j \in Positions(a) :
         /\ Upward(L, j) => j = i
         /\ h[j].pc = "relay" => j = m + 1
         /\ h[j].pc = "await" => j < i

Token(a, L, h, m, S, X) ==
  Placed(a, L, h, m) /\ OnTheWayDown(a, L, h, m) /\ AtItsHop(a, L, h, S) /\ OnTheWayUp(a, L, h, m, S, X)

\* No session of a hop behind the one that is being agreed upon.
Reached(a, m, S) == \A s \in S : s.att = a => s.hop \in 1 .. (m + 1)

Chain(a, L, h, ms, S, X) ==
  /\ Shape(a, L, h, ms) /\ Token(a, L, h, Len(ms), S, X)
  /\ KeysOf(a, ms, S, X) /\ Reached(a, Len(ms), S)

Begun(a, c, L, h, ms) ==
  c = "not begun" => ms = <<>> /\ \A k \in Positions(a) : L[k] = NoLink /\ h[k] = NoHandler

\* The inductive invariant.
ChainInv ==
  /\ up \in [Nodes -> BOOLEAN] /\ key \in [Nodes -> Nat] /\ sessions \subseteq Session
  /\ client \in [Attempts -> {"not begun", "waits", "ready", "failed"}]
  /\ DOMAIN masters = Attempts /\ DOMAIN link = Attempts /\ DOMAIN handler = Attempts
  /\ rotations \in 0 .. MaxRotations /\ crashes \in 0 .. MaxCrashes
  /\ \A a \in Attempts :
       /\ Chain(a, link[a], handler[a], masters[a], sessions, lost)
       /\ Begun(a, client[a], link[a], handler[a], masters[a])
-----------------------------------------------------------------------------
(* Attempts, frames and links                                              *)

LEMMA HopsType ==
  ASSUME NEW a \in Attempts
  PROVE  /\ Hops(a) \in Seq(Nodes) /\ Hops(a) # <<>> /\ Len(Hops(a)) \in Nat \ {0}
         /\ \A k \in Positions(a) : k \in Nat \ {0} /\ Hops(a)[k] \in Nodes
         /\ DOMAIN Hops(a) = Positions(a)
<1>1. \E p \in Processes : \E j \in 1 .. Len(Routes[p]) : a = <<p, j>>
  BY DEF Attempts
<1>0. PICK p \in Processes : \E j \in 1 .. Len(Routes[p]) : a = <<p, j>>
  BY <1>1
<1>a. PICK j \in 1 .. Len(Routes[p]) : a = <<p, j>>
  BY <1>0
<1>2. Routes[p] \in Seq(Seq(Nodes) \ {<<>>})
  OBVIOUS
<1>3. Routes[p][j] \in Seq(Nodes) \ {<<>>}
  BY <1>2
<1>4. Hops(a) = Routes[p][j]
  BY <1>a DEF Hops
<1> QED BY <1>3, <1>4 DEF Positions

LEMMA OneFacts ==
  ASSUME NEW T, NEW x \in T
  PROVE  /\ <<x>> \in One(T) /\ <<>> \in One(T)
         /\ Append(<<>>, x) = <<x>> /\ Head(<<x>>) = x /\ Tail(<<x>>) = <<>> /\ <<x>> # <<>>
         /\ <<x>>[1] = x /\ Len(<<x>>) = 1
  BY DEF One

\* A frame that is there is one element.
LEMMA OneFrame ==
  ASSUME NEW T, NEW q \in One(T), q # <<>>
  PROVE  /\ q[1] \in T /\ q = <<q[1]>> /\ Head(q) = q[1] /\ Tail(q) = <<>>
<1>1. PICK x \in T : q = <<x>>
  BY DEF One
<1> QED BY <1>1, OneFacts

LEMMA RequestType ==
  ASSUME NEW a \in Attempts, NEW i \in Nat
  PROVE  RequestFor(a, i) \in Request
  BY HopsType DEF RequestFor, Request

LEMMA LinkFields ==
  ASSUME NEW n \in Ends, NEW f \in Ends, NEW d \in One(Request), NEW u \in One(Answer)
  PROVE  [near |-> n, far |-> f, down |-> d, up |-> u] \in Linkage
  BY DEF Linkage

\* What the operations on a link leave in it.
LEMMA LinkOps ==
  ASSUME NEW l \in Linkage
  PROVE  /\ CloseNear(l) \in Linkage /\ CloseNear(l).far = l.far /\ CloseNear(l).down = l.down
         /\ CloseNear(l).up \in {l.up, <<>>}
         /\ CloseFar(l) \in Linkage /\ CloseFar(l).far # "open" /\ CloseFar(l).up = l.up
         /\ CloseFar(l).down = IF l.far = "open" THEN <<>> ELSE l.down
<1>2. l.near = "open" => CloseNear(l) = [l EXCEPT !.near = "closed", !.up = <<>>]
  BY DEF CloseNear
<1>3. l.far = "open" => CloseFar(l) = [l EXCEPT !.far = "closed", !.down = <<>>]
  BY DEF CloseFar
<1>4. "closed" \in Ends /\ <<>> \in One(Request) /\ <<>> \in One(Answer)
  BY DEF Ends, One
<1>5. LET c == [l EXCEPT !.near = "closed", !.up = <<>>]
      IN  c \in Linkage /\ c.far = l.far /\ c.down = l.down /\ c.up = <<>>
  BY <1>4 DEF Linkage
<1>6. LET c == [l EXCEPT !.far = "closed", !.down = <<>>]
      IN  c \in Linkage /\ c.far = "closed" /\ c.down = <<>> /\ c.up = l.up
  BY <1>4 DEF Linkage
<1>7. l.near # "open" => CloseNear(l) = l
  BY DEF CloseNear
<1>8. l.far # "open" => CloseFar(l) = l
  BY DEF CloseFar
<1> QED BY <1>2, <1>3, <1>5, <1>6, <1>7, <1>8

LEMMA SendOps ==
  ASSUME NEW l \in Linkage
  PROVE  /\ \A f \in Request : l.down = <<>> =>
              /\ SendDown(l, f) \in Linkage /\ SendDown(l, f).far = l.far /\ SendDown(l, f).up = l.up
              /\ SendDown(l, f).down = IF l.far = "open" THEN <<f>> ELSE <<>>
         /\ \A f \in Answer : l.up = <<>> =>
              /\ SendUp(l, f) \in Linkage /\ SendUp(l, f).far = l.far /\ SendUp(l, f).down = l.down
              /\ SendUp(l, f).up \in {<<f>>, <<>>}
<1>1. l = [near |-> l.near, far |-> l.far, down |-> l.down, up |-> l.up]
      /\ l.near \in Ends /\ l.far \in Ends /\ l.down \in One(Request) /\ l.up \in One(Answer)
  BY DEF Linkage
<1>2. ASSUME NEW f \in Request, l.down = <<>>
      PROVE  SendDown(l, f) = IF l.far = "open" THEN [near |-> l.near, far |-> l.far, down |-> <<f>>, up |-> l.up] ELSE l
  BY <1>1, <1>2, OneFacts DEF SendDown
<1>3. ASSUME NEW f \in Answer, l.up = <<>>
      PROVE  SendUp(l, f) = IF l.near = "open" THEN [near |-> l.near, far |-> l.far, down |-> l.down, up |-> <<f>>] ELSE l
  BY <1>1, <1>3, OneFacts DEF SendUp
<1>4. (\A f \in Request : <<f>> \in One(Request)) /\ \A f \in Answer : <<f>> \in One(Answer)
  BY DEF One
<1> QED BY <1>1, <1>2, <1>3, <1>4, LinkFields

LEMMA TakeOps ==
  ASSUME NEW l \in Linkage
  PROVE  /\ [l EXCEPT !.down = <<>>] \in Linkage /\ [l EXCEPT !.down = <<>>].far = l.far
         /\ [l EXCEPT !.down = <<>>].up = l.up /\ [l EXCEPT !.down = <<>>].down = <<>>
         /\ [l EXCEPT !.up = <<>>] \in Linkage /\ [l EXCEPT !.up = <<>>].far = l.far
         /\ [l EXCEPT !.up = <<>>].down = l.down /\ [l EXCEPT !.up = <<>>].up = <<>>
<1>1. l = [near |-> l.near, far |-> l.far, down |-> l.down, up |-> l.up]
      /\ l.near \in Ends /\ l.far \in Ends /\ l.down \in One(Request) /\ l.up \in One(Answer)
  BY DEF Linkage
<1>2. /\ [l EXCEPT !.down = <<>>] = [near |-> l.near, far |-> l.far, down |-> <<>>, up |-> l.up]
      /\ [l EXCEPT !.up = <<>>] = [near |-> l.near, far |-> l.far, down |-> l.down, up |-> <<>>]
  BY <1>1
<1>3. <<>> \in One(Request) /\ <<>> \in One(Answer)
  BY DEF One
<1> QED BY <1>1, <1>2, <1>3, LinkFields

LEMMA WorkerOps ==
  ASSUME NEW h \in Worker, NEW l \in PCs
  PROVE  /\ [h EXCEPT !.pc = l] \in Worker /\ [h EXCEPT !.pc = l].pc = l
         /\ [h EXCEPT !.pc = l].req = h.req /\ [h EXCEPT !.pc = l].key = h.key
         /\ NoHandler \in Worker /\ [NoHandler EXCEPT !.pc = l] \in Worker
         /\ [NoHandler EXCEPT !.pc = l].pc = l /\ NoHandler.pc = "none"
  BY DEF Worker, NoHandler, PCs, One
-----------------------------------------------------------------------------
(* What a step does to the chain of one attempt                            *)

\* Frames are lost, handlers return, sessions go with their node.
LEMMA LessLeft ==
  ASSUME NEW a \in Attempts, NEW L, NEW h, NEW ms, NEW S, NEW X, Chain(a, L, h, ms, S, X),
         NEW L2 \in [Positions(a) -> Linkage], NEW h2 \in [Positions(a) -> Worker],
         NEW S2 \in SUBSET S, NEW X2,
         \A j \in Positions(a) :
           /\ L2[j].down \in {L[j].down, <<>>} /\ L2[j].up \in {L[j].up, <<>>}
           /\ h2[j] = h[j] \/ h2[j].pc = "end"
           /\ h2[j].pc = "end" => L2[j].far # "open" /\ L2[j].down = <<>>
           /\ h2[j].pc # "end" => L2[j].far = L[j].far /\ L2[j].down = L[j].down
           /\ h2[j].pc = "reply" /\ SessionOf(a, j, h2[j].key) \in S => SessionOf(a, j, h2[j].key) \in S2,
         \A i \in Positions(a), k \in Nat : Stored(a, i, k, S, X) => Stored(a, i, k, S2, X2)
  PROVE  Chain(a, L2, h2, ms, S2, X2)
<1> DEFINE m == Len(ms)  n == Len(Hops(a))
<1>1. Shape(a, L, h, ms) /\ Placed(a, L, h, m) /\ OnTheWayDown(a, L, h, m) /\ AtItsHop(a, L, h, S)
      /\ OnTheWayUp(a, L, h, m, S, X) /\ KeysOf(a, ms, S, X) /\ Reached(a, m, S)
  BY DEF Chain, Token
<1>2. m \in Nat /\ n \in Nat /\ m <= n /\ Positions(a) = 1 .. n /\ \A i \in 1 .. m : ms[i] \in Nat
  BY <1>1, HopsType DEF Shape, Positions
<1>3. Shape(a, L2, h2, ms)
  BY <1>1 DEF Shape
<1> HIDE DEF m, n
<1>4. Placed(a, L2, h2, m)
  BY <1>1 DEF Placed, Down, Working
<1>5. OnTheWayDown(a, L2, h2, m)
  <2> SUFFICES ASSUME NEW i \in Positions(a), Down(L2, i)
      PROVE  /\ L2[i].far = "open" /\ L2[i].down = <<RequestFor(a, m + 1)>> /\ m < n
             /\ \/ h2[i].pc = "mode" /\ i = m + 1
                \/ h2[i].pc = "relay" /\ i = m
                \/ h2[i].pc = "proxy" /\ i < m
             /\ \A j \in Positions(a) :
                  /\ ~Working(h2, j) /\ ~Upward(L2, j) /\ (Down(L2, j) => j = i)
                  /\ h2[j].pc = "await" => i = m + 1
                  /\ h2[j].pc = "relay" => j = m /\ i <= m
                  /\ h2[j].pc = "proxy" => j < m
    BY DEF OnTheWayDown, n
  <2>1. Down(L, i) /\ h2[i] = h[i] /\ L2[i].far = L[i].far /\ L2[i].down = L[i].down
    BY DEF Down
  <2>2. /\ L[i].far = "open" /\ L[i].down = <<RequestFor(a, m + 1)>> /\ m < n
        /\ \/ h[i].pc = "mode" /\ i = m + 1
           \/ h[i].pc = "relay" /\ i = m
           \/ h[i].pc = "proxy" /\ i < m
        /\ \A j \in Positions(a) :
             /\ ~Working(h, j) /\ ~Upward(L, j) /\ (Down(L, j) => j = i)
             /\ h[j].pc = "await" => i = m + 1
             /\ h[j].pc = "relay" => j = m /\ i <= m
             /\ h[j].pc = "proxy" => j < m
    BY <1>1, <2>1 DEF OnTheWayDown, n
  <2> HIDE DEF OnTheWayDown
  <2> QED BY <2>1, <2>2 DEF Down, Upward, Working
<1>6. AtItsHop(a, L2, h2, S2)
  BY <1>1 DEF AtItsHop, Upward, Working
<1>7. OnTheWayUp(a, L2, h2, m, S2, X2)
  <2> SUFFICES ASSUME NEW i \in Positions(a), Upward(L2, i)
      PROVE  /\ m < n
             /\ L2[i].up[1].node = Hops(a)[m + 1] /\ Stored(a, m + 1, L2[i].up[1].key, S2, X2)
             /\ \A j \in Positions(a) :
                  /\ Upward(L2, j) => j = i
                  /\ h2[j].pc = "relay" => j = m + 1
                  /\ h2[j].pc = "await" => j < i
    BY DEF OnTheWayUp, n
  <2>1. L2[i].up = L[i].up /\ Upward(L, i)
    BY DEF Upward
  <2>2. L[i].up \in One(Answer)
    BY <1>1 DEF Shape, Linkage
  <2>3. L[i].up[1] \in Answer
    BY <2>1, <2>2, OneFrame DEF Upward
  <2>4. L[i].up[1].key \in Nat
    BY <2>3 DEF Answer
  <2>5. /\ m < n
        /\ L[i].up[1].node = Hops(a)[m + 1] /\ Stored(a, m + 1, L[i].up[1].key, S, X)
        /\ \A j \in Positions(a) :
             /\ Upward(L, j) => j = i
             /\ h[j].pc = "relay" => j = m + 1
             /\ h[j].pc = "await" => j < i
    BY <1>1, <2>1 DEF OnTheWayUp, n
  <2>6. m + 1 \in Positions(a)
    BY <1>2, <2>5
  <2>7. Stored(a, m + 1, L2[i].up[1].key, S2, X2)
    BY <2>1, <2>4, <2>5, <2>6
  <2> QED BY <2>1, <2>5, <2>7 DEF Upward
<1>8. KeysOf(a, ms, S2, X2)
  <2>1. \A i \in 1 .. m : i \in Positions(a)
    BY <1>2
  <2> QED BY <1>1, <1>2, <2>1 DEF KeysOf, m
<1>9. Reached(a, m, S2)
  BY <1>1 DEF Reached
<1> QED BY <1>3, <1>4, <1>5, <1>6, <1>7, <1>8, <1>9 DEF Chain, Token, m

LEMMA ChainFacts ==
  ASSUME NEW a \in Attempts, NEW L, NEW h, NEW ms, NEW S, NEW X, Chain(a, L, h, ms, S, X)
  PROVE  /\ Len(ms) \in Nat /\ Len(Hops(a)) \in Nat \ {0} /\ Len(ms) <= Len(Hops(a))
         /\ Positions(a) = 1 .. Len(Hops(a)) /\ \A i \in 1 .. Len(ms) : ms[i] \in Nat
         /\ L \in [Positions(a) -> Linkage] /\ h \in [Positions(a) -> Worker]
         /\ \A k \in Positions(a) : L[k] \in Linkage /\ h[k] \in Worker /\ k \in Nat
         /\ \A k \in Positions(a) : L[k].up # <<>> => L[k].up[1] \in Answer /\ Head(L[k].up) = L[k].up[1] /\ Tail(L[k].up) = <<>>
         /\ \A k \in Positions(a) : L[k].down # <<>> => L[k].down[1] \in Request /\ Head(L[k].down) = L[k].down[1] /\ Tail(L[k].down) = <<>>
<1>1. Shape(a, L, h, ms)
  BY DEF Chain
<1>2. \A k \in Positions(a) : L[k].up \in One(Answer) /\ L[k].down \in One(Request)
  BY <1>1 DEF Shape, Linkage
<1>3. \A k \in Positions(a) : L[k].up # <<>> => L[k].up[1] \in Answer /\ Head(L[k].up) = L[k].up[1] /\ Tail(L[k].up) = <<>>
  BY <1>2, OneFrame
<1>4. \A k \in Positions(a) : L[k].down # <<>> => L[k].down[1] \in Request /\ Head(L[k].down) = L[k].down[1] /\ Tail(L[k].down) = <<>>
  BY <1>2, OneFrame
<1>5. /\ Len(ms) \in Nat /\ Len(Hops(a)) \in Nat \ {0} /\ Len(ms) <= Len(Hops(a))
      /\ Positions(a) = 1 .. Len(Hops(a)) /\ \A i \in 1 .. Len(ms) : ms[i] \in Nat
  BY <1>1, HopsType DEF Shape, Positions
<1> QED BY <1>1, <1>3, <1>4, <1>5 DEF Shape

\* The program reads an answer: one hop more is agreed upon.
LEMMA OneMore ==
  ASSUME NEW a \in Attempts, NEW L, NEW h, NEW ms, NEW S, NEW X, Chain(a, L, h, ms, S, X),
         1 \in Positions(a), Upward(L, 1)
  PROVE  LET ms2 == Append(ms, L[1].up[1].key) IN
         /\ ms2 \in Seq(Nat) /\ Len(ms2) = Len(ms) + 1 /\ Len(ms2) <= Len(Hops(a))
         /\ KeysOf(a, ms2, S, X) /\ Reached(a, Len(ms2), S)
<1> DEFINE m == Len(ms)  ms2 == Append(ms, L[1].up[1].key)
<1>1. Shape(a, L, h, ms) /\ OnTheWayUp(a, L, h, m, S, X) /\ KeysOf(a, ms, S, X) /\ Reached(a, m, S)
  BY DEF Chain, Token
<1>2. L[1].up[1].key \in Nat
  BY ChainFacts DEF Upward, Answer
<1>3. m < Len(Hops(a)) /\ Stored(a, m + 1, L[1].up[1].key, S, X)
  BY <1>1 DEF OnTheWayUp
<1>4. ms \in Seq(Nat) /\ m \in Nat
  BY <1>1 DEF Shape
<1>5. ms2 \in Seq(Nat) /\ Len(ms2) = m + 1 /\ ms2[m + 1] = L[1].up[1].key /\ \A i \in 1 .. m : ms2[i] = ms[i]
  BY <1>2, <1>4
<1> HIDE DEF m, ms2
<1>6. KeysOf(a, ms2, S, X)
  <2> SUFFICES ASSUME NEW i \in 1 .. Len(ms2) PROVE Stored(a, i, ms2[i], S, X)
    BY DEF KeysOf
  <2>1. CASE i = m + 1
    BY <1>3, <1>5, <2>1
  <2>2. CASE i # m + 1
    <3>1. i \in 1 .. m
      BY <1>4, <1>5, <2>2
    <3> QED BY <1>1, <1>5, <3>1 DEF KeysOf, m
  <2> QED BY <2>1, <2>2
<1>7. Reached(a, Len(ms2), S)
  <2> SUFFICES ASSUME NEW s \in S, s.att = a PROVE s.hop \in 1 .. (m + 2)
    BY <1>4, <1>5 DEF Reached
  <2>1. s.hop \in 1 .. (m + 1)
    BY <1>1 DEF Reached
  <2> QED BY <1>4, <2>1
<1>8. Len(ms2) <= Len(Hops(a))
  BY <1>3, <1>4, <1>5, HopsType
<1> QED BY <1>5, <1>6, <1>7, <1>8 DEF ms2, m

\* It asks for the next hop.
LEMMA AsksNext ==
  ASSUME NEW a \in Attempts, NEW L, NEW h, NEW ms, NEW S, NEW X, Chain(a, L, h, ms, S, X),
         1 \in Positions(a), Upward(L, 1),
         NEW L2 \in [Positions(a) -> Linkage],
         \A j \in Positions(a) : j # 1 => L2[j] = L[j],
         L2[1].up = <<>>, L2[1].far = L[1].far,
         L2[1].down = <<>> \/ (/\ L2[1].down = <<RequestFor(a, Len(ms) + 2)>> /\ L[1].far = "open"
                               /\ Len(ms) + 1 < Len(Hops(a)))
  PROVE  Chain(a, L2, h, Append(ms, L[1].up[1].key), S, X)
<1> DEFINE m == Len(ms)  n == Len(Hops(a))  ms2 == Append(ms, L[1].up[1].key)
<1>1. Shape(a, L, h, ms) /\ Placed(a, L, h, m) /\ OnTheWayDown(a, L, h, m) /\ AtItsHop(a, L, h, S)
      /\ OnTheWayUp(a, L, h, m, S, X)
  BY DEF Chain, Token
<1>2. m \in Nat /\ n \in Nat /\ m <= n /\ Positions(a) = 1 .. n /\ \A j \in Positions(a) : j \in Nat
  BY ChainFacts
<1>3. /\ ms2 \in Seq(Nat) /\ Len(ms2) = m + 1 /\ Len(ms2) <= n
      /\ KeysOf(a, ms2, S, X) /\ Reached(a, Len(ms2), S)
  BY OneMore
<1> HIDE DEF m, n, ms2
<1>4. \A j \in Positions(a) : /\ Upward(L, j) => j = 1
                              /\ h[j].pc = "relay" => j = m + 1
                              /\ h[j].pc # "await" /\ ~Down(L, j) /\ ~Working(h, j) /\ h[j].pc # "mode"
  <2>1. \A j \in Positions(a) : (Upward(L, j) => j = 1) /\ (h[j].pc = "relay" => j = m + 1) /\ h[j].pc # "await"
    BY <1>1, <1>2 DEF OnTheWayUp
  <2>2. \A j \in Positions(a) : ~Down(L, j)
    BY <1>1 DEF OnTheWayDown
  <2>3. \A j \in Positions(a) : ~Working(h, j)
    BY <1>1 DEF AtItsHop
  <2> QED BY <1>1, <2>1, <2>2, <2>3 DEF Placed
<1>5. \A j \in Positions(a) : ~Upward(L2, j) /\ (Down(L2, j) => j = 1)
  BY <1>4 DEF Upward, Down
<1>6. Placed(a, L2, h, m + 1)
  BY <1>1, <1>2, <1>4, SMTT(60) DEF Placed
<1>7. OnTheWayDown(a, L2, h, m + 1)
  <2> SUFFICES ASSUME NEW i \in Positions(a), Down(L2, i)
      PROVE  /\ L2[i].far = "open" /\ L2[i].down = <<RequestFor(a, m + 1 + 1)>> /\ m + 1 < n
             /\ \/ h[i].pc = "mode" /\ i = m + 1 + 1
                \/ h[i].pc = "relay" /\ i = m + 1
                \/ h[i].pc = "proxy" /\ i < m + 1
             /\ \A j \in Positions(a) :
                  /\ ~Working(h, j) /\ ~Upward(L2, j) /\ (Down(L2, j) => j = i)
                  /\ h[j].pc = "await" => i = m + 1 + 1
                  /\ h[j].pc = "relay" => j = m + 1 /\ i <= m + 1
                  /\ h[j].pc = "proxy" => j < m + 1
    BY DEF OnTheWayDown, n
  <2>1. i = 1 /\ L2[1].far = "open" /\ L2[1].down = <<RequestFor(a, m + 2)>> /\ m + 1 < n /\ L[1].far = "open"
    BY <1>5 DEF Down, m, n
  <2>2. m + 2 = m + 1 + 1
    BY <1>2
  <2>3. h[1].pc \in {"relay", "proxy"}
    <3>1. h[1].pc \in PCs
      BY <1>1 DEF Shape, Worker
    <3>2. h[1].pc \notin {"none", "end"}
      BY <1>1, <2>1 DEF Placed
    <3> QED BY <3>1, <3>2, <1>4 DEF PCs, Working
  <2>4. \A j \in Positions(a) : h[j].pc = "proxy" => j <= m
    BY <1>1 DEF Placed
  <2> QED BY <1>2, <1>4, <1>5, <2>1, <2>2, <2>3, <2>4, SMTT(60)
<1>8. AtItsHop(a, L2, h, S) /\ OnTheWayUp(a, L2, h, m + 1, S, X)
  BY <1>4, <1>5 DEF AtItsHop, OnTheWayUp
<1> QED BY <1>1, <1>3, <1>6, <1>7, <1>8 DEF Chain, Token, Shape, ms2, m, n

\* A handler takes the request; nothing is on a link then.
LEMMA TakesRequest ==
  ASSUME NEW a \in Attempts, NEW L, NEW h, NEW ms, NEW S, NEW X, Chain(a, L, h, ms, S, X),
         NEW k \in Positions(a), h[k].pc = "mode",
         NEW L2 \in [Positions(a) -> Linkage], NEW h2 \in [Positions(a) -> Worker],
         \A j \in Positions(a) : j # k => L2[j] = L[j] /\ h2[j] = h[j],
         L2[k].down = <<>>, L2[k].up = L[k].up, L2[k].far = L[k].far,
         h2[k].pc = "alloc", h2[k].req = L[k].down
  PROVE  Chain(a, L2, h2, ms, S, X)
<1> DEFINE m == Len(ms)
<1>1. Shape(a, L, h, ms) /\ Placed(a, L, h, m) /\ OnTheWayDown(a, L, h, m) /\ AtItsHop(a, L, h, S)
      /\ OnTheWayUp(a, L, h, m, S, X) /\ KeysOf(a, ms, S, X) /\ Reached(a, m, S)
  BY DEF Chain, Token
<1>2. Down(L, k)
  BY <1>1 DEF Placed
<1>3. /\ L[k].down = <<RequestFor(a, m + 1)>> /\ k = m + 1
      /\ \A j \in Positions(a) :
           /\ ~Working(h, j) /\ ~Upward(L, j) /\ (Down(L, j) => j = k)
           /\ h[j].pc = "relay" => k <= m
  BY <1>1, <1>2 DEF OnTheWayDown
<1>4. m \in Nat /\ \A j \in Positions(a) : j \in Nat
  BY ChainFacts
<1>5. Shape(a, L2, h2, ms)
  BY <1>1 DEF Shape
<1> HIDE DEF m
<1>6. \A j \in Positions(a) : ~Down(L2, j) /\ ~Upward(L2, j) /\ h2[j].pc # "relay" /\ (Working(h2, j) => j = k)
  <2>1. ASSUME NEW j \in Positions(a), j # k
        PROVE  ~Down(L2, j) /\ ~Upward(L2, j) /\ h2[j].pc # "relay" /\ ~Working(h2, j)
    <3>1. L2[j] = L[j] /\ h2[j] = h[j]
      BY <2>1
    <3> QED BY <1>3, <1>4, <2>1, <3>1 DEF Down, Upward, Working
  <2>2. ~Down(L2, k) /\ ~Upward(L2, k) /\ h2[k].pc # "relay"
    BY <1>3 DEF Down, Upward
  <2> QED BY <2>1, <2>2
<1>7. Placed(a, L2, h2, m)
  BY <1>1, <1>3, <1>4, <1>6 DEF Placed, Down, Working
<1>8. OnTheWayDown(a, L2, h2, m) /\ AtItsHop(a, L2, h2, S) /\ OnTheWayUp(a, L2, h2, m, S, X)
  BY <1>6 DEF OnTheWayDown, AtItsHop, OnTheWayUp
<1> QED BY <1>1, <1>5, <1>7, <1>8 DEF Chain, Token, m

\* The session of the hop that is being agreed upon is stored.
LEMMA StoresSession ==
  ASSUME NEW a \in Attempts, NEW L, NEW h, NEW ms, NEW S, NEW X, Chain(a, L, h, ms, S, X),
         NEW k \in Positions(a), h[k].pc = "alloc",
         NEW h2 \in [Positions(a) -> Worker],
         \A j \in Positions(a) : j # k => h2[j] = h[j],
         h2[k].pc = "reply", h2[k].req = h[k].req, h2[k].key = h[k].key
  PROVE  Chain(a, L, h2, ms, S \cup {SessionOf(a, k, h[k].key)}, X)
<1> DEFINE m == Len(ms)  S2 == S \cup {SessionOf(a, k, h[k].key)}
<1>1. Shape(a, L, h, ms) /\ Placed(a, L, h, m) /\ OnTheWayDown(a, L, h, m) /\ AtItsHop(a, L, h, S)
      /\ OnTheWayUp(a, L, h, m, S, X) /\ KeysOf(a, ms, S, X) /\ Reached(a, m, S)
  BY DEF Chain, Token
<1>2. m \in Nat /\ k = m + 1 /\ \A j \in Positions(a) : j \in Nat
  BY <1>1, ChainFacts DEF Placed, Working
<1>3. \A j \in Positions(a) : ~Down(L, j) /\ ~Upward(L, j) /\ h[j].pc # "relay" /\ (Working(h, j) => j = k)
  BY <1>1, <1>2 DEF OnTheWayDown, AtItsHop, Placed, Working
<1>4. Shape(a, L, h2, ms)
  BY <1>1 DEF Shape
<1>5. KeysOf(a, ms, S2, X)
  BY <1>1 DEF KeysOf, Stored
<1>6. Reached(a, m, S2)
  BY <1>1, <1>2 DEF Reached, SessionOf
<1>7. SessionOf(a, k, h2[k].key) \in S2
  OBVIOUS
<1> HIDE DEF m, S2
<1>8. Placed(a, L, h2, m)
  BY <1>1, <1>2 DEF Placed, Working
<1>9. \A j \in Positions(a) : h2[j].pc # "relay" /\ (Working(h2, j) => j = k)
  BY <1>3 DEF Working
<1>10. OnTheWayDown(a, L, h2, m) /\ AtItsHop(a, L, h2, S2) /\ OnTheWayUp(a, L, h2, m, S2, X)
  BY <1>3, <1>7, <1>9 DEF OnTheWayDown, AtItsHop, OnTheWayUp
<1> QED BY <1>4, <1>5, <1>6, <1>8, <1>10 DEF Chain, Token, m, S2

\* The hop answers with the key of its session, and stays if it is to extend.
LEMMA Answers ==
  ASSUME NEW a \in Attempts, NEW L, NEW h, NEW ms, NEW S, NEW X, Chain(a, L, h, ms, S, X),
         NEW k \in Positions(a), h[k].pc = "reply",
         NEW L2 \in [Positions(a) -> Linkage], NEW h2 \in [Positions(a) -> Worker],
         \A j \in Positions(a) : j # k =>
           h2[j] = h[j] /\ L2[j].down = L[j].down /\ L2[j].far = L[j].far /\ L2[j].up \in {L[j].up, <<>>},
         L2[k].down = <<>>,
         L2[k].up = <<>> \/ L2[k].up = <<[node |-> Hops(a)[k], key |-> h[k].key]>>,
         \/ h2[k].pc = "relay" /\ h[k].req[1].more
         \/ h2[k].pc = "end" /\ L2[k].far # "open"
  PROVE  Chain(a, L2, h2, ms, S, X)
<1> DEFINE m == Len(ms)  n == Len(Hops(a))
<1>1. Shape(a, L, h, ms) /\ Placed(a, L, h, m) /\ OnTheWayDown(a, L, h, m) /\ AtItsHop(a, L, h, S)
      /\ OnTheWayUp(a, L, h, m, S, X) /\ KeysOf(a, ms, S, X) /\ Reached(a, m, S)
  BY DEF Chain, Token
<1>2. m \in Nat /\ n \in Nat /\ k = m + 1 /\ k <= n /\ \A j \in Positions(a) : j \in Nat
  BY <1>1, ChainFacts DEF Placed, Working
<1>3. \A j \in Positions(a) : ~Down(L, j) /\ ~Upward(L, j) /\ h[j].pc # "relay" /\ (Working(h, j) => j = k)
  BY <1>1, <1>2 DEF OnTheWayDown, AtItsHop, Placed, Working
<1>4. Shape(a, L2, h2, ms)
  BY <1>1 DEF Shape
<1>5. h[k].req = <<RequestFor(a, m + 1)>> /\ SessionOf(a, k, h[k].key) \in S
  BY <1>1 DEF Placed, AtItsHop, Working
<1>6. h2[k].pc = "relay" => k < n
  <2>0. h[k].req[1] = RequestFor(a, m + 1)
    BY <1>5
  <2>1. RequestFor(a, m + 1).more = (m + 1 < n)
    BY Zenon DEF RequestFor
  <2>2. h2[k].pc = "relay" => h[k].req[1].more
    OBVIOUS
  <2>3. h2[k].pc = "relay" => m + 1 < n
    BY <2>0, <2>1, <2>2, Zenon
  <2> QED BY <1>2, <2>3
<1> HIDE DEF m, n
<1>7. \A j \in Positions(a) : /\ ~Down(L2, j) /\ (Upward(L2, j) => j = k) /\ ~Working(h2, j)
                              /\ h2[j].pc = "relay" => j = k
  <2>1. ASSUME NEW j \in Positions(a), j # k
        PROVE  ~Down(L2, j) /\ ~Upward(L2, j) /\ ~Working(h2, j) /\ h2[j].pc # "relay"
    BY <1>3, <2>1 DEF Down, Upward, Working
  <2>2. ~Down(L2, k) /\ ~Working(h2, k)
    BY DEF Down, Working
  <2> QED BY <2>1, <2>2
<1>8. Placed(a, L2, h2, m)
  <2>1. ASSUME NEW j \in Positions(a)
        PROVE  /\ h2[j].pc # "mode" /\ ~Working(h2, j)
               /\ h2[j].pc = "relay" => j \in {m, m + 1} /\ j < n
               /\ h2[j].pc = "await" => j = m /\ j < n
               /\ h2[j].pc = "proxy" => j <= m /\ j < n
               /\ L2[j].far = "open" => h2[j].pc \notin {"none", "end"}
    <3>1. CASE j = k
      BY <1>2, <1>6, <1>7, <3>1
    <3>2. CASE j # k
      BY <1>1, <1>3, <1>7, <3>2 DEF Placed, n
    <3> QED BY <3>1, <3>2
  <2> QED BY <2>1 DEF Placed, n
<1>9. OnTheWayDown(a, L2, h2, m) /\ AtItsHop(a, L2, h2, S)
  BY <1>7 DEF OnTheWayDown, AtItsHop
<1>10. OnTheWayUp(a, L2, h2, m, S, X)
  <2> SUFFICES ASSUME NEW i \in Positions(a), Upward(L2, i)
      PROVE  /\ m < n
             /\ L2[i].up[1].node = Hops(a)[m + 1] /\ Stored(a, m + 1, L2[i].up[1].key, S, X)
             /\ \A j \in Positions(a) :
                  /\ Upward(L2, j) => j = i
                  /\ h2[j].pc = "relay" => j = m + 1
                  /\ h2[j].pc = "await" => j < i
    BY DEF OnTheWayUp, n
  <2>1. i = k /\ L2[k].up[1] = [node |-> Hops(a)[k], key |-> h[k].key]
    BY <1>7, OneFacts DEF Upward
  <2>2. \A j \in Positions(a) : h2[j].pc = "await" => j = m
    BY <1>1, <1>6, <1>7 DEF Placed
  <2> QED BY <1>2, <1>5, <1>7, <2>1, <2>2 DEF Stored
<1> QED BY <1>1, <1>4, <1>8, <1>9, <1>10 DEF Chain, Token, m

\* The last hop agreed upon connects to the next one and passes the request on.
LEMMA Extends ==
  ASSUME NEW a \in Attempts, NEW L, NEW h, NEW ms, NEW S, NEW X, Chain(a, L, h, ms, S, X),
         NEW k \in Positions(a), k + 1 \in Positions(a), h[k].pc = "relay", Down(L, k),
         NEW L2 \in [Positions(a) -> Linkage], NEW h2 \in [Positions(a) -> Worker],
         \A j \in Positions(a) : j # k /\ j # k + 1 => L2[j] = L[j] /\ h2[j] = h[j],
         L2[k].down = <<>>, L2[k].up = L[k].up, L2[k].far = L[k].far, h2[k].pc = "await",
         L2[k + 1].down = L[k].down, L2[k + 1].up = <<>>, L2[k + 1].far = "open", h2[k + 1].pc = "mode"
  PROVE  Chain(a, L2, h2, ms, S, X)
<1> DEFINE m == Len(ms)  n == Len(Hops(a))
<1>1. Shape(a, L, h, ms) /\ Placed(a, L, h, m) /\ OnTheWayDown(a, L, h, m) /\ AtItsHop(a, L, h, S)
      /\ OnTheWayUp(a, L, h, m, S, X) /\ KeysOf(a, ms, S, X) /\ Reached(a, m, S)
  BY DEF Chain, Token
<1>2. /\ L[k].down = <<RequestFor(a, m + 1)>> /\ m < n /\ k = m
      /\ \A j \in Positions(a) :
           /\ ~Working(h, j) /\ ~Upward(L, j) /\ (Down(L, j) => j = k)
           /\ h[j].pc = "await" => k = m + 1
           /\ h[j].pc = "relay" => j = m
           /\ h[j].pc = "proxy" => j < m
  BY <1>1 DEF OnTheWayDown
<1>3. m \in Nat /\ n \in Nat /\ \A j \in Positions(a) : j \in Nat
  BY ChainFacts
<1>4. Shape(a, L2, h2, ms)
  BY <1>1 DEF Shape
<1> HIDE DEF m, n
<1>5. \A j \in Positions(a) : /\ ~Upward(L2, j) /\ (Down(L2, j) => j = m + 1) /\ ~Working(h2, j)
                              /\ h2[j].pc # "relay"
                              /\ (h2[j].pc = "proxy" => j < m) /\ (h2[j].pc = "await" => j = m)
                              /\ (h2[j].pc = "mode" => j = m + 1)
                              /\ (L2[j].far = "open" => h2[j].pc \notin {"none", "end"})
  <2> TAKE j \in Positions(a)
  <2>1. CASE j = k
    BY <1>2, <1>3, <2>1 DEF Down, Upward, Working
  <2>2. CASE j = k + 1
    BY <1>2, <1>3, <2>2 DEF Down, Upward, Working
  <2>3. CASE j # k /\ j # k + 1
    <3>1. L2[j] = L[j] /\ h2[j] = h[j]
      BY <2>3
    <3>2. h[j].pc = "mode" => Down(L, j)
      BY <1>1 DEF Placed
    <3>3. L[j].far = "open" => h[j].pc \notin {"none", "end"}
      BY <1>1 DEF Placed
    <3> QED BY <1>2, <1>3, <2>3, <3>1, <3>2, <3>3 DEF Down, Upward, Working
  <2> QED BY <2>1, <2>2, <2>3
<1>6. Down(L2, m + 1) /\ m + 1 \in Positions(a) /\ h2[m + 1].pc = "mode" /\ L2[m + 1].far = "open"
      /\ L2[m + 1].down = <<RequestFor(a, m + 1)>>
  BY <1>2 DEF Down
<1>7. Placed(a, L2, h2, m)
  BY <1>2, <1>3, <1>5, <1>6 DEF Placed, n
<1>8. OnTheWayDown(a, L2, h2, m) /\ AtItsHop(a, L2, h2, S) /\ OnTheWayUp(a, L2, h2, m, S, X)
  BY <1>2, <1>3, <1>5, <1>6 DEF OnTheWayDown, AtItsHop, OnTheWayUp, n
<1> QED BY <1>1, <1>4, <1>7, <1>8 DEF Chain, Token, m

\* An answer goes one link up, or is lost there; who awaited it copies now.
LEMMA PassesUp ==
  ASSUME NEW a \in Attempts, NEW L, NEW h, NEW ms, NEW S, NEW X, Chain(a, L, h, ms, S, X),
         NEW k \in Positions(a), k + 1 \in Positions(a), h[k].pc \in {"await", "proxy"}, Upward(L, k + 1),
         NEW L2 \in [Positions(a) -> Linkage], NEW h2 \in [Positions(a) -> Worker],
         \A j \in Positions(a) : j # k => h2[j] = h[j],
         h2[k].pc = "proxy",
         \A j \in Positions(a) : L2[j].down = L[j].down /\ L2[j].far = L[j].far,
         \A j \in Positions(a) : j # k => L2[j].up \in {L[j].up, <<>>},
         L2[k + 1].up = <<>>,
         L2[k].up = <<>> \/ L2[k].up = <<L[k + 1].up[1]>>
  PROVE  Chain(a, L2, h2, ms, S, X)
<1> DEFINE m == Len(ms)  n == Len(Hops(a))
<1>1. Shape(a, L, h, ms) /\ Placed(a, L, h, m) /\ OnTheWayDown(a, L, h, m) /\ AtItsHop(a, L, h, S)
      /\ OnTheWayUp(a, L, h, m, S, X) /\ KeysOf(a, ms, S, X) /\ Reached(a, m, S)
  BY DEF Chain, Token
<1>2. /\ m < n
      /\ L[k + 1].up[1].node = Hops(a)[m + 1] /\ Stored(a, m + 1, L[k + 1].up[1].key, S, X)
      /\ \A j \in Positions(a) :
           /\ Upward(L, j) => j = k + 1
           /\ h[j].pc = "relay" => j = m + 1
           /\ h[j].pc = "await" => j < k + 1
  BY <1>1 DEF OnTheWayUp
<1>3. m \in Nat /\ n \in Nat /\ \A j \in Positions(a) : j \in Nat
  BY ChainFacts
<1>4. Shape(a, L2, h2, ms)
  BY <1>1 DEF Shape
<1>5. \A j \in Positions(a) : ~Down(L, j) /\ ~Working(h, j)
  BY <1>1, <1>2 DEF OnTheWayDown, AtItsHop
<1>6. k <= m /\ k < n
  BY <1>1, <1>3 DEF Placed
<1> HIDE DEF m, n
<1>7. \A j \in Positions(a) : /\ ~Down(L2, j) /\ ~Working(h2, j) /\ (Upward(L2, j) => j = k)
                              /\ h2[j].pc = "relay" => j = m + 1
                              /\ h2[j].pc = "await" => j < k
  <2> TAKE j \in Positions(a)
  <2>1. CASE j = k
    BY <1>5, <2>1 DEF Down, Working
  <2>2. CASE j # k
    <3>1. Upward(L2, j) => Upward(L, j) /\ j # k + 1
      BY <2>2 DEF Upward
    <3>2. h[j].pc = "await" => h[k].pc # "await"
      BY <1>1, <2>2, <1>3 DEF Placed
    <3>3. h[j].pc = "await" => j < k
      BY <1>2, <1>3, <2>2
    <3> QED BY <1>2, <1>5, <2>2, <3>1, <3>3 DEF Down, Working
  <2> QED BY <2>1, <2>2
<1>8. Placed(a, L2, h2, m)
  <2>1. ASSUME NEW j \in Positions(a)
        PROVE  /\ h2[j].pc # "mode" /\ ~Working(h2, j)
               /\ h2[j].pc = "relay" => j \in {m, m + 1} /\ j < n
               /\ h2[j].pc = "await" => j = m /\ j < n
               /\ h2[j].pc = "proxy" => j <= m /\ j < n
               /\ L2[j].far = "open" => h2[j].pc \notin {"none", "end"}
    <3>1. CASE j = k
      BY <1>6, <1>7, <3>1
    <3>2. CASE j # k
      BY <1>1, <1>5, <1>7, <3>2 DEF Placed, n
    <3> QED BY <3>1, <3>2
  <2> QED BY <2>1 DEF Placed, n
<1>9. OnTheWayDown(a, L2, h2, m) /\ AtItsHop(a, L2, h2, S)
  BY <1>7 DEF OnTheWayDown, AtItsHop
<1>10. L2[k].up # <<>> => L2[k].up[1] = L[k + 1].up[1]
  BY OneFacts
<1>11. OnTheWayUp(a, L2, h2, m, S, X)
  BY <1>2, <1>7, <1>10 DEF OnTheWayUp, Upward, n
<1> QED BY <1>1, <1>4, <1>8, <1>9, <1>11 DEF Chain, Token, m

\* A request goes one link down, or is lost there.
LEMMA PassesDown ==
  ASSUME NEW a \in Attempts, NEW L, NEW h, NEW ms, NEW S, NEW X, Chain(a, L, h, ms, S, X),
         NEW k \in Positions(a), k + 1 \in Positions(a), h[k].pc = "proxy", Down(L, k),
         NEW L2 \in [Positions(a) -> Linkage],
         \A j \in Positions(a) : j # k /\ j # k + 1 => L2[j] = L[j],
         L2[k].down = <<>>, L2[k].up = L[k].up, L2[k].far = L[k].far,
         L2[k + 1].up = L[k + 1].up, L2[k + 1].far = L[k + 1].far,
         L2[k + 1].down = IF L[k + 1].far = "open" THEN <<L[k].down[1]>> ELSE <<>>
  PROVE  Chain(a, L2, h, ms, S, X)
<1> DEFINE m == Len(ms)  n == Len(Hops(a))
<1>1. Shape(a, L, h, ms) /\ Placed(a, L, h, m) /\ OnTheWayDown(a, L, h, m) /\ AtItsHop(a, L, h, S)
      /\ OnTheWayUp(a, L, h, m, S, X) /\ KeysOf(a, ms, S, X) /\ Reached(a, m, S)
  BY DEF Chain, Token
<1>2. /\ L[k].down = <<RequestFor(a, m + 1)>> /\ m < n /\ k < m
      /\ \A j \in Positions(a) :
           /\ ~Working(h, j) /\ ~Upward(L, j) /\ (Down(L, j) => j = k)
           /\ h[j].pc = "await" => k = m + 1
           /\ h[j].pc = "relay" => j = m /\ k <= m
           /\ h[j].pc = "proxy" => j < m
  BY <1>1 DEF OnTheWayDown
<1>3. m \in Nat /\ n \in Nat /\ \A j \in Positions(a) : j \in Nat
  BY ChainFacts
<1>4. Shape(a, L2, h, ms)
  BY <1>1 DEF Shape
<1>5. L2[k + 1].down # <<>> => L2[k + 1].down = <<RequestFor(a, m + 1)>> /\ L2[k + 1].far = "open"
  BY <1>2, OneFacts
<1>6. \A j \in Positions(a) : h[j].pc # "await" /\ h[j].pc # "mode"
  BY <1>1, <1>2, <1>3 DEF Placed
<1>7. h[k + 1].pc \in PCs
  BY <1>1 DEF Shape, Worker
<1> HIDE DEF m, n
<1>8. \A j \in Positions(a) : ~Upward(L2, j) /\ (Down(L2, j) => j = k + 1) /\ L2[j].far = L[j].far
  <2> TAKE j \in Positions(a)
  <2>1. CASE j = k
    BY <1>2, <2>1 DEF Down, Upward
  <2>2. CASE j = k + 1
    BY <1>2, <2>2 DEF Upward
  <2>3. CASE j # k /\ j # k + 1
    BY <1>2, <2>3 DEF Down, Upward
  <2> QED BY <2>1, <2>2, <2>3
<1>9. Placed(a, L2, h, m)
  BY <1>1, <1>6, <1>8 DEF Placed
<1>10. L[k + 1].far = "open" => h[k + 1].pc \in {"relay", "proxy"}
  BY <1>1, <1>2, <1>6, <1>7 DEF Placed, Working, PCs
<1>11. OnTheWayDown(a, L2, h, m)
  <2> SUFFICES ASSUME NEW i \in Positions(a), Down(L2, i)
      PROVE  /\ L2[i].far = "open" /\ L2[i].down = <<RequestFor(a, m + 1)>> /\ m < n
             /\ \/ h[i].pc = "mode" /\ i = m + 1
                \/ h[i].pc = "relay" /\ i = m
                \/ h[i].pc = "proxy" /\ i < m
             /\ \A j \in Positions(a) :
                  /\ ~Working(h, j) /\ ~Upward(L2, j) /\ (Down(L2, j) => j = i)
                  /\ h[j].pc = "await" => i = m + 1
                  /\ h[j].pc = "relay" => j = m /\ i <= m
                  /\ h[j].pc = "proxy" => j < m
    BY DEF OnTheWayDown, n
  <2>1. i = k + 1 /\ L2[i].far = "open" /\ L2[i].down = <<RequestFor(a, m + 1)>>
    BY <1>5, <1>8 DEF Down
  <2>2. h[i].pc \in {"relay", "proxy"} /\ i <= m
    BY <1>2, <1>3, <1>8, <1>10, <2>1
  <2> QED BY <1>2, <1>3, <1>6, <1>8, <2>1, <2>2
<1>12. AtItsHop(a, L2, h, S) /\ OnTheWayUp(a, L2, h, m, S, X)
  BY <1>2, <1>8 DEF AtItsHop, OnTheWayUp
<1> QED BY <1>1, <1>4, <1>9, <1>11, <1>12 DEF Chain, Token, m

\* A session of another attempt changes nothing.
LEMMA OthersSession ==
  ASSUME NEW a \in Attempts, NEW L, NEW h, NEW ms, NEW S, NEW X, Chain(a, L, h, ms, S, X),
         NEW s, s.att # a
  PROVE  Chain(a, L, h, ms, S \cup {s}, X)
<1> DEFINE m == Len(ms)
<1>1. Shape(a, L, h, ms) /\ Placed(a, L, h, m) /\ OnTheWayDown(a, L, h, m) /\ AtItsHop(a, L, h, S)
      /\ OnTheWayUp(a, L, h, m, S, X) /\ KeysOf(a, ms, S, X) /\ Reached(a, m, S)
  BY DEF Chain, Token
<1>2. \A i, k : Stored(a, i, k, S, X) => Stored(a, i, k, S \cup {s}, X)
  BY DEF Stored
<1>3. AtItsHop(a, L, h, S \cup {s})
  BY <1>1 DEF AtItsHop
<1>4. OnTheWayUp(a, L, h, m, S \cup {s}, X)
  BY <1>1, <1>2 DEF OnTheWayUp
<1>5. KeysOf(a, ms, S \cup {s}, X)
  BY <1>1, <1>2 DEF KeysOf
<1>6. Reached(a, m, S \cup {s})
  BY <1>1 DEF Reached
<1> QED BY <1>1, <1>3, <1>4, <1>5, <1>6 DEF Chain, Token

\* The first connection is made with its request.
LEMMA Begins ==
  ASSUME NEW a \in Attempts, NEW S, NEW X, Reached(a, 0, S),
         NEW L2 \in [Positions(a) -> Linkage], NEW h2 \in [Positions(a) -> Worker],
         \A j \in Positions(a) : j # 1 => L2[j] = NoLink /\ h2[j] = NoHandler,
         \/ L2[1].down = FirstRequest(a) /\ L2[1].up = <<>> /\ L2[1].far = "open" /\ h2[1].pc = "mode"
         \/ L2[1] = NoLink /\ h2[1] = NoHandler
  PROVE  Chain(a, L2, h2, <<>>, S, X)
<1>1. 1 \in Positions(a) /\ Len(Hops(a)) \in Nat \ {0} /\ \A j \in Positions(a) : j \in Nat \ {0}
  BY HopsType DEF Positions
<1>2. <<>> \in Seq(Nat) /\ Len(<<>>) = 0
  OBVIOUS
<1>3. Shape(a, L2, h2, <<>>)
  BY <1>1, <1>2 DEF Shape
<1>4. FirstRequest(a) = <<RequestFor(a, 0 + 1)>> /\ FirstRequest(a) # <<>>
  BY DEF FirstRequest
<1>5. \A j \in Positions(a) :
        /\ ~Upward(L2, j) /\ (Down(L2, j) => j = 1 /\ h2[1].pc = "mode" /\ L2[1].down = FirstRequest(a) /\ L2[1].far = "open")
        /\ h2[j].pc \in {"none", "mode"} /\ (h2[j].pc = "mode" => Down(L2, j))
        /\ (L2[j].far = "open" => h2[j].pc = "mode")
  <2>1. NoLink.down = <<>> /\ NoLink.up = <<>> /\ NoLink.far = "none" /\ NoHandler.pc = "none"
    BY DEF NoLink, NoHandler
  <2> TAKE j \in Positions(a)
  <2>2. CASE j # 1 \/ (L2[1] = NoLink /\ h2[1] = NoHandler)
    <3>1. L2[j] = NoLink /\ h2[j] = NoHandler
      BY <2>2
    <3> QED BY <2>1, <3>1 DEF Upward, Down
  <2>3. CASE j = 1 /\ ~(L2[1] = NoLink /\ h2[1] = NoHandler)
    BY <1>4, <2>3 DEF Upward, Down
  <2> QED BY <2>2, <2>3
<1>6. Placed(a, L2, h2, 0)
  BY <1>5 DEF Placed, Working
<1>7. OnTheWayDown(a, L2, h2, 0) /\ AtItsHop(a, L2, h2, S) /\ OnTheWayUp(a, L2, h2, 0, S, X)
  BY <1>1, <1>4, <1>5 DEF OnTheWayDown, AtItsHop, OnTheWayUp, Working
<1>8. KeysOf(a, <<>>, S, X)
  BY DEF KeysOf
<1> QED BY <1>2, <1>3, <1>6, <1>7, <1>8 DEF Chain, Token
-----------------------------------------------------------------------------
(* The program                                                             *)

\* What is left to show of a step of one attempt.
LEMMA OneAttempt ==
  ASSUME ChainInv, NEW a \in Attempts,
         DOMAIN link' = Attempts /\ DOMAIN handler' = Attempts /\ DOMAIN masters' = Attempts,
         client' \in [Attempts -> {"not begun", "waits", "ready", "failed"}],
         client'[a] # "not begun",
         \A b \in Attempts : b # a =>
           link'[b] = link[b] /\ handler'[b] = handler[b] /\ masters'[b] = masters[b] /\ client'[b] = client[b],
         \/ sessions' = sessions
         \/ \E s \in Session : s.att = a /\ sessions' = sessions \cup {s},
         Chain(a, link'[a], handler'[a], masters'[a], sessions', lost'),
         UNCHANGED <<up, key, rotations, crashes, lost>>
  PROVE  ChainInv'
<1>1. ASSUME NEW b \in Attempts, b # a
      PROVE  Chain(b, link'[b], handler'[b], masters'[b], sessions', lost')
  <2>1. Chain(b, link'[b], handler'[b], masters'[b], sessions, lost)
    BY <1>1 DEF ChainInv
  <2>2. ASSUME NEW s \in Session, s.att = a
        PROVE  Chain(b, link'[b], handler'[b], masters'[b], sessions \cup {s}, lost)
    BY <1>1, <2>1, <2>2, OthersSession
  <2> QED BY <2>1, <2>2
<1>2. \A b \in Attempts : Begun(b, client'[b], link'[b], handler'[b], masters'[b])
  <2> TAKE b \in Attempts
  <2>1. CASE b = a
    BY <2>1 DEF Begun
  <2>2. CASE b # a
    BY <2>2 DEF ChainInv
  <2> QED BY <2>1, <2>2
<1>3. sessions' \subseteq Session
  BY ZenonT(60) DEF ChainInv
<1> QED BY <1>1, <1>2, <1>3 DEF ChainInv

LEMMA HangupOps ==
  ASSUME NEW a \in Attempts, NEW L \in [Positions(a) -> Linkage], NEW k \in Nat
  PROVE  /\ Hangup(L, k) \in [Positions(a) -> Linkage]
         /\ \A i \in Positions(a) :
              Hangup(L, k)[i] = IF i = k THEN CloseFar(L[i]) ELSE IF i = k + 1 THEN CloseNear(L[i]) ELSE L[i]
<1>1. \A i \in Positions(a) : L[i] \in Linkage /\ CloseFar(L[i]) \in Linkage /\ CloseNear(L[i]) \in Linkage
  BY LinkOps
<1> QED BY <1>1 DEF Hangup

LEMMA FirstPosition ==
  ASSUME NEW a \in Attempts
  PROVE  1 \in Positions(a) /\ Hops(a)[1] \in Nodes
  BY HopsType DEF Positions

LEMMA LinkedOps ==
  ASSUME NEW d \in One(Request)
  PROVE  LET l == [NoLink EXCEPT !.near = "open", !.far = "open", !.down = d]
         IN  l \in Linkage /\ l.far = "open" /\ l.down = d /\ l.up = <<>>
<1>1. <<>> \in One(Answer)
  BY DEF One
<1> QED BY <1>1 DEF NoLink, Linkage, Ends

LEMMA BeginChain ==
  ASSUME ChainInv, NEW a \in Attempts, Begin(a)
  PROVE  ChainInv'
<1> DEFINE L2 == [link[a] EXCEPT ![1] = [NoLink EXCEPT !.near = "open", !.far = "open", !.down = FirstRequest(a)]]
           h2 == [handler[a] EXCEPT ![1] = [NoHandler EXCEPT !.pc = "mode"]]
<1>1. /\ Chain(a, link[a], handler[a], masters[a], sessions, lost)
      /\ masters[a] = <<>> /\ \A k \in Positions(a) : link[a][k] = NoLink /\ handler[a][k] = NoHandler
      /\ DOMAIN link = Attempts /\ DOMAIN handler = Attempts /\ DOMAIN masters = Attempts
      /\ client \in [Attempts -> {"not begun", "waits", "ready", "failed"}]
  BY DEF Begin, ChainInv, Begun
<1>2. /\ link[a] \in [Positions(a) -> Linkage] /\ handler[a] \in [Positions(a) -> Worker]
      /\ Reached(a, 0, sessions)
  BY <1>1 DEF Chain, Shape
<1>3. UNCHANGED <<up, key, sessions, masters, rotations, crashes, lost>>
  BY DEF Begin
<1>4. CASE client' = [client EXCEPT ![a] = "waits"] /\ link' = [link EXCEPT ![a] = Linked(@, 1, FirstRequest(a))]
           /\ handler' = [handler EXCEPT ![a] = Accepted(@, 1)]
  <2>1. link' = [link EXCEPT ![a] = L2] /\ handler' = [handler EXCEPT ![a] = h2]
    BY <1>4 DEF Linked, Accepted
  <2>2. RequestFor(a, 1) \in Request /\ "mode" \in PCs
    BY RequestType DEF PCs
  <2>3. FirstRequest(a) \in One(Request)
    BY <2>2, OneFacts DEF FirstRequest
  <2>4. LET l == [NoLink EXCEPT !.near = "open", !.far = "open", !.down = FirstRequest(a)]
        IN  l \in Linkage /\ l.far = "open" /\ l.down = FirstRequest(a) /\ l.up = <<>>
    BY <2>3, LinkedOps
  <2>5. [NoHandler EXCEPT !.pc = "mode"].pc = "mode" /\ [NoHandler EXCEPT !.pc = "mode"] \in Worker
    BY DEF NoHandler, Worker, PCs, One
  <2>6. /\ L2 \in [Positions(a) -> Linkage] /\ h2 \in [Positions(a) -> Worker]
        /\ \A j \in Positions(a) : j # 1 => L2[j] = NoLink /\ h2[j] = NoHandler
        /\ L2[1].down = FirstRequest(a) /\ L2[1].up = <<>> /\ L2[1].far = "open" /\ h2[1].pc = "mode"
    BY <1>1, <1>2, <2>4, <2>5, FirstPosition
  <2> HIDE DEF L2, h2
  <2>7. Chain(a, L2, h2, <<>>, sessions, lost)
    BY <1>2, <2>6, Begins
  <2>8. /\ link'[a] = L2 /\ handler'[a] = h2 /\ masters'[a] = <<>> /\ sessions' = sessions /\ lost' = lost
        /\ client'[a] = "waits" /\ client' \in [Attempts -> {"not begun", "waits", "ready", "failed"}]
        /\ DOMAIN link' = Attempts /\ DOMAIN handler' = Attempts /\ DOMAIN masters' = Attempts
        /\ \A b \in Attempts : b # a =>
             link'[b] = link[b] /\ handler'[b] = handler[b] /\ masters'[b] = masters[b] /\ client'[b] = client[b]
    BY <1>1, <1>3, <1>4, <2>1
  <2>9. Chain(a, link'[a], handler'[a], masters'[a], sessions', lost')
    BY <2>7, <2>8
  <2> QED BY <1>3, <2>8, <2>9, OneAttempt
<1>5. CASE client' = [client EXCEPT ![a] = "failed"] /\ UNCHANGED <<link, handler>>
  BY <1>1, <1>3, <1>5, OneAttempt
<1> QED BY <1>4, <1>5 DEF Begin

LEMMA FailsChain ==
  ASSUME ChainInv, NEW a \in Attempts, NEW L \in [Positions(a) -> Linkage],
         \A j \in Positions(a) : /\ L[j].down = link[a][j].down /\ L[j].far = link[a][j].far
                                 /\ L[j].up \in {link[a][j].up, <<>>}
  PROVE  Chain(a, Hangup(L, 0), handler[a], masters[a], sessions, lost)
<1> DEFINE L2 == Hangup(L, 0)
<1>1. Chain(a, link[a], handler[a], masters[a], sessions, lost)
  BY DEF ChainInv
<1>2. handler[a] \in [Positions(a) -> Worker] /\ \A j \in Positions(a) : j \in Nat \ {0} /\ L[j] \in Linkage
  BY <1>1, HopsType DEF Chain, Shape
<1>3. L2 \in [Positions(a) -> Linkage] /\ \A j \in Positions(a) : L2[j] = CloseNear(L[j]) \/ L2[j] = L[j]
  BY <1>2, HangupOps
<1> HIDE DEF L2
<1>4. \A j \in Positions(a) : /\ L2[j].down = link[a][j].down /\ L2[j].far = link[a][j].far
                              /\ L2[j].up \in {link[a][j].up, <<>>}
  BY <1>2, <1>3, LinkOps
<1>5. \A j \in Positions(a) : handler[a][j].pc = "end" => link[a][j].far # "open" /\ link[a][j].down = <<>>
  BY <1>1 DEF Chain, Token, Placed, OnTheWayDown, Down
<1> DEFINE h == handler[a]
<1>6. \A j \in Positions(a) :
        /\ L2[j].down \in {link[a][j].down, <<>>} /\ L2[j].up \in {link[a][j].up, <<>>}
        /\ h[j] = h[j] \/ h[j].pc = "end"
        /\ h[j].pc = "end" => L2[j].far # "open" /\ L2[j].down = <<>>
        /\ h[j].pc # "end" => L2[j].far = link[a][j].far /\ L2[j].down = link[a][j].down
        /\ h[j].pc = "reply" /\ SessionOf(a, j, h[j].key) \in sessions => SessionOf(a, j, h[j].key) \in sessions
  BY <1>4, <1>5
<1>7. sessions \in SUBSET sessions
      /\ \A i \in Positions(a), k \in Nat : Stored(a, i, k, sessions, lost) => Stored(a, i, k, sessions, lost)
  OBVIOUS
<1> HIDE DEF h
<1>8. h \in [Positions(a) -> Worker] /\ Chain(a, link[a], h, masters[a], sessions, lost)
  BY <1>1, <1>2 DEF h
<1>9. Chain(a, L2, h, masters[a], sessions, lost)
  BY <1>3, <1>6, <1>7, <1>8, LessLeft
<1> QED BY <1>9 DEF L2, h

LEMMA ReceivesChain ==
  ASSUME ChainInv, NEW a \in Attempts, Receives(a)
  PROVE  ChainInv'
<1> DEFINE L == link[a]  h == handler[a]  ms == masters[a]  i == Len(ms) + 1  answer == Head(L[1].up)
           read == [L EXCEPT ![1] = [L[1] EXCEPT !.up = <<>>]]
<1>1. /\ Chain(a, L, h, ms, sessions, lost) /\ Upward(L, 1) /\ 1 \in Positions(a) /\ client[a] = "waits"
      /\ DOMAIN link = Attempts /\ DOMAIN handler = Attempts /\ DOMAIN masters = Attempts
      /\ client \in [Attempts -> {"not begun", "waits", "ready", "failed"}]
      /\ UNCHANGED <<up, key, sessions, handler, rotations, crashes, lost>>
  BY FirstPosition DEF Receives, ChainInv, Upward
<1>2. /\ L \in [Positions(a) -> Linkage] /\ L[1] \in Linkage /\ L[1].up # <<>>
      /\ answer = L[1].up[1] /\ Tail(L[1].up) = <<>> /\ Len(ms) \in Nat
  <2> HIDE DEF L, h, ms, read
  <2>1. /\ Len(ms) \in Nat /\ L \in [Positions(a) -> Linkage]
        /\ \A k \in Positions(a) : L[k].up # <<>> => Head(L[k].up) = L[k].up[1] /\ Tail(L[k].up) = <<>>
    <3>1. Chain(a, L, h, ms, sessions, lost)
      BY <1>1
    <3> QED BY ONLY <3>1, ChainFacts
  <2> QED BY <1>1, <2>1 DEF Upward
<1>3. /\ read \in [Positions(a) -> Linkage] /\ read[1].up = <<>> /\ read[1].far = L[1].far
      /\ read[1].down = L[1].down /\ \A j \in Positions(a) : j # 1 => read[j] = L[j]
  BY <1>1, <1>2, TakeOps
<1>4. [link[a] EXCEPT ![1].up = Tail(@)] = read
  BY <1>2
<1>5. L[1].down = <<>>
  BY <1>1 DEF Chain, Token, OnTheWayDown, Down
<1>6. RequestFor(a, i + 1) \in Request
  BY <1>2, RequestType
<1>7. CASE /\ masters' = [masters EXCEPT ![a] = Append(@, answer.key)]
           /\ i = Len(Hops(a))
           /\ client' = [client EXCEPT ![a] = "ready"]
           /\ link' = [link EXCEPT ![a] = Hangup(read, 0)]
  <2>1. Chain(a, read, h, Append(ms, answer.key), sessions, lost)
    <3> HIDE DEF read, L, h, ms
    <3> QED BY <1>1, <1>2, <1>3, <1>5, AsksNext
  <2> DEFINE ms2 == Append(ms, answer.key)  L2 == Hangup(read, 0)
  <2>2. \A j \in Positions(a) : h[j].pc = "end" => read[j].far # "open" /\ read[j].down = <<>>
    <3> HIDE DEF read, L, h, ms
    <3> QED BY <2>1 DEF Chain, Token, Placed, OnTheWayDown, Down
  <2>3. \A j \in Positions(a) : j \in Nat \ {0} /\ read[j] \in Linkage
    BY <1>3, HopsType
  <2>4. /\ L2 \in [Positions(a) -> Linkage]
        /\ \A j \in Positions(a) : L2[j] = CloseNear(read[j]) \/ L2[j] = read[j]
    <3> HIDE DEF read
    <3>1. 0 \in Nat
      OBVIOUS
    <3>2. /\ L2 \in [Positions(a) -> Linkage]
          /\ \A j \in Positions(a) :
               L2[j] = IF j = 0 THEN CloseFar(read[j]) ELSE IF j = 0 + 1 THEN CloseNear(read[j]) ELSE read[j]
      BY ONLY <1>3, <3>1, HangupOps, ZenonT(60)
    <3>3. \A j \in Positions(a) : j # 0
      BY <2>3
    <3> QED BY ONLY <3>2, <3>3
  <2> HIDE DEF L2, read, L, h, ms2
  <2>5. \A j \in Positions(a) :
          /\ L2[j].down \in {read[j].down, <<>>} /\ L2[j].up \in {read[j].up, <<>>}
          /\ h[j] = h[j] \/ h[j].pc = "end"
          /\ h[j].pc = "end" => L2[j].far # "open" /\ L2[j].down = <<>>
          /\ h[j].pc # "end" => L2[j].far = read[j].far /\ L2[j].down = read[j].down
          /\ h[j].pc = "reply" /\ SessionOf(a, j, h[j].key) \in sessions => SessionOf(a, j, h[j].key) \in sessions
    BY <2>2, <2>3, <2>4, LinkOps
  <2>6. h \in [Positions(a) -> Worker] /\ sessions \in SUBSET sessions
        /\ \A j \in Positions(a), k \in Nat : Stored(a, j, k, sessions, lost) => Stored(a, j, k, sessions, lost)
    BY <1>1, ChainFacts
  <2>7. Chain(a, L2, h, ms2, sessions, lost)
    BY <2>1, <2>4, <2>5, <2>6, LessLeft DEF ms2
  <2>8. /\ link'[a] = L2 /\ handler'[a] = h /\ masters'[a] = ms2 /\ sessions' = sessions /\ lost' = lost
        /\ client'[a] = "ready" /\ client' \in [Attempts -> {"not begun", "waits", "ready", "failed"}]
        /\ DOMAIN link' = Attempts /\ DOMAIN handler' = Attempts /\ DOMAIN masters' = Attempts
        /\ \A b \in Attempts : b # a =>
             link'[b] = link[b] /\ handler'[b] = handler[b] /\ masters'[b] = masters[b] /\ client'[b] = client[b]
    BY <1>1, <1>7 DEF ms2, L2, h
  <2>9. Chain(a, link'[a], handler'[a], masters'[a], sessions', lost')
    BY <2>7, <2>8
  <2> QED BY <1>1, <2>8, <2>9, OneAttempt
<1>8. CASE /\ masters' = [masters EXCEPT ![a] = Append(@, answer.key)]
           /\ i # Len(Hops(a))
           /\ UNCHANGED client
           /\ link' = [link EXCEPT ![a] = [read EXCEPT ![1] = SendDown(@, RequestFor(a, i + 1))]]
  <2> DEFINE L2 == [read EXCEPT ![1] = SendDown(read[1], RequestFor(a, i + 1))]  ms2 == Append(ms, answer.key)
  <2>1. i < Len(Hops(a)) /\ i + 1 = Len(ms) + 2
    <3>1. Len(ms) < Len(Hops(a))
      BY <1>1 DEF Chain, Token, OnTheWayUp
    <3> QED BY <1>2, <1>8, <3>1, HopsType
  <2>2. read[1] \in Linkage
    BY <1>1, <1>3
  <2> HIDE DEF read, L, h, ms
  <2>3. /\ L2 \in [Positions(a) -> Linkage] /\ L2[1].up = <<>> /\ L2[1].far = L[1].far
        /\ L2[1].down = IF L[1].far = "open" THEN <<RequestFor(a, i + 1)>> ELSE <<>>
        /\ \A j \in Positions(a) : j # 1 => L2[j] = L[j]
    <3> DEFINE l == SendDown(read[1], RequestFor(a, i + 1))
    <3>1. l \in Linkage /\ l.far = L[1].far /\ l.up = <<>>
          /\ l.down = IF L[1].far = "open" THEN <<RequestFor(a, i + 1)>> ELSE <<>>
      BY <1>3, <1>5, <1>6, <2>2, SendOps
    <3> HIDE DEF l
    <3>2. L2 = [read EXCEPT ![1] = l]
      BY DEF l
    <3> QED BY <1>1, <1>3, <3>1, <3>2
  <2> HIDE DEF L2
  <2>4. Chain(a, L2, h, Append(ms, L[1].up[1].key), sessions, lost)
    BY <1>1, <2>1, <2>3, AsksNext
  <2>5. /\ link'[a] = L2 /\ handler'[a] = h /\ masters'[a] = ms2 /\ sessions' = sessions /\ lost' = lost
        /\ client'[a] = "waits" /\ client' \in [Attempts -> {"not begun", "waits", "ready", "failed"}]
        /\ DOMAIN link' = Attempts /\ DOMAIN handler' = Attempts /\ DOMAIN masters' = Attempts
        /\ \A b \in Attempts : b # a =>
             link'[b] = link[b] /\ handler'[b] = handler[b] /\ masters'[b] = masters[b] /\ client'[b] = client[b]
    BY <1>1, <1>8 DEF L2, ms, h
  <2>6. Chain(a, link'[a], handler'[a], masters'[a], sessions', lost')
    BY <1>2, <2>4, <2>5
  <2> QED BY <1>1, <2>5, <2>6, OneAttempt
<1>9. CASE client' = [client EXCEPT ![a] = "failed"] /\ link' = [link EXCEPT ![a] = Hangup(read, 0)] /\ UNCHANGED masters
  <2>1. \A j \in Positions(a) : /\ read[j].down = link[a][j].down /\ read[j].far = link[a][j].far
                                /\ read[j].up \in {link[a][j].up, <<>>}
    BY <1>3
  <2> HIDE DEF read
  <2>2. Chain(a, Hangup(read, 0), handler[a], masters[a], sessions, lost)
    BY <1>3, <2>1, FailsChain
  <2>3. /\ link'[a] = Hangup(read, 0) /\ handler'[a] = handler[a] /\ masters'[a] = masters[a] /\ sessions' = sessions /\ lost' = lost
        /\ client'[a] = "failed" /\ client' \in [Attempts -> {"not begun", "waits", "ready", "failed"}]
        /\ DOMAIN link' = Attempts /\ DOMAIN handler' = Attempts /\ DOMAIN masters' = Attempts
        /\ \A b \in Attempts : b # a =>
             link'[b] = link[b] /\ handler'[b] = handler[b] /\ masters'[b] = masters[b] /\ client'[b] = client[b]
    BY <1>1, <1>9
  <2>4. Chain(a, link'[a], handler'[a], masters'[a], sessions', lost')
    BY <2>2, <2>3
  <2> QED BY <1>1, <2>3, <2>4, OneAttempt
<1> QED BY <1>4, <1>7, <1>8, <1>9 DEF Receives

LEMMA FailChain ==
  ASSUME ChainInv, NEW a \in Attempts, Fails(a)
  PROVE  ChainInv'
<1>1. /\ Chain(a, link[a], handler[a], masters[a], sessions, lost)
      /\ DOMAIN link = Attempts /\ DOMAIN handler = Attempts /\ DOMAIN masters = Attempts
      /\ client \in [Attempts -> {"not begun", "waits", "ready", "failed"}]
      /\ UNCHANGED <<up, key, sessions, masters, handler, rotations, crashes, lost>>
  BY DEF Fails, ChainInv
<1>2. link[a] \in [Positions(a) -> Linkage]
  BY <1>1 DEF Chain, Shape
<1>3. Chain(a, Hangup(link[a], 0), handler[a], masters[a], sessions, lost)
  BY <1>2, FailsChain
<1>4. /\ link'[a] = Hangup(link[a], 0) /\ client'[a] = "failed"
      /\ client' \in [Attempts -> {"not begun", "waits", "ready", "failed"}] /\ DOMAIN link' = Attempts
      /\ \A b \in Attempts : b # a => link'[b] = link[b] /\ client'[b] = client[b]
  BY <1>1 DEF Fails
<1> QED BY <1>1, <1>3, <1>4, OneAttempt
-----------------------------------------------------------------------------
(* The handlers                                                            *)

\* What is known of an attempt one of whose handlers is at work.
LEMMA AttemptFacts ==
  ASSUME ChainInv, NEW a \in Attempts, NEW k \in Positions(a), handler[a][k].pc # "none"
  PROVE  /\ Chain(a, link[a], handler[a], masters[a], sessions, lost)
         /\ link[a] \in [Positions(a) -> Linkage] /\ handler[a] \in [Positions(a) -> Worker]
         /\ link[a][k] \in Linkage /\ handler[a][k] \in Worker /\ k \in Nat \ {0}
         /\ client[a] # "not begun"
<1>1. Chain(a, link[a], handler[a], masters[a], sessions, lost) /\ Begun(a, client[a], link[a], handler[a], masters[a])
  BY DEF ChainInv
<1>2. link[a] \in [Positions(a) -> Linkage] /\ handler[a] \in [Positions(a) -> Worker]
  BY <1>1 DEF Chain, Shape
<1>3. NoHandler.pc = "none"
  BY DEF NoHandler
<1> QED BY <1>1, <1>2, <1>3, HopsType DEF Begun

\* What is left to show of a step of a handler.
LEMMA HandlerStep ==
  ASSUME ChainInv, NEW a \in Attempts, NEW k \in Positions(a), handler[a][k].pc # "none",
         NEW L2, NEW h2, link' = [link EXCEPT ![a] = L2], handler' = [handler EXCEPT ![a] = h2],
         \/ sessions' = sessions
         \/ \E s \in Session : s.att = a /\ sessions' = sessions \cup {s},
         Chain(a, L2, h2, masters[a], sessions', lost),
         UNCHANGED <<up, key, client, masters, rotations, crashes, lost>>
  PROVE  ChainInv'
<1>1. /\ DOMAIN link = Attempts /\ DOMAIN handler = Attempts /\ DOMAIN masters = Attempts
      /\ client \in [Attempts -> {"not begun", "waits", "ready", "failed"}]
  BY DEF ChainInv
<1>2. /\ link'[a] = L2 /\ handler'[a] = h2 /\ masters'[a] = masters[a] /\ lost' = lost
      /\ client'[a] # "not begun" /\ client' \in [Attempts -> {"not begun", "waits", "ready", "failed"}]
      /\ DOMAIN link' = Attempts /\ DOMAIN handler' = Attempts /\ DOMAIN masters' = Attempts
      /\ \A b \in Attempts : b # a =>
           link'[b] = link[b] /\ handler'[b] = handler[b] /\ masters'[b] = masters[b] /\ client'[b] = client[b]
  BY <1>1, AttemptFacts
<1>3. Chain(a, link'[a], handler'[a], masters'[a], sessions', lost')
  BY <1>2
<1> QED BY <1>2, <1>3, OneAttempt

\* The same for a step that only moves a frame.
LEMMA CopyStep ==
  ASSUME ChainInv, NEW a \in Attempts, NEW k \in Positions(a), handler[a][k].pc # "none",
         NEW L2, link' = [link EXCEPT ![a] = L2], Chain(a, L2, handler[a], masters[a], sessions, lost),
         UNCHANGED <<up, key, sessions, client, masters, handler, rotations, crashes, lost>>
  PROVE  ChainInv'
<1>1. /\ DOMAIN link = Attempts /\ DOMAIN handler = Attempts /\ DOMAIN masters = Attempts
      /\ client \in [Attempts -> {"not begun", "waits", "ready", "failed"}]
  BY DEF ChainInv
<1>2. /\ link'[a] = L2 /\ DOMAIN link' = Attempts /\ client'[a] # "not begun"
      /\ \A b \in Attempts : b # a => link'[b] = link[b]
  BY <1>1, AttemptFacts
<1>3. Chain(a, link'[a], handler'[a], masters'[a], sessions', lost')
  BY <1>2
<1> QED BY <1>1, <1>2, <1>3, OneAttempt

\* A handler returns and closes its two ends, on whatever path.
LEMMA ReturnChain ==
  ASSUME ChainInv, NEW a \in Attempts, NEW k \in Positions(a), handler[a][k].pc # "none", Return(a, k),
         UNCHANGED <<up, key, sessions, client, masters, rotations, crashes, lost>>
  PROVE  ChainInv'
<1> DEFINE L == link[a]  h == handler[a]  L2 == Hangup(L, k)  h2 == [h EXCEPT ![k] = Ended]
<1>1. /\ Chain(a, L, h, masters[a], sessions, lost)
      /\ L \in [Positions(a) -> Linkage] /\ h \in [Positions(a) -> Worker] /\ k \in Nat \ {0}
  BY AttemptFacts
<1>2. link' = [link EXCEPT ![a] = L2] /\ handler' = [handler EXCEPT ![a] = h2]
  BY DEF Return
<1>3. Ended \in Worker /\ Ended.pc = "end"
  BY WorkerOps DEF Ended, NoHandler, Worker, PCs, One
<1>4. /\ h2 \in [Positions(a) -> Worker] /\ h2[k].pc = "end"
      /\ \A j \in Positions(a) : j # k => h2[j] = h[j]
  BY <1>1, <1>3
<1>5. \A j \in Positions(a) : L[j] \in Linkage /\ (h[j].pc = "end" => L[j].far # "open" /\ L[j].down = <<>>)
                              /\ (L[j].far # "open" => L[j].down = <<>>)
  BY <1>1 DEF Chain, Token, Placed, OnTheWayDown, Down
<1>6. /\ L2 \in [Positions(a) -> Linkage] /\ L2[k] = CloseFar(L[k])
      /\ \A j \in Positions(a) : j # k => L2[j] = CloseNear(L[j]) \/ L2[j] = L[j]
  <2> HIDE DEF L
  <2> QED BY ONLY <1>1, HangupOps
<1> HIDE DEF L, h, L2, h2
<1>7. \A j \in Positions(a) :
        /\ L2[j].down \in {L[j].down, <<>>} /\ L2[j].up \in {L[j].up, <<>>}
        /\ h2[j] = h[j] \/ h2[j].pc = "end"
        /\ h2[j].pc = "end" => L2[j].far # "open" /\ L2[j].down = <<>>
        /\ h2[j].pc # "end" => L2[j].far = L[j].far /\ L2[j].down = L[j].down
        /\ h2[j].pc = "reply" /\ SessionOf(a, j, h2[j].key) \in sessions => SessionOf(a, j, h2[j].key) \in sessions
  <2> TAKE j \in Positions(a)
  <2>1. CASE j = k
    BY <1>4, <1>5, <1>6, <2>1, LinkOps
  <2>2. CASE j # k
    BY <1>4, <1>5, <1>6, <2>2, LinkOps
  <2> QED BY <2>1, <2>2
<1>8. sessions \in SUBSET sessions
      /\ \A i \in Positions(a), x \in Nat : Stored(a, i, x, sessions, lost) => Stored(a, i, x, sessions, lost)
  OBVIOUS
<1>9. Chain(a, L2, h2, masters[a], sessions, lost)
  BY ONLY <1>1, <1>4, <1>6, <1>7, <1>8, LessLeft
<1> QED BY <1>2, <1>9, HandlerStep

LEMMA DeriveChain ==
  ASSUME ChainInv, NEW a \in Attempts, NEW k \in Positions(a), DeriveUnderLock(a, k)
  PROVE  ChainInv'
<1> DEFINE L == link[a]  h == handler[a]
           w == [pc |-> "alloc", req |-> L[k].down, key |-> key[Hops(a)[k]]]
           l == [L[k] EXCEPT !.down = <<>>]
           L2 == [L EXCEPT ![k] = l]  h2 == [h EXCEPT ![k] = w]
<1>1. /\ Chain(a, L, h, masters[a], sessions, lost) /\ h[k].pc = "mode" /\ h[k].pc # "none"
      /\ L \in [Positions(a) -> Linkage] /\ h \in [Positions(a) -> Worker] /\ L[k] \in Linkage
      /\ UNCHANGED <<up, key, sessions, client, masters, rotations, crashes, lost>>
  BY AttemptFacts DEF DeriveUnderLock, At
<1>2. link' = [link EXCEPT ![a] = L2] /\ handler' = [handler EXCEPT ![a] = h2]
  BY DEF DeriveUnderLock
<1>3. l \in Linkage /\ l.down = <<>> /\ l.up = L[k].up /\ l.far = L[k].far
  BY <1>1, TakeOps
<1>4. key[Hops(a)[k]] \in Nat
  BY HopsType DEF ChainInv
<1>5. w \in Worker /\ w.pc = "alloc" /\ w.req = L[k].down
  BY <1>1, <1>4 DEF Worker, PCs, Linkage
<1> HIDE DEF l, w, L, h
<1>6. /\ L2 \in [Positions(a) -> Linkage] /\ h2 \in [Positions(a) -> Worker]
      /\ \A j \in Positions(a) : j # k => L2[j] = L[j] /\ h2[j] = h[j]
      /\ L2[k] = l /\ h2[k] = w
  BY <1>1, <1>3, <1>5
<1> HIDE DEF L2, h2
<1>7. Chain(a, L2, h2, masters[a], sessions, lost)
  <2>1. Chain(a, L, h, masters[a], sessions, lost) /\ h[k].pc = "mode"
    BY <1>1
  <2>2. L2[k].down = <<>> /\ L2[k].up = L[k].up /\ L2[k].far = L[k].far /\ h2[k].pc = "alloc" /\ h2[k].req = L[k].down
    BY <1>3, <1>5, <1>6
  <2> QED BY ONLY <1>6, <2>1, <2>2, TakesRequest
<1> QED BY <1>1, <1>2, <1>7, HandlerStep DEF h

LEMMA StoreChain ==
  ASSUME ChainInv, NEW a \in Attempts, NEW k \in Positions(a), Store(a, k)
  PROVE  ChainInv'
<1>1. handler[a][k].pc = "alloc" /\ handler[a][k].pc # "none"
      /\ UNCHANGED <<up, key, client, masters, rotations, crashes, lost>>
  BY DEF Store, At
<1>2. CASE Return(a, k) /\ UNCHANGED sessions
  BY <1>1, <1>2, ReturnChain
<1>3. CASE sessions' = sessions \cup {NewSession(a, k)} /\ Goto(a, k, "reply") /\ UNCHANGED link
  <2> DEFINE L == link[a]  h == handler[a]  h2 == [h EXCEPT ![k] = [h[k] EXCEPT !.pc = "reply"]]
             s == SessionOf(a, k, h[k].key)
  <2>1. /\ Chain(a, L, h, masters[a], sessions, lost) /\ h \in [Positions(a) -> Worker] /\ h[k] \in Worker
        /\ k \in Nat
    BY <1>1, AttemptFacts
  <2>2. DOMAIN link = Attempts /\ link' = link /\ handler' = [handler EXCEPT ![a] = h2]
    BY <1>3 DEF Goto, ChainInv
  <2>3. sessions' = sessions \cup {s}
    BY <1>3 DEF NewSession, SessionOf
  <2>4. s \in Session /\ s.att = a
    <3>1. h[k].key \in Nat /\ Hops(a)[k] \in Nodes
      BY <2>1, HopsType DEF Worker
    <3> HIDE DEF h
    <3> QED BY <2>1, <3>1 DEF SessionOf, Session
  <2>5. /\ h2 \in [Positions(a) -> Worker] /\ \A j \in Positions(a) : j # k => h2[j] = h[j]
        /\ h2[k].pc = "reply" /\ h2[k].req = h[k].req /\ h2[k].key = h[k].key
    <3>1. "reply" \in PCs
      BY DEF PCs
    <3> HIDE DEF h
    <3> QED BY <2>1, <3>1, WorkerOps
  <2> HIDE DEF L, h, h2
  <2>6. h[k].pc = "alloc"
    BY <1>1 DEF h
  <2>7. Chain(a, L, h2, masters[a], sessions \cup {s}, lost)
    BY <2>1, <2>5, <2>6, StoresSession
  <2> HIDE DEF s
  <2>8. /\ DOMAIN link' = Attempts /\ DOMAIN handler' = Attempts /\ DOMAIN masters' = Attempts
        /\ client' \in [Attempts -> {"not begun", "waits", "ready", "failed"}] /\ client'[a] # "not begun"
        /\ link'[a] = L /\ handler'[a] = h2 /\ masters'[a] = masters[a]
        /\ \A b \in Attempts : b # a =>
             link'[b] = link[b] /\ handler'[b] = handler[b] /\ masters'[b] = masters[b] /\ client'[b] = client[b]
    BY <1>1, <2>2, AttemptFacts DEF ChainInv, L
  <2>9. Chain(a, link'[a], handler'[a], masters'[a], sessions', lost')
    BY <1>1, <2>3, <2>7, <2>8
  <2> QED BY <1>1, <2>3, <2>4, <2>8, <2>9, OneAttempt
<1> QED BY <1>2, <1>3 DEF Store, StoreSession

LEMMA ReplyChain ==
  ASSUME ChainInv, NEW a \in Attempts, NEW k \in Positions(a), Reply(a, k)
  PROVE  ChainInv'
<1> DEFINE L == link[a]  h == handler[a]  d == [node |-> Hops(a)[k], key |-> h[k].key]  l == SendUp(L[k], d)
           sent == [L EXCEPT ![k] = l]  w == [NoHandler EXCEPT !.pc = "relay"]
<1>1. /\ Chain(a, L, h, masters[a], sessions, lost) /\ h[k].pc = "reply" /\ h[k].pc # "none"
      /\ L \in [Positions(a) -> Linkage] /\ h \in [Positions(a) -> Worker] /\ L[k] \in Linkage /\ h[k] \in Worker
      /\ k \in Nat
      /\ UNCHANGED <<up, key, sessions, client, masters, rotations, crashes, lost>>
  BY AttemptFacts DEF Reply, At
<1>2. d \in Answer
  BY <1>1, HopsType DEF Answer, Worker
<1>3. \A j \in Positions(a) : ~Down(L, j) /\ ~Upward(L, j)
  BY <1>1 DEF Chain, Token, OnTheWayDown, AtItsHop, Working
<1>4. L[k].up = <<>> /\ L[k].down = <<>>
  BY <1>3 DEF Down, Upward
<1>5. l \in Linkage /\ l.far = L[k].far /\ l.down = L[k].down /\ l.up \in {<<d>>, <<>>}
  BY <1>1, <1>2, <1>4, SendOps
<1>6. w \in Worker /\ w.pc = "relay" /\ Ended \in Worker /\ Ended.pc = "end"
  BY DEF Ended, NoHandler, Worker, PCs, One
<1>7. CASE /\ h[k].req[1].more
           /\ handler' = [handler EXCEPT ![a][k] = w] /\ link' = [link EXCEPT ![a] = sent]
  <2> DEFINE h2 == [h EXCEPT ![k] = w]
  <2>1. link' = [link EXCEPT ![a] = sent] /\ handler' = [handler EXCEPT ![a] = h2]
    BY <1>7
  <2> HIDE DEF l, d, w, L, h
  <2>2. /\ sent \in [Positions(a) -> Linkage] /\ h2 \in [Positions(a) -> Worker]
        /\ sent[k] = l /\ h2[k] = w /\ \A j \in Positions(a) : j # k => sent[j] = L[j] /\ h2[j] = h[j]
    BY <1>1, <1>5, <1>6
  <2> HIDE DEF sent, h2
  <2>3. /\ Chain(a, L, h, masters[a], sessions, lost) /\ h[k].pc = "reply"
        /\ \A j \in Positions(a) : j # k => /\ h2[j] = h[j] /\ sent[j].down = L[j].down
                                            /\ sent[j].far = L[j].far /\ sent[j].up \in {L[j].up, <<>>}
        /\ sent[k].down = <<>> /\ h2[k].pc = "relay" /\ h[k].req[1].more
        /\ sent[k].up = <<>> \/ sent[k].up = <<[node |-> Hops(a)[k], key |-> h[k].key]>>
    BY <1>1, <1>4, <1>5, <1>6, <1>7, <2>2 DEF d
  <2>4. Chain(a, sent, h2, masters[a], sessions, lost)
    BY ONLY <2>2, <2>3, Answers, SMTT(60)
  <2> QED BY <1>1, <2>1, <2>4, HandlerStep DEF h
<1>8. CASE /\ ~h[k].req[1].more
           /\ handler' = [handler EXCEPT ![a][k] = Ended] /\ link' = [link EXCEPT ![a] = Hangup(sent, k)]
  <2> DEFINE h2 == [h EXCEPT ![k] = Ended]  L2 == Hangup(sent, k)
  <2>1. link' = [link EXCEPT ![a] = L2] /\ handler' = [handler EXCEPT ![a] = h2]
    BY <1>8
  <2> HIDE DEF l, d, L, h
  <2>2. /\ sent \in [Positions(a) -> Linkage] /\ h2 \in [Positions(a) -> Worker]
        /\ sent[k] = l /\ h2[k] = Ended /\ \A j \in Positions(a) : j # k => sent[j] = L[j] /\ h2[j] = h[j]
    BY <1>1, <1>5, <1>6
  <2> HIDE DEF sent, h2
  <2>3. /\ L2 \in [Positions(a) -> Linkage] /\ L2[k] = CloseFar(l)
        /\ \A j \in Positions(a) : j # k => L2[j] = CloseNear(L[j]) \/ L2[j] = L[j]
    BY ONLY <1>1, <2>2, HangupOps
  <2> HIDE DEF L2
  <2>4. \A j \in Positions(a) : j # k => /\ L2[j].down = L[j].down /\ L2[j].far = L[j].far
                                         /\ L2[j].up \in {L[j].up, <<>>}
    BY <1>1, <2>3, LinkOps
  <2>5. L2[k].down = <<>> /\ L2[k].up \in {<<d>>, <<>>} /\ L2[k].far # "open"
    BY <1>4, <1>5, <2>3, LinkOps
  <2>6. /\ Chain(a, L, h, masters[a], sessions, lost) /\ h[k].pc = "reply"
        /\ \A j \in Positions(a) : j # k => /\ h2[j] = h[j] /\ L2[j].down = L[j].down
                                            /\ L2[j].far = L[j].far /\ L2[j].up \in {L[j].up, <<>>}
        /\ L2[k].down = <<>> /\ h2[k].pc = "end" /\ L2[k].far # "open"
        /\ L2[k].up = <<>> \/ L2[k].up = <<[node |-> Hops(a)[k], key |-> h[k].key]>>
    BY <1>1, <1>6, <2>2, <2>4, <2>5 DEF d
  <2>7. Chain(a, L2, h2, masters[a], sessions, lost)
    BY ONLY <2>2, <2>3, <2>6, Answers, SMTT(60)
  <2> QED BY <1>1, <2>1, <2>7, HandlerStep DEF h
<1>9. CASE Return(a, k)
  BY <1>1, <1>9, ReturnChain
<1> HIDE DEF L, h, d, l, sent, w
<1> QED BY <1>7, <1>8, <1>9 DEF Reply, SnapshotKey, L, h, d, l, sent, w

LEMMA RelayChain ==
  ASSUME ChainInv, NEW a \in Attempts, NEW k \in Positions(a), Relay(a, k)
  PROVE  ChainInv'
<1> DEFINE L == link[a]  h == handler[a]  d == L[k].down
           l == [L[k] EXCEPT !.down = <<>>]  n == [NoLink EXCEPT !.near = "open", !.far = "open", !.down = d]
           v == [h[k] EXCEPT !.pc = "await"]  w == [NoHandler EXCEPT !.pc = "mode"]
           L2 == [[L EXCEPT ![k] = l] EXCEPT ![k + 1] = n]  h2 == [[h EXCEPT ![k] = v] EXCEPT ![k + 1] = w]
<1>1. /\ Chain(a, L, h, masters[a], sessions, lost) /\ h[k].pc = "relay" /\ h[k].pc # "none" /\ Down(L, k)
      /\ L \in [Positions(a) -> Linkage] /\ h \in [Positions(a) -> Worker] /\ L[k] \in Linkage /\ h[k] \in Worker
      /\ UNCHANGED <<up, key, sessions, client, masters, rotations, crashes, lost>>
  BY AttemptFacts DEF Relay, At, Down
<1>2. CASE Return(a, k)
  BY <1>1, <1>2, ReturnChain
<1>3. CASE /\ link' = [link EXCEPT ![a] = Linked([@ EXCEPT ![k].down = <<>>], k + 1, link[a][k].down)]
           /\ handler' = [handler EXCEPT ![a] = Accepted([@ EXCEPT ![k].pc = "await"], k + 1)]
  <2>1. link' = [link EXCEPT ![a] = L2] /\ handler' = [handler EXCEPT ![a] = h2]
    BY <1>3 DEF Linked, Accepted
  <2>2. l \in Linkage /\ l.down = <<>> /\ l.up = L[k].up /\ l.far = L[k].far
    BY <1>1, TakeOps
  <2>3. d \in One(Request)
    BY <1>1 DEF Linkage
  <2>4. n \in Linkage /\ n.far = "open" /\ n.down = d /\ n.up = <<>>
    BY <2>3, LinkedOps
  <2>5. v \in Worker /\ v.pc = "await" /\ w \in Worker /\ w.pc = "mode"
    BY <1>1, WorkerOps DEF PCs
  <2>6. k + 1 \in Positions(a) /\ k # k + 1
    <3>1. k < Len(Hops(a))
      BY <1>1 DEF Chain, Token, Placed
    <3> QED BY <3>1, HopsType DEF Positions
  <2> HIDE DEF l, n, v, w, L, h
  <2>7. /\ L2 \in [Positions(a) -> Linkage] /\ h2 \in [Positions(a) -> Worker]
        /\ L2[k] = l /\ L2[k + 1] = n /\ h2[k] = v /\ h2[k + 1] = w
        /\ \A j \in Positions(a) : j # k /\ j # k + 1 => L2[j] = L[j] /\ h2[j] = h[j]
    BY <1>1, <2>2, <2>4, <2>5, <2>6
  <2> HIDE DEF L2, h2
  <2>8. /\ Chain(a, L, h, masters[a], sessions, lost) /\ h[k].pc = "relay" /\ Down(L, k)
        /\ L2[k].down = <<>> /\ L2[k].up = L[k].up /\ L2[k].far = L[k].far /\ h2[k].pc = "await"
        /\ L2[k + 1].down = L[k].down /\ L2[k + 1].up = <<>> /\ L2[k + 1].far = "open" /\ h2[k + 1].pc = "mode"
    BY <1>1, <2>2, <2>4, <2>5, <2>7
  <2>9. Chain(a, L2, h2, masters[a], sessions, lost)
    BY ONLY <2>6, <2>7, <2>8, Extends
  <2> QED BY <1>1, <2>1, <2>9, HandlerStep DEF h
<1> QED BY <1>2, <1>3 DEF Relay

LEMMA AwaitChain ==
  ASSUME ChainInv, NEW a \in Attempts, NEW k \in Positions(a), Await(a, k)
  PROVE  ChainInv'
<1> DEFINE L == link[a]  h == handler[a]  f == L[k + 1].up[1]
           l == SendUp(L[k], f)  n == [L[k + 1] EXCEPT !.up = <<>>]  v == [h[k] EXCEPT !.pc = "proxy"]
           L2 == [[L EXCEPT ![k] = l] EXCEPT ![k + 1] = n]  h2 == [h EXCEPT ![k] = v]
<1>1. /\ Chain(a, L, h, masters[a], sessions, lost) /\ h[k].pc = "await" /\ h[k].pc # "none" /\ L[k + 1].up # <<>>
      /\ L \in [Positions(a) -> Linkage] /\ h \in [Positions(a) -> Worker] /\ L[k] \in Linkage /\ h[k] \in Worker
      /\ UNCHANGED <<up, key, sessions, client, masters, rotations, crashes, lost>>
  BY AttemptFacts DEF Await, At
<1>2. k + 1 \in Positions(a) /\ k # k + 1
  <2>1. k < Len(Hops(a))
    BY <1>1 DEF Chain, Token, Placed
  <2> QED BY <2>1, HopsType DEF Positions
<1>3. L[k + 1] \in Linkage /\ Head(L[k + 1].up) = f /\ f \in Answer /\ Upward(L, k + 1)
  <2>1. L[k + 1] \in Linkage
    BY <1>1, <1>2
  <2>2. L[k + 1].up \in One(Answer)
    BY <2>1 DEF Linkage
  <2> QED BY <1>1, <2>1, <2>2, OneFrame DEF Upward
<1>4. link' = [link EXCEPT ![a] = L2] /\ handler' = [handler EXCEPT ![a] = h2]
  BY <1>2, <1>3 DEF Await, Goto
<1>5. L[k].up = <<>>
  BY <1>1, <1>2, <1>3 DEF Chain, Token, OnTheWayUp, Upward
<1>6. l \in Linkage /\ l.far = L[k].far /\ l.down = L[k].down /\ l.up \in {<<f>>, <<>>}
  BY <1>1, <1>3, <1>5, SendOps
<1>7. n \in Linkage /\ n.far = L[k + 1].far /\ n.down = L[k + 1].down /\ n.up = <<>>
  BY <1>3, TakeOps
<1>8. v \in Worker /\ v.pc = "proxy"
  BY <1>1, WorkerOps DEF PCs
<1> HIDE DEF l, n, v, L, h
<1>9. /\ L2 \in [Positions(a) -> Linkage] /\ h2 \in [Positions(a) -> Worker]
      /\ L2[k] = l /\ L2[k + 1] = n /\ h2[k] = v
      /\ \A j \in Positions(a) : j # k => h2[j] = h[j]
      /\ \A j \in Positions(a) : j # k /\ j # k + 1 => L2[j] = L[j]
  BY <1>1, <1>2, <1>6, <1>7, <1>8
<1> HIDE DEF L2, h2
<1>10. /\ Chain(a, L, h, masters[a], sessions, lost) /\ h[k].pc \in {"await", "proxy"} /\ h2[k].pc = "proxy"
       /\ \A j \in Positions(a) : L2[j].down = L[j].down /\ L2[j].far = L[j].far
       /\ \A j \in Positions(a) : j # k => L2[j].up \in {L[j].up, <<>>}
       /\ L2[k + 1].up = <<>>
       /\ L2[k].up = <<>> \/ L2[k].up = <<L[k + 1].up[1]>>
  BY <1>1, <1>6, <1>7, <1>8, <1>9
<1>11. Chain(a, L2, h2, masters[a], sessions, lost)
  BY ONLY <1>2, <1>3, <1>9, <1>10, PassesUp
<1> QED BY <1>1, <1>4, <1>11, HandlerStep DEF h

LEMMA CopyDownChain ==
  ASSUME ChainInv, NEW a \in Attempts, NEW k \in Positions(a), At(a, k, "proxy"), link[a][k].down # <<>>,
         link' = [link EXCEPT ![a][k].down = Tail(@), ![a][k + 1] = SendDown(@, Head(link[a][k].down))],
         UNCHANGED <<up, key, sessions, client, masters, handler, rotations, crashes, lost>>
  PROVE  ChainInv'
<1> DEFINE L == link[a]  h == handler[a]  f == L[k].down[1]
           l == [L[k] EXCEPT !.down = <<>>]  n == SendDown(L[k + 1], f)
           L2 == [[L EXCEPT ![k] = l] EXCEPT ![k + 1] = n]
<1>1. /\ Chain(a, L, h, masters[a], sessions, lost) /\ h[k].pc = "proxy" /\ h[k].pc # "none" /\ Down(L, k)
      /\ L \in [Positions(a) -> Linkage] /\ h \in [Positions(a) -> Worker] /\ L[k] \in Linkage
      /\ DOMAIN handler = Attempts
  BY AttemptFacts DEF At, Down, ChainInv
<1>2. k + 1 \in Positions(a) /\ k # k + 1
  <2>1. k < Len(Hops(a))
    BY <1>1 DEF Chain, Token, Placed
  <2> QED BY <2>1, HopsType DEF Positions
<1>3. /\ L[k + 1] \in Linkage /\ Head(L[k].down) = f /\ Tail(L[k].down) = <<>> /\ f \in Request
  <2>1. L[k].down \in One(Request)
    BY <1>1 DEF Linkage
  <2> QED BY <1>1, <1>2, <2>1, OneFrame DEF Down
<1>4. link' = [link EXCEPT ![a] = L2]
  BY <1>2, <1>3
<1>5. L[k + 1].down = <<>>
  BY <1>1, <1>2 DEF Chain, Token, OnTheWayDown, Down
<1>6. l \in Linkage /\ l.down = <<>> /\ l.up = L[k].up /\ l.far = L[k].far
  BY <1>1, TakeOps
<1>7. /\ n \in Linkage /\ n.far = L[k + 1].far /\ n.up = L[k + 1].up
      /\ n.down = IF L[k + 1].far = "open" THEN <<f>> ELSE <<>>
  BY <1>3, <1>5, SendOps
<1> HIDE DEF l, n, L, h
<1>8. /\ L2 \in [Positions(a) -> Linkage] /\ L2[k] = l /\ L2[k + 1] = n
      /\ \A j \in Positions(a) : j # k /\ j # k + 1 => L2[j] = L[j]
  BY <1>1, <1>2, <1>6, <1>7
<1> HIDE DEF L2
<1>9. /\ Chain(a, L, h, masters[a], sessions, lost) /\ h[k].pc = "proxy" /\ Down(L, k)
      /\ L2[k].down = <<>> /\ L2[k].up = L[k].up /\ L2[k].far = L[k].far
      /\ L2[k + 1].up = L[k + 1].up /\ L2[k + 1].far = L[k + 1].far
      /\ L2[k + 1].down = IF L[k + 1].far = "open" THEN <<L[k].down[1]>> ELSE <<>>
  BY <1>1, <1>6, <1>7, <1>8
<1>10. Chain(a, L2, h, masters[a], sessions, lost)
  BY ONLY <1>2, <1>8, <1>9, PassesDown
<1> QED BY <1>1, <1>4, <1>10, CopyStep DEF h

LEMMA CopyUpChain ==
  ASSUME ChainInv, NEW a \in Attempts, NEW k \in Positions(a), At(a, k, "proxy"), link[a][k + 1].up # <<>>,
         link' = [link EXCEPT ![a][k + 1].up = Tail(@), ![a][k] = SendUp(@, Head(link[a][k + 1].up))],
         UNCHANGED <<up, key, sessions, client, masters, handler, rotations, crashes, lost>>
  PROVE  ChainInv'
<1> DEFINE L == link[a]  h == handler[a]  f == L[k + 1].up[1]
           l == SendUp(L[k], f)  n == [L[k + 1] EXCEPT !.up = <<>>]
           L2 == [[L EXCEPT ![k + 1] = n] EXCEPT ![k] = l]
<1>1. /\ Chain(a, L, h, masters[a], sessions, lost) /\ h[k].pc = "proxy" /\ h[k].pc # "none" /\ L[k + 1].up # <<>>
      /\ L \in [Positions(a) -> Linkage] /\ h \in [Positions(a) -> Worker] /\ L[k] \in Linkage
  BY AttemptFacts DEF At
<1>2. k + 1 \in Positions(a) /\ k # k + 1
  <2>1. k < Len(Hops(a))
    BY <1>1 DEF Chain, Token, Placed
  <2> QED BY <2>1, HopsType DEF Positions
<1>3. L[k + 1] \in Linkage /\ Head(L[k + 1].up) = f /\ Tail(L[k + 1].up) = <<>> /\ f \in Answer /\ Upward(L, k + 1)
  <2>1. L[k + 1] \in Linkage
    BY <1>1, <1>2
  <2>2. L[k + 1].up \in One(Answer)
    BY <2>1 DEF Linkage
  <2> QED BY <1>1, <2>1, <2>2, OneFrame DEF Upward
<1>4. link' = [link EXCEPT ![a] = L2]
  BY <1>2, <1>3
<1>5. L[k].up = <<>>
  BY <1>1, <1>2, <1>3 DEF Chain, Token, OnTheWayUp, Upward
<1>6. l \in Linkage /\ l.far = L[k].far /\ l.down = L[k].down /\ l.up \in {<<f>>, <<>>}
  BY <1>1, <1>3, <1>5, SendOps
<1>7. n \in Linkage /\ n.far = L[k + 1].far /\ n.down = L[k + 1].down /\ n.up = <<>>
  BY <1>3, TakeOps
<1> HIDE DEF l, n, L, h
<1>8. /\ L2 \in [Positions(a) -> Linkage] /\ L2[k] = l /\ L2[k + 1] = n
      /\ \A j \in Positions(a) : j # k /\ j # k + 1 => L2[j] = L[j]
  BY <1>1, <1>2, <1>6, <1>7
<1> HIDE DEF L2
<1>9. /\ Chain(a, L, h, masters[a], sessions, lost) /\ h[k].pc \in {"await", "proxy"} /\ h[k].pc = "proxy"
      /\ \A j \in Positions(a) : j # k => h[j] = h[j]
      /\ \A j \in Positions(a) : L2[j].down = L[j].down /\ L2[j].far = L[j].far
      /\ \A j \in Positions(a) : j # k => L2[j].up \in {L[j].up, <<>>}
      /\ L2[k + 1].up = <<>>
      /\ L2[k].up = <<>> \/ L2[k].up = <<L[k + 1].up[1]>>
  BY <1>1, <1>6, <1>7, <1>8
<1>10. h \in [Positions(a) -> Worker]
  BY <1>1
<1>11. Chain(a, L2, h, masters[a], sessions, lost)
  BY ONLY <1>2, <1>3, <1>8, <1>9, <1>10, PassesUp
<1> QED BY <1>1, <1>4, <1>11, CopyStep DEF h

LEMMA NextHandler ==
  ASSUME ChainInv, NEW a \in Attempts, NEW k \in Positions(a), handle_extend(a, k)
  PROVE  ChainInv'
<1>1. CASE DeriveUnderLock(a, k) \/ Store(a, k) \/ Reply(a, k)
  BY <1>1, DeriveChain, StoreChain, ReplyChain
<1>2. CASE Relay(a, k) \/ Await(a, k)
  BY <1>2, RelayChain, AwaitChain
<1>3. CASE proxy_bidirectional(a, k)
  BY <1>3, CopyDownChain, CopyUpChain DEF proxy_bidirectional
<1>4. CASE HandlerEnds(a, k)
  <2>1. handler[a][k].pc # "none" /\ Return(a, k)
    BY <1>4 DEF HandlerEnds, SeesEnd
  <2> QED BY <1>4, <2>1, ReturnChain DEF HandlerEnds
<1> QED BY <1>1, <1>2, <1>3, <1>4 DEF handle_extend
-----------------------------------------------------------------------------
(* The nodes                                                               *)

\* What a crash leaves of the chain of one attempt.
LEMMA CrashChain ==
  ASSUME ChainInv, NEW x \in Nodes, Crash(x), NEW a \in Attempts
  PROVE  Chain(a, link'[a], handler'[a], masters[a], sessions', lost')
<1> DEFINE L == link[a]  h == handler[a]  L2 == link'[a]  h2 == handler'[a]
           Gone(j) == j \in Positions(a) /\ Hops(a)[j] = x /\ h[j].pc # "none"
<1>1. Chain(a, L, h, masters[a], sessions, lost)
  BY DEF ChainInv
<1>2. /\ L \in [Positions(a) -> Linkage] /\ h \in [Positions(a) -> Worker]
      /\ \A j \in Positions(a) : j \in Nat \ {0} /\ L[j] \in Linkage
  BY <1>1, HopsType DEF Chain, Shape
<1>3. \A j : j \in DOMAIN Hops(a) <=> j \in Positions(a)
  BY HopsType
<1>4. /\ h2 = [j \in Positions(a) |-> IF Gone(j) THEN Ended ELSE h[j]]
      /\ L2 = [j \in Positions(a) |->
                LET l == IF Gone(j) THEN CloseFar(L[j]) ELSE L[j] IN IF Gone(j - 1) THEN CloseNear(l) ELSE l]
  BY <1>3 DEF Crash
<1>5. Ended \in Worker /\ Ended.pc = "end"
  BY WorkerOps DEF Ended, NoHandler, Worker, PCs, One
<1> HIDE DEF L, h, L2, h2, Gone
<1>6. h2 \in [Positions(a) -> Worker]
      /\ \A j \in Positions(a) : (Gone(j) => h2[j].pc = "end") /\ (~Gone(j) => h2[j] = h[j])
  BY <1>2, <1>4, <1>5
<1>7. \A j \in Positions(a) :
        /\ L2[j] \in Linkage /\ L2[j].up \in {L[j].up, <<>>}
        /\ Gone(j) => L2[j].far # "open" /\ L2[j].down = CloseFar(L[j]).down
        /\ ~Gone(j) => L2[j].far = L[j].far /\ L2[j].down = L[j].down
  <2> TAKE j \in Positions(a)
  <2> DEFINE l == IF Gone(j) THEN CloseFar(L[j]) ELSE L[j]
  <2>1. /\ l \in Linkage /\ l.up = L[j].up
        /\ Gone(j) => l.far # "open" /\ l.down = CloseFar(L[j]).down
        /\ ~Gone(j) => l.far = L[j].far /\ l.down = L[j].down
    BY <1>2, LinkOps
  <2>2. L2[j] = IF Gone(j - 1) THEN CloseNear(l) ELSE l
    BY <1>4
  <2> HIDE DEF l
  <2> QED BY <2>1, <2>2, LinkOps
<1>8. \A j \in Positions(a) : /\ h[j].pc = "end" => L[j].far # "open" /\ L[j].down = <<>>
                              /\ CloseFar(L[j]).down = <<>>
  <2>1. \A j \in Positions(a) : /\ L[j].far = "open" => h[j].pc # "end"
                                /\ L[j].down # <<>> => L[j].far = "open"
    BY <1>1 DEF Chain, Token, Placed, OnTheWayDown, Down
  <2> QED BY <1>2, <2>1, LinkOps
<1>9. L2 \in [Positions(a) -> Linkage]
  <2>1. DOMAIN L2 = Positions(a) /\ L2 = [j \in Positions(a) |-> L2[j]]
    BY <1>4
  <2> QED BY <1>7, <2>1
<1>10. sessions' = {s \in sessions : s.node # x}
       /\ lost' = lost \cup {<<s.att, s.hop>> : s \in {s \in sessions : s.node = x}}
  BY DEF Crash
<1>11. \A j \in Positions(a) :
         /\ L2[j].down \in {L[j].down, <<>>} /\ L2[j].up \in {L[j].up, <<>>}
         /\ h2[j] = h[j] \/ h2[j].pc = "end"
         /\ h2[j].pc = "end" => L2[j].far # "open" /\ L2[j].down = <<>>
         /\ h2[j].pc # "end" => L2[j].far = L[j].far /\ L2[j].down = L[j].down
         /\ h2[j].pc = "reply" /\ SessionOf(a, j, h2[j].key) \in sessions => SessionOf(a, j, h2[j].key) \in sessions'
  <2> TAKE j \in Positions(a)
  <2>1. CASE Gone(j)
    BY <1>6, <1>7, <1>8, <2>1
  <2>2. CASE ~Gone(j)
    <3>1. h2[j] = h[j] /\ L2[j].far = L[j].far /\ L2[j].down = L[j].down /\ L2[j].up \in {L[j].up, <<>>}
      BY <1>6, <1>7, <2>2
    <3>2. h2[j].pc = "reply" => Hops(a)[j] # x
      BY <2>2, <3>1 DEF Gone
    <3>3. SessionOf(a, j, h2[j].key).node = Hops(a)[j]
      BY DEF SessionOf
    <3> QED BY <1>8, <1>10, <3>1, <3>2, <3>3
  <2> QED BY <2>1, <2>2
<1>12. sessions' \in SUBSET sessions
  BY <1>10
<1>13. \A i \in Positions(a), k \in Nat : Stored(a, i, k, sessions, lost) => Stored(a, i, k, sessions', lost')
  <2> SUFFICES ASSUME NEW i \in Positions(a), NEW k \in Nat, Stored(a, i, k, sessions, lost)
               PROVE  Stored(a, i, k, sessions', lost')
    OBVIOUS
  <2> DEFINE s == SessionOf(a, i, k)
  <2>1. s.node = Hops(a)[i] /\ s.att = a /\ s.hop = i
    BY DEF SessionOf
  <2> HIDE DEF s
  <2>2. CASE s \in sessions /\ s.node # x
    BY <1>10, <2>2 DEF Stored, s
  <2>3. CASE s \in sessions /\ s.node = x
    <3>1. <<s.att, s.hop>> \in lost'
      BY <1>10, <2>3
    <3> QED BY <2>1, <3>1 DEF Stored
  <2>4. CASE <<a, i>> \in lost
    BY <1>10, <2>4 DEF Stored
  <2> QED BY <2>2, <2>3, <2>4 DEF Stored, s
<1> DEFINE S2 == sessions'  X2 == lost'
<1>14. Chain(a, L2, h2, masters[a], S2, X2)
  <2> HIDE DEF S2, X2
  <2>1. \A j \in Positions(a) :
         /\ L2[j].down \in {L[j].down, <<>>} /\ L2[j].up \in {L[j].up, <<>>}
         /\ h2[j] = h[j] \/ h2[j].pc = "end"
         /\ h2[j].pc = "end" => L2[j].far # "open" /\ L2[j].down = <<>>
         /\ h2[j].pc # "end" => L2[j].far = L[j].far /\ L2[j].down = L[j].down
         /\ h2[j].pc = "reply" /\ SessionOf(a, j, h2[j].key) \in sessions => SessionOf(a, j, h2[j].key) \in S2
    BY <1>11 DEF S2
  <2>2. S2 \in SUBSET sessions
        /\ \A i \in Positions(a), k \in Nat : Stored(a, i, k, sessions, lost) => Stored(a, i, k, S2, X2)
    BY <1>12, <1>13 DEF S2, X2
  <2> QED BY ONLY <1>1, <1>6, <1>9, <2>1, <2>2, LessLeft
<1> QED BY <1>14 DEF L2, h2

LEMMA NextNode ==
  ASSUME ChainInv, NEW n \in Nodes, node_key_rotation_thread(n) \/ Crash(n) \/ Restart(n)
  PROVE  ChainInv'
<1>0. /\ up \in [Nodes -> BOOLEAN] /\ key \in [Nodes -> Nat] /\ sessions \subseteq Session
      /\ rotations \in 0 .. MaxRotations /\ crashes \in 0 .. MaxCrashes
      /\ MaxRotations \in Nat /\ MaxCrashes \in Nat
  BY DEF ChainInv
<1>1. CASE node_key_rotation_thread(n)
  <2>1. /\ key' = [key EXCEPT ![n] = @ + 1] /\ rotations < MaxRotations /\ rotations' = rotations + 1
        /\ UNCHANGED <<up, sessions, client, masters, link, handler, crashes, lost>>
    BY <1>1 DEF node_key_rotation_thread
  <2>2. key' \in [Nodes -> Nat] /\ rotations' \in 0 .. MaxRotations
    BY <1>0, <2>1
  <2> QED BY <2>1, <2>2 DEF ChainInv
<1>2. CASE Restart(n)
  <2>1. /\ key' = [key EXCEPT ![n] = @ + 1] /\ up' = [up EXCEPT ![n] = TRUE]
        /\ UNCHANGED <<sessions, client, masters, link, handler, rotations, crashes, lost>>
    BY <1>2 DEF Restart
  <2>2. key' \in [Nodes -> Nat] /\ up' \in [Nodes -> BOOLEAN]
    BY <1>0, <2>1
  <2> QED BY <2>1, <2>2 DEF ChainInv
<1>3. CASE Crash(n)
  <2>0. /\ up' = [up EXCEPT ![n] = FALSE] /\ crashes < MaxCrashes /\ crashes' = crashes + 1
        /\ sessions' = {s \in sessions : s.node # n}
        /\ UNCHANGED <<key, client, masters, rotations>>
    BY <1>3 DEF Crash
  <2>a. DOMAIN link' = Attempts /\ DOMAIN handler' = Attempts
    BY <1>3 DEF Crash
  <2>1. /\ up' \in [Nodes -> BOOLEAN] /\ crashes' \in 0 .. MaxCrashes /\ sessions' \subseteq Session
        /\ UNCHANGED <<key, client, masters, rotations>>
        /\ DOMAIN link' = Attempts /\ DOMAIN handler' = Attempts
    BY <1>0, <2>0, <2>a
  <2>2. \A a \in Attempts : Chain(a, link'[a], handler'[a], masters'[a], sessions', lost')
    BY <1>3, <2>1, CrashChain
  <2>3. ASSUME NEW a \in Attempts, client[a] = "not begun", NEW k \in Positions(a)
        PROVE  link'[a][k] = NoLink /\ handler'[a][k] = NoHandler
    <3>1. \A j \in Positions(a) : link[a][j] = NoLink /\ handler[a][j] = NoHandler
      BY <2>3 DEF ChainInv, Begun
    <3>2. \A j \in DOMAIN Hops(a) : handler[a][j].pc = "none"
      BY <3>1, HopsType DEF NoHandler
    <3> QED BY <1>3, <3>1, <3>2 DEF Crash
  <2>4. \A a \in Attempts : Begun(a, client'[a], link'[a], handler'[a], masters'[a])
    BY <2>1, <2>3 DEF ChainInv, Begun
  <2> QED BY <2>1, <2>2, <2>4 DEF ChainInv
<1> QED BY <1>1, <1>2, <1>3
-----------------------------------------------------------------------------
(* The theorems                                                            *)

LEMMA InitChain == Init => ChainInv
<1> SUFFICES ASSUME Init PROVE ChainInv
  OBVIOUS
<1>1. ASSUME NEW a \in Attempts
      PROVE  /\ Chain(a, link[a], handler[a], masters[a], sessions, lost)
             /\ Begun(a, client[a], link[a], handler[a], masters[a])
  <2>1. /\ link[a] = [k \in Positions(a) |-> NoLink] /\ handler[a] = [k \in Positions(a) |-> NoHandler]
        /\ masters[a] = <<>> /\ sessions = {}
    BY DEF Init
  <2>2. NoLink \in Linkage /\ NoHandler \in Worker
    BY DEF NoLink, NoHandler, Linkage, Worker, Ends, PCs, One
  <2>3. link[a] \in [Positions(a) -> Linkage] /\ handler[a] \in [Positions(a) -> Worker]
    BY <2>1, <2>2
  <2>4. Reached(a, 0, sessions)
    BY <2>1 DEF Reached
  <2>5. /\ \A j \in Positions(a) : j # 1 => link[a][j] = NoLink /\ handler[a][j] = NoHandler
        /\ link[a][1] = NoLink /\ handler[a][1] = NoHandler
    BY <2>1, FirstPosition
  <2>6. Chain(a, link[a], handler[a], <<>>, sessions, lost)
    BY <2>3, <2>4, <2>5, Begins
  <2> QED BY <2>1, <2>6 DEF Begun
<1>2. /\ up \in [Nodes -> BOOLEAN] /\ key \in [Nodes -> Nat] /\ sessions \subseteq Session
      /\ client \in [Attempts -> {"not begun", "waits", "ready", "failed"}]
      /\ DOMAIN masters = Attempts /\ DOMAIN link = Attempts /\ DOMAIN handler = Attempts
      /\ rotations \in 0 .. MaxRotations /\ crashes \in 0 .. MaxCrashes
  <2>1. MaxRotations \in Nat /\ MaxCrashes \in Nat
    OBVIOUS
  <2>2. rotations = 0 /\ crashes = 0
    BY DEF Init
  <2>3. rotations \in 0 .. MaxRotations /\ crashes \in 0 .. MaxCrashes
    BY <2>1, <2>2
  <2>4. /\ up \in [Nodes -> BOOLEAN] /\ key \in [Nodes -> Nat] /\ sessions \subseteq Session
        /\ client \in [Attempts -> {"not begun", "waits", "ready", "failed"}]
        /\ DOMAIN masters = Attempts /\ DOMAIN link = Attempts /\ DOMAIN handler = Attempts
    BY DEF Init
  <2> QED BY <2>3, <2>4
<1> QED BY <1>1, <1>2 DEF ChainInv

LEMMA NextChain == ChainInv /\ [Next]_vars => ChainInv'
<1> SUFFICES ASSUME ChainInv, [Next]_vars PROVE ChainInv'
  OBVIOUS
<1>1. ASSUME NEW a \in Attempts, ecdhe_telescoped_path(a) PROVE ChainInv'
  BY <1>1, BeginChain, ReceivesChain, FailChain DEF ecdhe_telescoped_path
<1>2. ASSUME NEW a \in Attempts, NEW k \in Positions(a), handle_extend(a, k) PROVE ChainInv'
  BY <1>2, NextHandler
<1>3. ASSUME NEW n \in Nodes, node_key_rotation_thread(n) \/ Crash(n) \/ Restart(n) PROVE ChainInv'
  BY <1>3, NextNode
<1>4. CASE UNCHANGED vars
  BY <1>4 DEF vars, ChainInv
<1> QED BY <1>1, <1>2, <1>3, <1>4 DEF Next

LEMMA ChainHolds == Spec => []ChainInv
  BY InitChain, NextChain, PTL DEF Spec

\* The types, among them that no link ever carries two frames in one
\* direction, so that one recv() of a handler or of the proxy never splits or
\* joins frames: for paths of any length and any number of attempts.
THEOREM TypeCorrect == Spec => []TypeOK
<1>1. ChainInv => TypeOK
  <2> SUFFICES ASSUME ChainInv PROVE TypeOK
    OBVIOUS
  <2>1. /\ up \in [Nodes -> BOOLEAN] /\ key \in [Nodes -> Nat]
        /\ rotations \in 0 .. MaxRotations /\ crashes \in 0 .. MaxCrashes
        /\ \A a \in Attempts : client[a] \in {"not begun", "waits", "ready", "failed"}
    BY DEF ChainInv
  <2>2. \A s \in sessions : s.node \in Nodes /\ s.att \in Attempts /\ s.hop \in Nat /\ s.key \in Nat
    BY DEF ChainInv, Session
  <2>3. ASSUME NEW T, NEW q \in One(T)
        PROVE  Len(q) <= 1 /\ \A i \in DOMAIN q : q[i] \in T
    <3>1. CASE q = <<>>
      BY <3>1
    <3>2. CASE q # <<>>
      <4>1. PICK x \in T : q = <<x>>
        BY <2>3, <3>2 DEF One
      <4> QED BY <4>1
    <3> QED BY <3>1, <3>2
  <2>4. ASSUME NEW a \in Attempts
        PROVE  /\ masters[a] \in Seq(Nat) /\ Len(masters[a]) <= Len(Hops(a))
               /\ \A k \in Positions(a) : link[a][k] \in Linkage /\ handler[a][k] \in Worker
    BY DEF ChainInv, Chain, Shape
  <2>5. ASSUME NEW a \in Attempts, NEW k \in Positions(a)
        PROVE  /\ link[a][k].near \in Ends /\ link[a][k].far \in Ends
               /\ link[a][k].down \in One(Request) /\ link[a][k].up \in One(Answer)
               /\ handler[a][k].pc \in PCs
    BY <2>4 DEF Linkage, Worker
  <2> QED BY <2>1, <2>2, <2>3, <2>4, <2>5 DEF TypeOK, Ends, PCs
<1> QED BY <1>1, ChainHolds, PTL

\* Program and hop hold the same key for every hop agreed upon, whatever
\* handshakes, rotations and restarts of others interleave.
THEOREM KeysAgreeHolds == Spec => []KeysAgree
<1>1. ChainInv => KeysAgree
  BY DEF ChainInv, Chain, KeysOf, Stored, SessionOf, KeysAgree
<1> QED BY <1>1, ChainHolds, PTL

\* An attempt has stored its sessions on the first hops only, one more at most
\* than the program knows of.
THEOREM StoredAreAPrefixHolds == Spec => []StoredAreAPrefix
<1>1. ChainInv => StoredAreAPrefix
  <2> SUFFICES ASSUME ChainInv, NEW a \in Attempts, NEW s \in sessions, s.att = a
               PROVE  /\ s.hop <= Len(masters[a]) + 1
                      /\ \A i \in 1 .. s.hop - 1 : <<a, i>> \in lost \/ \E t \in sessions : t.att = a /\ t.hop = i
    BY DEF StoredAreAPrefix
  <2> DEFINE m == Len(masters[a])
  <2>1. Chain(a, link[a], handler[a], masters[a], sessions, lost)
    BY DEF ChainInv
  <2>2. m \in Nat /\ s.hop \in 1 .. (m + 1)
    BY <2>1 DEF Chain, Shape, Reached
  <2>3. \A i \in 1 .. m : SessionOf(a, i, masters[a][i]) \in sessions \/ <<a, i>> \in lost
    BY <2>1 DEF Chain, KeysOf, Stored
  <2>4. \A i, k : SessionOf(a, i, k).att = a /\ SessionOf(a, i, k).hop = i
    BY DEF SessionOf
  <2> HIDE DEF m
  <2>5. \A i \in 1 .. s.hop - 1 : i \in 1 .. m
    BY <2>2
  <2> QED BY <2>2, <2>3, <2>4, <2>5 DEF m
<1> QED BY <1>1, ChainHolds, PTL
=============================================================================
