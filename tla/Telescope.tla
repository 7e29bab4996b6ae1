------------------------------ MODULE Telescope ------------------------------
(***************************************************************************)
(* Building a path: ecdhe_telescoped_path() of client.c and sender.c, the  *)
(* EXTEND handlers of the mix nodes and of the gateway, and the rotation   *)
(* of the handshake keys.                                                  *)
(*                                                                         *)
(* The program agrees on a key with one hop after the other over one       *)
(* connection: a hop that has answered connects to the next one, passes    *)
(* one frame on, one answer back, and then copies bytes both ways until    *)
(* either side closes.  Position 0 of an attempt is the program, position  *)
(* k its k-th hop; link k joins positions k - 1 and k.  No socket has a    *)
(* timeout: whoever waits is woken by a frame or by the end of the link.   *)
(***************************************************************************)
EXTENDS Naturals, Sequences, FiniteSets

CONSTANTS
  Nodes,        \* mix nodes and the gateway
  Processes,    \* clients and senders
  Routes,       \* per process the hops of the paths it builds, one after the other
  MaxRotations, MaxCrashes   \* bounds, over all nodes

ASSUME TelescopeAssumption ==
  /\ Routes \in [Processes -> Seq(Seq(Nodes) \ {<<>>})]
  /\ MaxRotations \in Nat /\ MaxCrashes \in Nat

VARIABLES
  up, key,          \* per node: is it running; number of g_node_kp
  sessions,         \* what session_alloc() and sess_alloc() have handed out
  client, masters,  \* per attempt: state of the program, keys it has derived
  link, handler,    \* per attempt and position
  rotations, crashes,
  lost              \* history: sessions that went with their node

vars == <<up, key, sessions, client, masters, link, handler, rotations, crashes, lost>>

Attempts == UNION {{<<p, j>> : j \in 1 .. Len(Routes[p])} : p \in Processes}
Hops(a)  == Routes[a[1]][a[2]]
Positions(a) == 1 .. Len(Hops(a))

\* A request names the key pair made for one hop, and whether the hop is to
\* extend further; an answer is a signed descriptor.
Request == [hop : Nat, more : BOOLEAN]
Answer  == [node : Nodes, key : Nat]

NoLink     == [near |-> "none", far |-> "none", down |-> <<>>, up |-> <<>>]
NoHandler  == [pc |-> "none", req |-> <<>>, key |-> 0]
Ended      == [NoHandler EXCEPT !.pc = "end"]

Init ==
  /\ up = [n \in Nodes |-> TRUE] /\ key = [n \in Nodes |-> 0] /\ sessions = {}
  /\ client = [a \in Attempts |-> "not begun"] /\ masters = [a \in Attempts |-> <<>>]
  /\ link = [a \in Attempts |-> [k \in Positions(a) |-> NoLink]]
  /\ handler = [a \in Attempts |-> [k \in Positions(a) |-> NoHandler]]
  /\ rotations = 0 /\ crashes = 0 /\ lost = {}
-----------------------------------------------------------------------------
(* Links: net.c.  What is sent to an end that is closed is lost.           *)

SendDown(l, f) == IF l.far = "open"  THEN [l EXCEPT !.down = Append(@, f)] ELSE l
SendUp(l, f)   == IF l.near = "open" THEN [l EXCEPT !.up = Append(@, f)]   ELSE l

CloseNear(l) == IF l.near = "open" THEN [l EXCEPT !.near = "closed", !.up = <<>>]   ELSE l
CloseFar(l)  == IF l.far = "open"  THEN [l EXCEPT !.far = "closed",  !.down = <<>>] ELSE l

\* recv() at either end returns 0: the peer has closed and all is read.
EndOfDown(l) == l.near = "closed" /\ l.down = <<>>
EndOfUp(l)   == l.far = "closed" /\ l.up = <<>>

\* net_connect() and the thread that handle_connection() runs on; the
\* connecting side sends MODE_EXTEND and its first request.
Linked(ls, k, frames) == [ls EXCEPT ![k] = [NoLink EXCEPT !.near = "open", !.far = "open", !.down = frames]]
Accepted(hs, k)       == [hs EXCEPT ![k] = [NoHandler EXCEPT !.pc = "mode"]]

\* The links of attempt a after the process at position k has closed its ends.
Hangup(ls, k) == [i \in DOMAIN ls |-> IF i = k THEN CloseFar(ls[i])
                                      ELSE IF i = k + 1 THEN CloseNear(ls[i]) ELSE ls[i]]
-----------------------------------------------------------------------------
(* ecdhe_telescoped_path()                                                 *)

RequestFor(a, i) == [hop |-> i, more |-> i < Len(Hops(a))]

\* Faulty: all requests at once.
Pipelined(a) == [i \in Positions(a) |-> RequestFor(a, i)]

FirstRequest(a) == <<RequestFor(a, 1)>>

\* A path is built when the ones before it are ready.
Begin(a) ==
  /\ client[a] = "not begun"
  /\ a[2] > 1 => client[<<a[1], a[2] - 1>>] = "ready"
  /\ \/ /\ up[Hops(a)[1]]
        /\ client' = [client EXCEPT ![a] = "waits"]
        /\ link' = [link EXCEPT ![a] = Linked(@, 1, FirstRequest(a))]
        /\ handler' = [handler EXCEPT ![a] = Accepted(@, 1)]
     \/ /\ ~up[Hops(a)[1]]
        /\ client' = [client EXCEPT ![a] = "failed"]
        /\ UNCHANGED <<link, handler>>
  /\ UNCHANGED <<up, key, sessions, masters, rotations, crashes, lost>>

\* recv_signed_descriptor() accepts the identity that is pinned for the port.
Receives(a) ==
  /\ client[a] = "waits" /\ link[a][1].up # <<>>
  /\ LET i == Len(masters[a]) + 1  answer == Head(link[a][1].up)
         read == [link[a] EXCEPT ![1].up = Tail(@)]
     IN \/ /\ answer.node = Hops(a)[i]
           /\ masters' = [masters EXCEPT ![a] = Append(@, answer.key)]
           /\ IF i = Len(Hops(a))
                THEN /\ client' = [client EXCEPT ![a] = "ready"]
                     /\ link' = [link EXCEPT ![a] = Hangup(read, 0)]
                ELSE /\ link' = [link EXCEPT ![a] = [read EXCEPT ![1] = SendDown(@, RequestFor(a, i + 1))]]
                     /\ UNCHANGED client
        \* The descriptor is refused, or no key can be derived.
        \/ /\ client' = [client EXCEPT ![a] = "failed"]
           /\ link' = [link EXCEPT ![a] = Hangup(read, 0)]
           /\ UNCHANGED masters
  /\ UNCHANGED <<up, key, sessions, handler, rotations, crashes, lost>>

\* The connection has ended: the attempt fails, and with it the program.
Fails(a) ==
  /\ client[a] = "waits" /\ EndOfUp(link[a][1])
  /\ client' = [client EXCEPT ![a] = "failed"]
  /\ link' = [link EXCEPT ![a] = Hangup(@, 0)]
  /\ UNCHANGED <<up, key, sessions, masters, handler, rotations, crashes, lost>>
-----------------------------------------------------------------------------
(* handle_extend() of a mix node, and the gateway's, which never extends   *)

At(a, k, l) == handler[a][k].pc = l
Goto(a, k, l) == handler' = [handler EXCEPT ![a][k].pc = l]
Return(a, k) == handler' = [handler EXCEPT ![a][k] = Ended] /\ link' = [link EXCEPT ![a] = Hangup(@, k)]

\* Under g_node_kp_lock: snapshot of the public key, and the derivation.
DeriveUnderLock(a, k) ==
  /\ At(a, k, "mode") /\ link[a][k].down # <<>>
  /\ handler' = [handler EXCEPT ![a][k] =
       [pc |-> "alloc", req |-> link[a][k].down, key |-> key[Hops(a)[k]]]]
  /\ link' = [link EXCEPT ![a][k].down = <<>>]
  /\ UNCHANGED <<up, key, sessions, client, masters, rotations, crashes, lost>>

NewSession(a, k) == [node |-> Hops(a)[k], att |-> a, hop |-> k, key |-> handler[a][k].key]

\* Faulty: the handler goes on although nothing could be stored.
ContinuesUnstored(a, k) ==
  /\ sessions' \in {sessions, sessions \cup {NewSession(a, k)}}
  /\ Goto(a, k, "reply") /\ UNCHANGED link

\* Faulty: the handler returns and leaves the connection open.
FullLeavesOpen(a, k) ==
  \/ sessions' = sessions \cup {NewSession(a, k)} /\ Goto(a, k, "reply") /\ UNCHANGED link
  \/ handler' = [handler EXCEPT ![a][k] = Ended] /\ UNCHANGED <<link, sessions>>

\* The session is stored before the answer is sent; the table may be full of
\* the sessions of others.
StoreSession(a, k) ==
  \/ sessions' = sessions \cup {NewSession(a, k)} /\ Goto(a, k, "reply") /\ UNCHANGED link
  \/ Return(a, k) /\ UNCHANGED sessions

Store(a, k) ==
  /\ At(a, k, "alloc") /\ StoreSession(a, k)
  /\ UNCHANGED <<up, key, client, masters, rotations, crashes, lost>>

\* Faulty: the key that is current when the answer is written.
CurrentKey(a, k) == key[Hops(a)[k]]

SnapshotKey(a, k) == handler[a][k].key

\* The answer carries the snapshot, signed; without a signature there is none.
Reply(a, k) ==
  /\ At(a, k, "reply")
  /\ LET sent == [link[a] EXCEPT ![k] = SendUp(@, [node |-> Hops(a)[k], key |-> SnapshotKey(a, k)])] IN
     \/ /\ handler[a][k].req[1].more
        /\ handler' = [handler EXCEPT ![a][k] = [NoHandler EXCEPT !.pc = "relay"]]
        /\ link' = [link EXCEPT ![a] = sent]
     \/ /\ ~handler[a][k].req[1].more
        /\ handler' = [handler EXCEPT ![a][k] = Ended]
        /\ link' = [link EXCEPT ![a] = Hangup(sent, k)]
     \/ Return(a, k)
  /\ UNCHANGED <<up, key, sessions, client, masters, rotations, crashes, lost>>

\* The next frame goes to the next hop as it is.
Relay(a, k) ==
  /\ At(a, k, "relay") /\ link[a][k].down # <<>>
  /\ \/ /\ up[Hops(a)[k + 1]]
        /\ link' = [link EXCEPT ![a] = Linked([@ EXCEPT ![k].down = <<>>], k + 1, link[a][k].down)]
        /\ handler' = [handler EXCEPT ![a] = Accepted([@ EXCEPT ![k].pc = "await"], k + 1)]
     \/ /\ ~up[Hops(a)[k + 1]]
        /\ Return(a, k)
  /\ UNCHANGED <<up, key, sessions, client, masters, rotations, crashes, lost>>

\* One answer back to where the request came from.
Await(a, k) ==
  /\ At(a, k, "await") /\ link[a][k + 1].up # <<>>
  /\ link' = [link EXCEPT ![a][k] = SendUp(@, Head(link[a][k + 1].up)), ![a][k + 1].up = <<>>]
  /\ Goto(a, k, "proxy")
  /\ UNCHANGED <<up, key, sessions, client, masters, rotations, crashes, lost>>

proxy_bidirectional(a, k) ==
  /\ At(a, k, "proxy")
  /\ \/ /\ link[a][k].down # <<>>
        /\ link' = [link EXCEPT ![a][k].down = Tail(@), ![a][k + 1] = SendDown(@, Head(link[a][k].down))]
     \/ /\ link[a][k + 1].up # <<>>
        /\ link' = [link EXCEPT ![a][k + 1].up = Tail(@), ![a][k] = SendUp(@, Head(link[a][k + 1].up))]
  /\ UNCHANGED <<up, key, sessions, client, masters, handler, rotations, crashes, lost>>

\* Faulty: the proxy watches the far side only.
FarSideOnly(a, k) ==
  \/ handler[a][k].pc \in {"mode", "relay"} /\ EndOfDown(link[a][k])
  \/ handler[a][k].pc \in {"await", "proxy"} /\ EndOfUp(link[a][k + 1])

\* Which ends of links a handler that waits would notice.
SeesEnd(a, k) ==
  \/ handler[a][k].pc \in {"mode", "relay", "proxy"} /\ EndOfDown(link[a][k])
  \/ handler[a][k].pc \in {"await", "proxy"} /\ EndOfUp(link[a][k + 1])

HandlerEnds(a, k) ==
  /\ SeesEnd(a, k) /\ Return(a, k)
  /\ UNCHANGED <<up, key, sessions, client, masters, rotations, crashes, lost>>
-----------------------------------------------------------------------------
(* The nodes                                                               *)

node_key_rotation_thread(n) ==
  /\ up[n] /\ rotations < MaxRotations
  /\ key' = [key EXCEPT ![n] = @ + 1] /\ rotations' = rotations + 1
  /\ UNCHANGED <<up, sessions, client, masters, link, handler, crashes, lost>>

\* A node is stopped, or killed by a second send to a closed socket (nothing
\* handles SIGPIPE): its sessions are gone, its sockets are closed.
Crash(n) ==
  /\ up[n] /\ crashes < MaxCrashes /\ crashes' = crashes + 1
  /\ up' = [up EXCEPT ![n] = FALSE]
  /\ sessions' = {s \in sessions : s.node # n}
  /\ lost' = lost \cup {<<s.att, s.hop>> : s \in {s \in sessions : s.node = n}}
  /\ LET Mine(a, k) == k \in DOMAIN Hops(a) /\ Hops(a)[k] = n /\ handler[a][k].pc # "none" IN
     /\ handler' = [a \in Attempts |-> [k \in Positions(a) |-> IF Mine(a, k) THEN Ended ELSE handler[a][k]]]
     /\ link' = [a \in Attempts |-> [k \in Positions(a) |->
          LET l == IF Mine(a, k) THEN CloseFar(link[a][k]) ELSE link[a][k]
          IN  IF Mine(a, k - 1) THEN CloseNear(l) ELSE l]]
  /\ UNCHANGED <<key, client, masters, rotations>>

\* main() makes a fresh handshake key; the identity key is loaded.
Restart(n) ==
  /\ ~up[n]
  /\ up' = [up EXCEPT ![n] = TRUE] /\ key' = [key EXCEPT ![n] = @ + 1]
  /\ UNCHANGED <<sessions, client, masters, link, handler, rotations, crashes, lost>>
-----------------------------------------------------------------------------
ecdhe_telescoped_path(a) == Begin(a) \/ Receives(a) \/ Fails(a)

handle_extend(a, k) ==
  \/ DeriveUnderLock(a, k) \/ Store(a, k) \/ Reply(a, k) \/ Relay(a, k) \/ Await(a, k)
  \/ proxy_bidirectional(a, k) \/ HandlerEnds(a, k)

Next ==
  \/ \E a \in Attempts : ecdhe_telescoped_path(a) \/ \E k \in Positions(a) : handle_extend(a, k)
  \/ \E n \in Nodes : node_key_rotation_thread(n) \/ Crash(n) \/ Restart(n)

\* Of the threads at work on an attempt that can go on, one does: less than a
\* scheduler gives.  A node that is down may stay down.
Fairness ==
  \A a \in Attempts :
    WF_vars(Receives(a) \/ Fails(a) \/ \E k \in Positions(a) : handle_extend(a, k))

Spec     == Init /\ [][Next]_vars
FairSpec == Spec /\ Fairness
-----------------------------------------------------------------------------
(* Properties                                                              *)

\* Every variable holds a value of its type; a link carries one frame at most
\* per direction, which is why a proxy need not know where a frame ends.
TypeOK ==
  LET AtMostOne(q, S) == Len(q) <= 1 /\ \A i \in DOMAIN q : q[i] \in S
      Ends == {"none", "open", "closed"}
      Linkage(l) == l.near \in Ends /\ l.far \in Ends /\ AtMostOne(l.down, Request) /\ AtMostOne(l.up, Answer)
      PCs  == {"none", "mode", "alloc", "reply", "relay", "await", "proxy", "end"}
  IN
  /\ up \in [Nodes -> BOOLEAN] /\ key \in [Nodes -> Nat]
  /\ \A s \in sessions : s.node \in Nodes /\ s.att \in Attempts /\ s.hop \in Nat /\ s.key \in Nat
  /\ \A a \in Attempts :
       /\ client[a] \in {"not begun", "waits", "ready", "failed"}
       /\ masters[a] \in Seq(Nat) /\ Len(masters[a]) <= Len(Hops(a))
       /\ \A k \in Positions(a) : Linkage(link[a][k]) /\ handler[a][k].pc \in PCs
  /\ rotations \in 0 .. MaxRotations /\ crashes \in 0 .. MaxCrashes

\* Whatever key a program has derived for a hop, at that moment and later, the
\* hop holds the session with the same key, however handshakes and rotations
\* interleave, unless the hop has been restarted since ("both must come from
\* the exact same keypair, even if node_key_rotation_thread() swaps g_node_kp
\* out immediately after this unlocks", mix_node.c:1049).
KeysAgree ==
  \A a \in Attempts : \A i \in 1 .. Len(masters[a]) :
    \/ [node |-> Hops(a)[i], att |-> a, hop |-> i, key |-> masters[a][i]] \in sessions
    \/ <<a, i>> \in lost

\* An attempt that fails leaves sessions behind on the first hops only, at most
\* one of them unknown to the program: no hop is extended to before all hops
\* in front of it are agreed upon.
StoredAreAPrefix ==
  \A a \in Attempts :
    \A k \in {s.hop : s \in {t \in sessions : t.att = a}} :
      /\ k <= Len(masters[a]) + 1
      /\ \A i \in 1 .. k - 1 : <<a, i>> \in lost \/ \E s \in sessions : s.att = a /\ s.hop = i

\* The program learns how its attempt ends, although no socket has a timeout:
\* every failure at any hop, a full table, a node that is down or dies, is
\* passed back as the end of a connection.
AttemptEnds == \A a \in Attempts : client[a] = "waits" ~> client[a] \in {"ready", "failed"}

\* And no thread is left behind: once a program is through with an attempt,
\* all handlers of its chain return.
HandlersEnd ==
  \A a \in Attempts : client[a] \in {"ready", "failed"} ~> \A k \in Positions(a) : handler[a][k].pc \in {"none", "end"}
=============================================================================
