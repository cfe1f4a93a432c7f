---------------------------- MODULE Instance_proofs ----------------------------
(***************************************************************************)
(* Proofs about Instance, for any number of sandboxes in the pod, of calls *)
(* to the agent and of Stops.                                              *)
(*                                                                         *)
(* The invariant has three parts that are proved one after the other, for  *)
(* a step of the instance is a step of the pod's network or none, and a    *)
(* step of the agent connection or none: PodInv, AgentInv, and OwnInv,     *)
(* which says what the creator and the Stops know of the other two.        *)
(***************************************************************************)
EXTENDS Instance, SequenceTheorems, TLAPS

-----------------------------------------------------------------------------
(* The pod's network *)

\* The sandboxes that have eth0's qdisc: the one whose tc made it.
Owners == {i \in Insts : setup[i] \in {"addRedirect", "mirror", "up"}}

\* UpIsBridged is not inductive: the qdisc must keep others out from the moment
\* it is there, long before the sandbox that made it is up.
PodInv ==
  /\ PodTypeOK
  /\ \A i \in Owners : pod.ingress /\ (\A j \in Owners : i = j)
  /\ \A i \in Insts :
       /\ setup[i] \in {"addIngress", "addRedirect", "mirror", "up"} => i \in pod.taps
       /\ setup[i] \in {"mirror", "up"} => pod.redirect = i
       /\ setup[i] = "up" => i \in pod.mirrored
       /\ setup[i] \in {"none", "addTap"} => i \notin pod.taps
       /\ setup[i] \in {"refused", "gone"} /\ i \in pod.taps => i \in pod.stuck
       /\ i \in pod.stuck => i \in pod.taps /\ setup[i] \in {"refused", "gone"}

PodStep(i) == BeginSetup(i) \/ SetupTap(i) \/ RemoveTap(i)

\* A step of a sandbox keeps the types, and leaves the others' progress and TAPs alone.
LEMMA PodLocal ==
  ASSUME PodTypeOK, NEW i \in Insts, PodStep(i)
  PROVE  /\ PodTypeOK'
         /\ \A j \in Insts \ {i} : setup'[j] = setup[j]
         /\ \A j \in Insts \ {i} : j \in pod'.taps <=> j \in pod.taps
         /\ \A j \in Insts \ {i} : j \in pod'.stuck <=> j \in pod.stuck
<1>s. \A p \in SetupPoints : To(i, p) => /\ setup' \in [Insts -> SetupPoints]
                                        /\ \A j \in Insts \ {i} : setup'[j] = setup[j]
  BY DEF PodTypeOK, To
<1> DEFINE Pods == [taps : SUBSET Insts, mirrored : SUBSET Insts, stuck : SUBSET Insts,
                    ingress : BOOLEAN, redirect : Insts \cup {NoInst}]
           PodOK == /\ pod' \in Pods
                    /\ \A j \in Insts \ {i} : j \in pod'.taps <=> j \in pod.taps
                    /\ \A j \in Insts \ {i} : j \in pod'.stuck <=> j \in pod.stuck
<1>p. pod \in Pods
  BY DEF PodTypeOK
<1>q. UNCHANGED pod => PodOK
  BY <1>p
<1>r. pod' = [pod EXCEPT !.taps = @ \cup {i}] => PodOK
  BY <1>p
<1>u. pod' = [pod EXCEPT !.ingress = TRUE] \/ pod' = [pod EXCEPT !.redirect = i] => PodOK
  BY <1>p
<1>v. pod' = [pod EXCEPT !.mirrored = @ \cup {i}] \/ pod' = [pod EXCEPT !.stuck = @ \cup {i}] => PodOK
  BY <1>p
<1>w. ASSUME pod' = [pod EXCEPT !.taps = @ \ {i}, !.mirrored = @ \ {i}, !.stuck = @ \ {i}] PROVE PodOK
  <2>1. pod' \in Pods
    BY <1>p, <1>w
  <2>2. pod'.taps = pod.taps \ {i} /\ pod'.stuck = pod.stuck \ {i}
    BY <1>p, <1>w
  <2> QED
    BY <2>1, <2>2
<1>x. TeardownTap(i) => PodOK
  BY <1>v, <1>w DEF TeardownTap
<1> HIDE DEF PodOK, Pods
<1>1. PodOK /\ \E p \in SetupPoints : To(i, p)
  <2>1. CASE BeginSetup(i)
    BY <1>q, <2>1 DEF BeginSetup, SetupPoints, InSetup
  <2>2. CASE AddTap(i)
    BY <1>q, <1>r, <2>2 DEF AddTap, SetupPoints, InSetup
  <2>3. CASE AddIngress(i) \/ AddRedirect(i)
    BY <1>q, <1>u, <2>3 DEF AddIngress, AddRedirect, SetupPoints, InSetup
  <2>4. CASE MirrorTap(i)
    BY <1>q, <1>v, <2>4 DEF MirrorTap, SetupPoints, InSetup
  <2>5. CASE Rollback(i) \/ RemoveTap(i)
    BY <1>x, <2>5 DEF Rollback, RemoveTap, SetupPoints, InSetup
  <2> QED
    BY <2>1, <2>2, <2>3, <2>4, <2>5 DEF PodStep, SetupTap
<1>2. pod' \in Pods /\ PodTypeOK'
  BY <1>1, <1>s DEF PodOK, Pods, PodTypeOK
<1> QED
  BY <1>1, <1>2, <1>s DEF PodOK

\* A step of a sandbox keeps the whole invariant. (vmnet.go SetupTap, TeardownTap)
LEMMA PodKept ==
  ASSUME PodInv, NEW i \in Insts, PodStep(i)
  PROVE  PodInv'
<1>1. PodTypeOK'
  BY PodLocal DEF PodInv
<1>2. CASE BeginSetup(i)
  BY <1>1, <1>2 DEF PodInv, PodTypeOK, Owners, BeginSetup, To
<1>3. CASE AddTap(i)
  BY <1>1, <1>3 DEF PodInv, PodTypeOK, Owners, AddTap, To
<1>4. CASE AddIngress(i)
  BY <1>1, <1>4 DEF PodInv, PodTypeOK, Owners, AddIngress, To
<1>5. CASE AddRedirect(i)
  BY <1>1, <1>5 DEF PodInv, PodTypeOK, Owners, AddRedirect, To
<1>6. CASE MirrorTap(i)
  BY <1>1, <1>6 DEF PodInv, PodTypeOK, Owners, MirrorTap, To
<1>t. ASSUME TeardownTap(i), NEW p \in {"refused", "gone"}, To(i, p), setup[i] \in {"rollback", "up", "gone"}
      PROVE  PodInv'
  <2>p. pod \in [taps : SUBSET Insts, mirrored : SUBSET Insts, stuck : SUBSET Insts,
                ingress : BOOLEAN, redirect : Insts \cup {NoInst}]
    BY DEF PodInv, PodTypeOK
  <2>1. /\ pod'.ingress = pod.ingress /\ pod'.redirect = pod.redirect
        /\ i \in pod'.taps <=> i \in pod'.stuck
        /\ \A j \in Insts \ {i} : j \in pod.mirrored => j \in pod'.mirrored
    <3>1. CASE pod' = [pod EXCEPT !.taps = @ \ {i}, !.mirrored = @ \ {i}, !.stuck = @ \ {i}]
      <4>1. /\ pod'.taps = pod.taps \ {i} /\ pod'.mirrored = pod.mirrored \ {i}
            /\ pod'.stuck = pod.stuck \ {i} /\ pod'.ingress = pod.ingress
            /\ pod'.redirect = pod.redirect
        BY <2>p, <3>1
      <4> QED
        BY <4>1
    <3>2. CASE i \in pod.taps /\ pod' = [pod EXCEPT !.stuck = @ \cup {i}]
      <4>1. /\ pod'.taps = pod.taps /\ pod'.mirrored = pod.mirrored
            /\ pod'.stuck = pod.stuck \cup {i} /\ pod'.ingress = pod.ingress
            /\ pod'.redirect = pod.redirect
        BY <2>p, <3>2
      <4> QED
        BY <3>2, <4>1
    <3> QED
      BY <1>t, <3>1, <3>2 DEF TeardownTap
  <2>2. setup'[i] = p /\ i \notin Owners'
    BY <1>t DEF PodInv, PodTypeOK, Owners, To
  <2>3. \A j \in Insts \ {i} : /\ setup'[j] = setup[j] /\ (j \in Owners' <=> j \in Owners)
                              /\ (j \in pod'.taps <=> j \in pod.taps)
                              /\ (j \in pod'.stuck <=> j \in pod.stuck)
    BY PodLocal DEF PodInv, Owners
  <2> QED
    BY <1>1, <2>1, <2>2, <2>3 DEF PodInv, Owners
<1>7. CASE Rollback(i)
  BY <1>t, <1>7 DEF Rollback
<1>8. CASE RemoveTap(i)
  BY <1>t, <1>8 DEF RemoveTap
<1> QED
  BY <1>2, <1>3, <1>4, <1>5, <1>6, <1>7, <1>8 DEF PodStep, SetupTap

\* What CNI hands over satisfies it.
LEMMA PodStarts == PodInit => PodInv
BY NoInstAssumption DEF PodInit, PodInv, PodTypeOK, Owners, SetupPoints

\* For any number of sandboxes of a pod, in any order and at once: the one whose
\* SetupTap succeeded keeps the pod's traffic until its TAP is removed.
\* (vmnet.go:99-131)
THEOREM Bridged == PodSpec => []UpIsBridged
<1>1. PodInv /\ [PodNext]_podVars => PodInv'
  <2> SUFFICES ASSUME PodInv, [PodNext]_podVars PROVE PodInv'
    OBVIOUS
  <2>1. CASE PodNext
    BY <2>1, PodKept DEF PodNext, PodStep
  <2>2. CASE UNCHANGED podVars
    BY <2>2 DEF podVars, PodInv, PodTypeOK, Owners
  <2> QED
    BY <2>1, <2>2
<1>2. PodInv => UpIsBridged
  BY DEF PodInv, UpIsBridged, Owners
<1> QED
  BY <1>1, <1>2, PodStarts, PTL DEF PodSpec

-----------------------------------------------------------------------------
(* The agent connection *)

Quiet == sent = <<>> /\ server.cur = NoCall /\ replies = <<>>

\* A request, or its response, is in one of the three places.
Carries(c) ==
  \/ sent = <<c>> /\ server.cur = NoCall /\ replies = <<>>
  \/ sent = <<>> /\ server.cur = c /\ replies = <<>>
  \/ sent = <<>> /\ server.cur = NoCall /\ replies = <<c>>

ServerOK == /\ server.pc \in {"handle", "encode"} => server.cur \in Calls
            /\ server.pc \in {"decode", "ended"} => server.cur = NoCall

\* Only the holder of c.mu is past the lock.
LockOK == \A c \in Calls : call[c] \in {"send", "recv"} => holder = c

\* NoCrossedAnswers is not inductive: what is on an open connection must be the
\* reader's, and a dead one must not hold an answer when its reader has gone.
LineOK ==
  /\ conn = "none" => Quiet /\ \A c \in Calls : call[c] = "idle"
  /\ conn = "open" => Quiet \/ \E c \in Calls : call[c] = "recv" /\ Carries(c)
  /\ conn = "broken" => /\ server.pc = "ended"
                        /\ replies = <<>> \/ \E c \in Calls : call[c] = "recv" /\ replies = <<c>>
  /\ \A c \in Calls : call[c] = "recv" => replies \in {<<>>, <<c>>}

AgentInv == TypeOK /\ ServerOK /\ LockOK /\ LineOK /\ NoCrossedAnswers

LEMMA AgentStarts == Init => AgentInv
<1> SUFFICES ASSUME Init PROVE AgentInv
  OBVIOUS
<1>1. TypeOK
  <2>1. /\ call \in [Calls -> {"idle", "queued", "send", "recv", "answered", "failed", "crossed"}]
        /\ ran \in [Calls -> Nat]
    BY DEF Init
  <2>2. sent \in Seq(Calls) /\ replies \in Seq(Calls)
    BY DEF Init
  <2>3. server \in [pc : {"decode", "handle", "encode", "ended"}, cur : CallOrNone]
    BY DEF Init, CallOrNone
  <2> QED
    BY <2>1, <2>2, <2>3 DEF Init, TypeOK, CallOrNone
<1>2. ServerOK /\ LockOK /\ LineOK /\ NoCrossedAnswers
  BY DEF Init, ServerOK, LockOK, LineOK, Quiet, NoCrossedAnswers
<1> QED
  BY <1>1, <1>2 DEF AgentInv

\* Facts about sequences of at most one element.
LEMMA Single ==
  ASSUME NEW S, NEW c \in S
  PROVE  /\ Append(<<>>, c) = <<c>>
         /\ Head(<<c>>) = c
         /\ Tail(<<c>>) = <<>>
         /\ <<c>> # <<>>
         /\ <<c>> \in Seq(S)
<1>1. Append(<<>>, c) = <<c>>
  OBVIOUS
<1>2. Head(<<c>>) = c /\ Tail(<<c>>) = <<>>
  OBVIOUS
<1>3. <<c>> # <<>> /\ <<c>> \in Seq(S)
  OBVIOUS
<1> QED
  BY <1>1, <1>2, <1>3

\* A sequence that is appended to, or that loses its head, keeps its type.
LEMMA KeepsType ==
  ASSUME NEW S, NEW s \in Seq(S)
  PROVE  /\ \A c \in S : Append(s, c) \in Seq(S)
         /\ s # <<>> => Head(s) \in S /\ Tail(s) \in Seq(S)
OBVIOUS

\* Every step of a caller, of the server and of Stop keeps the types.
LEMMA AgentTyped == TypeOK /\ ServerOK /\ [Next]_vars => TypeOK' /\ ServerOK'
<1> SUFFICES ASSUME TypeOK, ServerOK, [Next]_vars PROVE TypeOK' /\ ServerOK'
  OBVIOUS
<1> DEFINE Points == {"idle", "queued", "send", "recv", "answered", "failed", "crossed"}
           Servers == [pc : {"decode", "handle", "encode", "ended"}, cur : CallOrNone]
<1>t. /\ call \in [Calls -> Points] /\ holder \in CallOrNone
      /\ conn \in {"none", "open", "closed", "broken"} /\ stopping \in BOOLEAN
      /\ sent \in Seq(Calls) /\ replies \in Seq(Calls)
      /\ server \in Servers /\ ran \in [Calls -> Nat]
  BY DEF TypeOK
<1>i. ASSUME call' \in [Calls -> Points], holder' \in CallOrNone,
             conn' \in {"none", "open", "closed", "broken"}, stopping' \in BOOLEAN,
             sent' \in Seq(Calls), replies' \in Seq(Calls),
             server' \in Servers, ran' \in [Calls -> Nat], ServerOK'
      PROVE  TypeOK' /\ ServerOK'
  BY <1>i DEF TypeOK
<1>g. \A c \in Calls : \A p \in Points : Goto(c, p) => call' \in [Calls -> Points]
  BY <1>t DEF Goto
<1>n. NoCall \in CallOrNone /\ Calls \subseteq CallOrNone
  BY DEF CallOrNone
<1>s. \A p \in {"decode", "ended"} :
        server' = [pc |-> p, cur |-> NoCall] => server' \in Servers /\ ServerOK'
  BY <1>n DEF ServerOK
<1>u. UNCHANGED server => ServerOK'
  BY DEF ServerOK
<1> HIDE DEF Points, Servers
<1>p. {"idle", "queued", "send", "recv", "answered", "failed", "crossed"} \subseteq Points
  BY DEF Points
<1>1. ASSUME NEW c \in Calls, Request(c) \/ Lock(c)
      PROVE  TypeOK' /\ ServerOK'
  BY <1>1, <1>t, <1>i, <1>g, <1>n, <1>u, <1>p DEF Request, Lock
<1>2. ASSUME NEW c \in Calls, Send(c)
      PROVE  TypeOK' /\ ServerOK'
  <2>1. sent' \in Seq(Calls)
    BY <1>2, <1>t, KeepsType DEF Send
  <2> QED
    BY <1>2, <2>1, <1>t, <1>i, <1>g, <1>n, <1>u, <1>p DEF Send, Return
<1>3. ASSUME NEW c \in Calls, Recv(c)
      PROVE  TypeOK' /\ ServerOK'
  <2>1. replies' \in Seq(Calls)
    BY <1>3, <1>t, KeepsType DEF Recv
  <2>2. call' \in [Calls -> Points]
    BY <1>3, <1>g, <1>p DEF Recv, Return
  <2> QED
    BY <1>3, <2>1, <2>2, <1>t, <1>i, <1>n, <1>u DEF Recv, Return
<1>4. CASE Dial \/ BeginStop \/ Close
  BY <1>4, <1>t, <1>i, <1>u DEF Dial, BeginStop, Close
<1>5. CASE GuestEnds
  BY <1>5, <1>t, <1>i, <1>s DEF GuestEnds
<1>6. CASE Decode
  <2>1. ASSUME sent # <<>>, server' = [pc |-> "handle", cur |-> Head(sent)], sent' = Tail(sent)
        PROVE  server' \in Servers /\ ServerOK' /\ sent' \in Seq(Calls)
    <3>1. Head(sent) \in Calls /\ sent' \in Seq(Calls)
      BY <2>1, <1>t, KeepsType
    <3> QED
      BY <3>1, <2>1, <1>n DEF Servers, ServerOK
  <2> QED
    BY <1>6, <2>1, <1>t, <1>i, <1>s DEF Decode
<1>7. CASE Handle
  <2>1. server' = [server EXCEPT !.pc = "encode"] /\ server.pc = "handle"
    BY <1>7 DEF Handle
  <2>2. server.cur \in Calls /\ server' \in Servers /\ ServerOK'
    BY <2>1, <1>t DEF Servers, ServerOK
  <2>3. ran' \in [Calls -> Nat]
    BY <1>7, <2>2, <1>t DEF Handle
  <2> QED
    BY <1>7, <2>2, <2>3, <1>t, <1>i DEF Handle
<1>8. CASE Encode
  <2>1. server.cur \in Calls
    BY <1>8 DEF Encode, ServerOK
  <2>2. replies' \in Seq(Calls)
    BY <1>8, <2>1, <1>t, KeepsType DEF Encode
  <2> QED
    BY <1>8, <2>2, <1>t, <1>i, <1>s DEF Encode
<1>9. CASE UNCHANGED vars
  BY <1>9, <1>t, <1>i, <1>u DEF vars
<1> QED
  BY <1>1, <1>2, <1>3, <1>4, <1>5, <1>6, <1>7, <1>8, <1>9 DEF Next, RoundTrip

\* And the rest of the invariant. (client.go roundTrip, server.go handleConn)
LEMMA AgentKept == AgentInv /\ [Next]_vars => AgentInv'
<1> SUFFICES ASSUME AgentInv, [Next]_vars PROVE AgentInv'
  OBVIOUS
<1>t. TypeOK' /\ ServerOK'
  BY AgentTyped DEF AgentInv
<1>u. TypeOK /\ ServerOK /\ LockOK /\ LineOK /\ NoCrossedAnswers
  BY DEF AgentInv
<1>i. ASSUME LockOK', LineOK', NoCrossedAnswers' PROVE AgentInv'
  BY <1>i, <1>t DEF AgentInv
<1>1. ASSUME NEW c \in Calls, Request(c)
      PROVE  LockOK' /\ LineOK' /\ NoCrossedAnswers'
  BY <1>1, <1>u DEF TypeOK, LockOK, LineOK, Quiet, Carries, NoCrossedAnswers, Request, Goto
<1>2. ASSUME NEW c \in Calls, Lock(c)
      PROVE  LockOK' /\ LineOK' /\ NoCrossedAnswers'
  BY <1>2, <1>u, NoCallAssumption DEF TypeOK, LockOK, LineOK, Quiet, Carries, NoCrossedAnswers, Lock, Goto
<1>3. ASSUME NEW c \in Calls, Send(c)
      PROVE  LockOK' /\ LineOK' /\ NoCrossedAnswers'
  BY <1>3, <1>u, Single, NoCallAssumption
     DEF TypeOK, LockOK, LineOK, Quiet, Carries, NoCrossedAnswers, Send, Goto, Return
<1>4. ASSUME NEW c \in Calls, Recv(c)
      PROVE  LockOK' /\ LineOK' /\ NoCrossedAnswers'
  BY <1>4, <1>u, Single, NoCallAssumption
     DEF TypeOK, LockOK, LineOK, Quiet, Carries, NoCrossedAnswers, Recv, Goto, Return
<1>5. CASE Dial
  BY <1>5, <1>u, <1>i DEF TypeOK, LockOK, LineOK, Quiet, Carries, NoCrossedAnswers, Dial
<1>6. CASE BeginStop
  BY <1>6, <1>u, <1>i DEF TypeOK, LockOK, LineOK, Quiet, Carries, NoCrossedAnswers, BeginStop
<1>7. CASE Close
  BY <1>7, <1>u, <1>i DEF TypeOK, LockOK, LineOK, Quiet, Carries, NoCrossedAnswers, Close
<1>8. CASE GuestEnds
  BY <1>8, <1>u, <1>i DEF TypeOK, LockOK, LineOK, Quiet, Carries, NoCrossedAnswers, GuestEnds
<1>9. CASE Decode
  <2>1. UNCHANGED <<call, holder, conn, replies>> /\ server.pc = "decode"
    BY <1>9 DEF Decode
  <2>2. LockOK' /\ NoCrossedAnswers' /\ server.cur = NoCall /\ conn # "broken"
    BY <2>1, <1>u DEF LockOK, NoCrossedAnswers, ServerOK, LineOK
  <2>3. CASE conn = "open"
    <3>1. sent # <<>> /\ server'.cur = Head(sent) /\ sent' = Tail(sent)
      BY <1>9, <2>3 DEF Decode
    <3>2. PICK c \in Calls : call[c] = "recv" /\ Carries(c)
      BY <1>u, <2>3, <3>1 DEF LineOK, Quiet
    <3>3. sent = <<c>> /\ replies = <<>>
      BY <2>2, <3>1, <3>2, NoCallAssumption DEF Carries
    <3>4. server'.cur = c /\ sent' = <<>>
      BY <3>1, <3>3, Single
    <3> QED
      BY <1>i, <1>u, <2>1, <2>2, <2>3, <3>2, <3>3, <3>4 DEF LineOK, Carries
  <2>4. CASE conn = "none"
    BY <1>9, <1>u, <2>4 DEF Decode, LineOK, Quiet
  <2>5. CASE conn = "closed"
    BY <1>i, <1>u, <2>1, <2>2, <2>5 DEF LineOK
  <2> QED
    BY <2>2, <2>3, <2>4, <2>5, <1>u DEF TypeOK
<1>10. CASE Handle
  BY <1>10, <1>u, <1>i DEF TypeOK, ServerOK, LockOK, LineOK, Quiet, Carries, NoCrossedAnswers, Handle
<1>11. CASE Encode
  <2>1. UNCHANGED <<call, holder, conn, sent>> /\ server.pc = "encode"
    BY <1>11 DEF Encode
  <2>2. LockOK' /\ NoCrossedAnswers' /\ server.cur \in Calls
    BY <2>1, <1>u DEF LockOK, NoCrossedAnswers, ServerOK
  <2>3. CASE conn = "open"
    <3>1. server'.cur = NoCall /\ replies' = Append(replies, server.cur)
      BY <1>11, <2>3 DEF Encode
    <3>2. PICK c \in Calls : call[c] = "recv" /\ Carries(c)
      BY <1>u, <2>2, <2>3, NoCallAssumption DEF LineOK, Quiet
    <3>3. sent = <<>> /\ server.cur = c /\ replies = <<>>
      BY <2>2, <3>2, NoCallAssumption DEF Carries
    <3>4. replies' = <<c>>
      BY <3>1, <3>3, Single
    <3>5. \A d \in Calls : call[d] = "recv" => d = c
      BY <1>u, <3>2 DEF LockOK
    <3> QED
      BY <1>i, <2>1, <2>2, <2>3, <3>1, <3>2, <3>3, <3>4, <3>5 DEF LineOK, Carries
  <2>4. CASE conn = "closed"
    BY <1>11, <1>i, <1>u, <2>1, <2>2, <2>4 DEF Encode, LineOK
  <2> QED
    BY <2>3, <2>4, <1>11 DEF Encode
<1>12. CASE UNCHANGED vars
  BY <1>12, <1>u, <1>i DEF LockOK, LineOK, Quiet, Carries, NoCrossedAnswers, vars
<1> QED
  BY <1>1, <1>2, <1>3, <1>4, <1>5, <1>6, <1>7, <1>8, <1>9, <1>10, <1>11, <1>12, <1>i DEF Next, RoundTrip

-----------------------------------------------------------------------------
(* The instance *)

StopPoints == {"idle", "close", "check", "delTap", "shutdown", "reap", "done", "panicked"}

OwnTyped == /\ creator \in Creating \cup {"none", "running", "undo", "failed"}
            /\ stop \in [Actors -> StopPoints]
            /\ vmm \in {"none", "up", "deaf", "hung", "dead"}
            /\ netCfg \in BOOLEAN

BeforeNet == {"none", "api", "pack", "config", "overlay", "restore", "restoreDial",
              "restoreConfig", "failed"}
AfterNet == {"create", "boot", "dial", "ping", "openTap", "addNet", "configure"}
Dialled == {"ping", "restoreConfig", "restoreNetwork", "openTap", "addNet", "configure", "running"}

\* What each point of Create and Restore knows of the connection, the TAP and the VMM.
CreatorKnows ==
  /\ stopping => creator \in {"undo", "running"}
  /\ creator \in Dialled => conn # "none"
  /\ creator \in {"none", "overlay", "failed"} => conn = "none"
  /\ creator \in BeforeNet => setup[Self] = "none"
  /\ creator \in {"network", "restoreNetwork"} <=> setup[Self] \in InSetup
  /\ setup[Self] \in {"refused", "gone"} => creator \in {"running", "undo"}
  /\ HasNetns /\ creator \in AfterNet => netCfg
  /\ HasNetns /\ creator = "running" /\ ~stopping => netCfg
  /\ creator = "none" <=> vmm = "none"
  /\ creator = "failed" => vmm = "dead"

\* What each point of Stop has done for good, whichever Stop did it.
StopKnows ==
  /\ \A a \in Actors : stop[a] # "idle" => stopping
  /\ \A a \in Actors : stop[a] \in {"check", "delTap", "shutdown", "reap", "done"} =>
                       conn \in {"none", "closed"}
  /\ \A a \in Actors : stop[a] \in {"shutdown", "reap", "done"} => ~netCfg
  /\ \A a \in Actors : stop[a] = "done" => vmm = "dead"

Recorded == netCfg <=> setup[Self] = "up"

OwnInv == OwnTyped /\ CreatorKnows /\ StopKnows /\ Recorded

IInv == PodInv /\ AgentInv /\ OwnInv

\* A step of the instance is one of the agent connection or none, and one of a
\* sandbox in the pod's network or none.
LEMMA Parts == INext => [Next]_vars /\ (UNCHANGED podVars \/ \E i \in Insts : PodStep(i))
<1> SUFFICES ASSUME INext
             PROVE  [Next]_vars /\ (UNCHANGED podVars \/ \E i \in Insts : PodStep(i))
  OBVIOUS
<1>a. Self \in Insts /\ PingCall \in Calls /\ NetCall \in Calls
  BY InstanceAssumption
<1>1. CASE Begin
  BY <1>1 DEF Begin
<1>2. CASE Create
  <2>1. CASE LinkOverlay
    BY <2>1 DEF LinkOverlay
  <2>2. CASE CallApi \/ PackRootfs \/ OpenTap
    BY <2>2 DEF CallApi, PackRootfs, OpenTap, Fail, Next
  <2>3. CASE ReadConfig
    BY <2>3, <1>a DEF ReadConfig, Fail, Next, PodStep
  <2>4. CASE SetupNetwork
    BY <2>4, <1>a DEF SetupNetwork, Fail, Next, PodStep
  <2>5. CASE DialAgent \/ AddNet
    BY <2>5 DEF DialAgent, AddNet, Fail, Next
  <2>6. CASE AskAgent
    BY <2>6, <1>a DEF AskAgent, Asked, Next
  <2>7. CASE AgentAnswers
    BY <2>7 DEF AgentAnswers, Fail, Next
  <2> QED
    BY <1>2, <2>1, <2>2, <2>3, <2>4, <2>5, <2>6, <2>7 DEF Create
<1>3. ASSUME NEW c \in Calls, CallGoesOn(c) \/ Use(c)
      PROVE  [Next]_vars /\ UNCHANGED podVars
  BY <1>3 DEF CallGoesOn, Use, Next
<1>4. CASE Cancel
  BY <1>4 DEF Cancel, Fail, Next
<1>5. ASSUME NEW a \in Actors, Stop(a)
      PROVE  [Next]_vars /\ (UNCHANGED podVars \/ \E i \in Insts : PodStep(i))
  <2>1. CASE CloseAgent(a) \/ CheckNet(a)
    BY <2>1 DEF CloseAgent, CheckNet, Next
  <2>2. CASE DeleteTap(a)
    BY <2>2, <1>a DEF DeleteTap, PodStep
  <2>3. CASE ShutdownVMM(a) \/ Reap(a)
    BY <2>3 DEF ShutdownVMM, Reap, VmmEnds, Next
  <2> QED
    BY <1>5, <2>1, <2>2, <2>3 DEF Stop
<1>6. ASSUME NEW s \in Stops, StopCall(s) \/ CancelStop(s)
      PROVE  [Next]_vars /\ UNCHANGED podVars
  BY <1>6 DEF StopCall, CancelStop, Next
<1>7. CASE Guest(Decode) \/ Guest(Handle) \/ Guest(Encode)
  BY <1>7 DEF Guest, Next
<1>8. CASE VmmDies \/ VmmHangs \/ GuestHangs
  BY <1>8 DEF VmmDies, VmmHangs, GuestHangs, VmmEnds, Next
<1>9. ASSUME NEW i \in Insts \ {Self}, Neighbour(i)
      PROVE  UNCHANGED vars /\ PodStep(i)
  BY <1>9 DEF Neighbour, PodStep
<1> QED
  BY <1>a, <1>1, <1>2, <1>3, <1>4, <1>5, <1>6, <1>7, <1>8, <1>9 DEF INext, CreatorGoesOn, Users

\* The creator's goroutine works alone: no Stop has begun while it creates.
LEMMA CreatingAlone ==
  ASSUME OwnInv, creator \in Creating \cup {"none"}
  PROVE  ~stopping /\ \A a \in Actors : stop[a] = "idle"
BY DEF OwnInv, CreatorKnows, StopKnows, Creating, After, Netns

\* Steps of the calls, of the guest and of the neighbours.
LEMMA OwnFrame ==
  ASSUME OwnInv, UNCHANGED <<ownVars, conn, stopping>>, setup'[Self] = setup[Self]
  PROVE  OwnInv'
BY DEF OwnInv, OwnTyped, CreatorKnows, StopKnows, Recorded, ownVars

\* The creator goes on to a point whose knowledge it has gathered.
LEMMA Goes ==
  ASSUME OwnInv, creator \in Creating \cup {"none"}, UNCHANGED <<stop, stopping>>,
         creator' \in Creating \cup {"running", "failed"},
         vmm' \in {"none", "up", "deaf", "hung", "dead"}, netCfg' \in BOOLEAN,
         CreatorKnows', Recorded'
  PROVE  OwnInv'
BY CreatingAlone DEF OwnInv, OwnTyped, StopKnows

\* The creator gives up: its Stop is the first.
LEMMA Fails ==
  ASSUME OwnInv, creator \in Creating, Fail, UNCHANGED vmm, netCfg' \in BOOLEAN, Recorded',
         setup'[Self] \notin InSetup
  PROVE  OwnInv'
<1>1. creator' = "undo" /\ stop' = [stop EXCEPT ![Self] = "close"] /\ stopping' /\ Self \in Actors
  BY DEF Fail, StopBy, BeginStop, Actors
<1>2. OwnTyped'
  BY <1>1 DEF OwnInv, OwnTyped, StopPoints
<1>3. \A a \in Actors : stop'[a] \in {"idle", "close"}
  BY <1>1, CreatingAlone DEF OwnInv, OwnTyped
<1>4. StopKnows'
  BY <1>1, <1>3 DEF StopKnows
<1>5. vmm' # "none"
  BY DEF OwnInv, CreatorKnows, Creating, After, Netns
<1>6. CreatorKnows'
  BY <1>1, <1>5 DEF CreatorKnows, Dialled, BeforeNet, AfterNet
<1> QED
  BY <1>2, <1>4, <1>6 DEF OwnInv

\* Each step of Create and Restore. (driver.go Create, Restore, boot, netguest.go)
LEMMA CreateKeeps == IInv /\ Create => OwnInv'
<1> SUFFICES ASSUME IInv, Create PROVE OwnInv'
  OBVIOUS
<1>t. /\ OwnInv /\ CreatorKnows /\ Recorded
      /\ vmm \in {"none", "up", "deaf", "hung", "dead"} /\ netCfg \in BOOLEAN
      /\ conn \in {"none", "open", "closed", "broken"}
  BY DEF IInv, OwnInv, OwnTyped, AgentInv, TypeOK
<1>f. ASSUME creator \in Creating, Fail, UNCHANGED <<vmm, netCfg, podVars>>,
             creator \notin {"network", "restoreNetwork"}
      PROVE  OwnInv'
  <2>1. setup'[Self] \notin InSetup /\ Recorded'
    BY <1>f, <1>t DEF podVars, CreatorKnows, Recorded
  <2> QED
    BY <1>f, <1>t, <2>1, Fails
<1>n. UNCHANGED vars => UNCHANGED <<conn, stopping>>
  BY DEF vars
<1>o. UNCHANGED podVars => UNCHANGED setup
  BY DEF podVars
<1>1. CASE LinkOverlay
  <2>1. creator = "overlay" /\ creator' \in {"restore", "failed"} /\ UNCHANGED <<stop, netCfg>>
    BY <1>1 DEF LinkOverlay, At, Proceed, After, Netns
  <2>2. CreatorKnows' /\ Recorded' /\ vmm' \in {"none", "up", "deaf", "hung", "dead"}
    BY <1>1, <1>t, <1>n, <1>o, <2>1, CreatingAlone
       DEF LinkOverlay, At, Proceed, After, Netns, CreatorKnows, Recorded, Creating, BeforeNet, AfterNet, Dialled
  <2> QED
    BY <1>1, <1>t, <1>n, <2>1, <2>2, Goes DEF LinkOverlay, Creating, After, Netns
<1>2. CASE CallApi
  <2>1. CASE Fail
    BY <1>2, <1>f, <2>1 DEF CallApi, At, Creating, After, Netns
  <2>2. CASE Proceed /\ UNCHANGED <<stop, vars>>
    <3>1. creator \in {"api", "create", "boot", "restore"} /\ creator' = After[creator]
      BY <1>2, <2>2 DEF CallApi, At, Proceed
    <3>2. CreatorKnows' /\ Recorded'
      BY <1>2, <1>t, <1>n, <1>o, <2>2, <3>1
         DEF CallApi, After, Netns, CreatorKnows, Recorded, BeforeNet, AfterNet, Dialled
    <3> QED
      BY <1>2, <1>t, <1>n, <2>2, <3>1, <3>2, Goes DEF CallApi, Creating, After, Netns
  <2> QED
    BY <1>2, <2>1, <2>2 DEF CallApi
<1>3. CASE PackRootfs \/ OpenTap \/ AddNet
  <2>1. creator \in {"pack", "openTap", "addNet"} /\ UNCHANGED <<vmm, netCfg, podVars>>
    BY <1>3 DEF PackRootfs, OpenTap, AddNet, At
  <2>2. CASE Fail
    BY <1>f, <2>1, <2>2 DEF Creating, After, Netns
  <2>3. CASE Proceed /\ UNCHANGED <<stop, vars>>
    <3>1. creator' = After[creator]
      BY <2>3 DEF Proceed
    <3>2. CreatorKnows' /\ Recorded'
      BY <1>t, <1>n, <1>o, <2>1, <2>3, <3>1
         DEF After, Netns, CreatorKnows, Recorded, BeforeNet, AfterNet, Dialled
    <3> QED
      BY <1>t, <1>n, <2>1, <2>3, <3>1, <3>2, Goes DEF Creating, After, Netns
  <2> QED
    BY <1>3, <2>2, <2>3 DEF PackRootfs, OpenTap, AddNet
<1>4. CASE ReadConfig
  <2>1. creator \in {"config", "restoreConfig"} /\ UNCHANGED <<vmm, netCfg>>
    BY <1>4 DEF ReadConfig, At
  <2>2. CASE Fail /\ UNCHANGED podVars
    BY <1>f, <2>1, <2>2 DEF Creating, After, Netns
  <2>3. CASE Proceed /\ BeginSetup(Self) /\ UNCHANGED <<stop, vars>>
    <3>1. creator' = After[creator] /\ setup'[Self] = "addTap"
      BY <2>3, InstanceAssumption DEF Proceed, BeginSetup, To, IInv, PodInv, PodTypeOK
    <3>2. CreatorKnows' /\ Recorded'
      BY <1>t, <1>n, <2>1, <2>3, <3>1
         DEF BeginSetup, After, Netns, CreatorKnows, Recorded, BeforeNet, AfterNet, Dialled, InSetup
    <3> QED
      BY <1>t, <1>n, <2>1, <2>3, <3>1, <3>2, Goes DEF Creating, After, Netns
  <2> QED
    BY <1>4, <2>2, <2>3 DEF ReadConfig
<1>5. CASE SetupNetwork
  <2>1. /\ creator \in {"network", "restoreNetwork"} /\ UNCHANGED vmm
        /\ netCfg' = (setup'[Self] = "up") /\ SetupTap(Self)
    BY <1>5 DEF SetupNetwork, At
  <2>2. setup'[Self] \in InSetup \cup {"up", "refused"}
    BY <2>1, InstanceAssumption
       DEF SetupTap, AddTap, AddIngress, AddRedirect, MirrorTap, Rollback, To, InSetup,
           IInv, PodInv, PodTypeOK
  <2>3. CASE setup'[Self] = "up"
    <3>1. creator' = After[creator] /\ UNCHANGED <<stop, vars>>
      BY <1>5, <2>3 DEF SetupNetwork, Proceed, InSetup
    <3>2. netCfg' /\ Recorded' /\ setup'[Self] \notin InSetup
      BY <2>1, <2>3 DEF Recorded, InSetup
    <3>3. creator' \in {"create", "openTap"} /\ (creator' = "openTap" => conn' # "none")
      BY <1>t, <1>n, <2>1, <3>1 DEF After, Netns, CreatorKnows, Dialled
    <3>4. ~stopping'
      BY <1>t, <1>n, <2>1, <3>1, CreatingAlone DEF Creating, After, Netns
    <3>5. vmm' # "none"
      BY <1>t, <2>1 DEF CreatorKnows
    <3>6. CreatorKnows'
      BY <2>3, <3>2, <3>3, <3>4, <3>5 DEF CreatorKnows, BeforeNet, AfterNet, Dialled
    <3> QED
      BY <1>t, <1>n, <2>1, <3>1, <3>2, <3>3, <3>6, Goes DEF Creating, After, Netns
  <2>4. CASE setup'[Self] = "refused"
    <3>1. Fail
      BY <1>5, <2>4 DEF SetupNetwork, InSetup
    <3> QED
      BY <1>t, <2>1, <2>4, <3>1, Fails DEF Creating, After, Netns, Recorded, InSetup
  <2>5. CASE setup'[Self] \in InSetup
    <3>1. UNCHANGED <<creator, stop, vars>>
      BY <1>5, <2>5 DEF SetupNetwork, InSetup
    <3>2. CreatorKnows' /\ Recorded'
      BY <1>t, <1>n, <2>1, <2>5, <3>1
         DEF CreatorKnows, Recorded, BeforeNet, AfterNet, Dialled, InSetup
    <3> QED
      BY <1>t, <1>n, <2>1, <3>1, <3>2, Goes DEF Creating, After, Netns
  <2> QED
    BY <2>2, <2>3, <2>4, <2>5
<1>6. CASE DialAgent
  <2>1. creator \in {"dial", "restoreDial"} /\ UNCHANGED <<vmm, netCfg, podVars>>
    BY <1>6 DEF DialAgent, At
  <2>2. CASE Fail
    BY <1>f, <2>1, <2>2 DEF Creating, After, Netns
  <2>3. CASE Dial /\ Proceed /\ UNCHANGED stop
    <3>1. creator' = After[creator] /\ conn' = "open" /\ UNCHANGED stopping
      BY <2>3 DEF Proceed, Dial
    <3>2. CreatorKnows' /\ Recorded'
      BY <1>t, <1>o, <2>1, <3>1
         DEF After, Netns, CreatorKnows, Recorded, BeforeNet, AfterNet, Dialled
    <3> QED
      BY <1>t, <2>1, <2>3, <3>1, <3>2, Goes DEF Creating, After, Netns
  <2> QED
    BY <1>6, <2>2, <2>3 DEF DialAgent
<1>7. CASE AskAgent
  BY <1>7, <1>t, <1>o, OwnFrame DEF AskAgent, Request
<1>8. CASE AgentAnswers
  <2>1. creator \in {"ping", "configure"} /\ UNCHANGED <<vmm, netCfg, podVars>>
    BY <1>8 DEF AgentAnswers, At
  <2>2. CASE Fail
    BY <1>f, <2>1, <2>2 DEF Creating, After, Netns
  <2>3. CASE Proceed /\ UNCHANGED <<stop, vars>>
    <3>1. creator' = After[creator]
      BY <2>3 DEF Proceed
    <3>2. CreatorKnows' /\ Recorded'
      BY <1>t, <1>n, <1>o, <2>1, <2>3, <3>1, CreatingAlone
         DEF After, Netns, CreatorKnows, Recorded, BeforeNet, AfterNet, Dialled
    <3> QED
      BY <1>t, <1>n, <2>1, <2>3, <3>1, <3>2, Goes DEF Creating, After, Netns
  <2> QED
    BY <1>8, <2>2, <2>3 DEF AgentAnswers
<1> QED
  BY <1>1, <1>2, <1>3, <1>4, <1>5, <1>6, <1>7, <1>8 DEF Create

\* A Stop goes on, and knows what it has done.
LEMMA StopGoes ==
  ASSUME OwnInv, NEW a \in Actors, NEW pc \in StopPoints \ {"idle"}, StopBy(a, pc), stop[a] # "idle",
         UNCHANGED <<creator, stopping>>, conn' = conn \/ conn' = "closed", conn = "none" => conn' = "none",
         conn = "closed" => conn' = "closed",
         setup'[Self] = setup[Self] \/ (setup'[Self] = "gone" /\ setup[Self] \in {"up", "gone"}),
         netCfg' \in BOOLEAN, Recorded',
         vmm' = vmm \/ (vmm' = "dead" /\ vmm # "none"),
         pc # "close" => conn' \in {"none", "closed"},
         pc \in {"shutdown", "reap", "done"} => ~netCfg',
         pc = "done" => vmm' = "dead"
  PROVE  OwnInv'
<1>1. stopping /\ creator \in {"undo", "running"}
  BY DEF OwnInv, CreatorKnows, StopKnows
<1>2. /\ stop' \in [Actors -> StopPoints]
      /\ stop'[a] = pc
      /\ \A b \in Actors \ {a} : stop'[b] = stop[b]
  BY DEF OwnInv, OwnTyped, StopBy
<1>3. ~netCfg => ~netCfg'
  BY DEF OwnInv, Recorded
<1>4. OwnTyped'
  BY <1>2 DEF OwnInv, OwnTyped
<1>5. CreatorKnows'
  BY <1>1 DEF OwnInv, CreatorKnows, BeforeNet, AfterNet, Dialled, InSetup
<1>6. \A b \in Actors : stop'[b] \in {"check", "delTap", "shutdown", "reap", "done"} => conn' \in {"none", "closed"}
  BY <1>2 DEF OwnInv, StopKnows, StopPoints
<1>7. StopKnows'
  BY <1>1, <1>2, <1>3, <1>6 DEF OwnInv, StopKnows
<1> QED
  BY <1>4, <1>5, <1>7 DEF OwnInv

\* Each step of Stop. (driver.go Stop, netguest.go teardownNetwork)
LEMMA StopKeeps == ASSUME IInv, NEW a \in Actors, Stop(a) PROVE OwnInv'
<1>t. /\ OwnInv /\ CreatorKnows /\ StopKnows /\ Recorded
      /\ vmm \in {"none", "up", "deaf", "hung", "dead"} /\ netCfg \in BOOLEAN
      /\ conn \in {"none", "open", "closed", "broken"}
  BY DEF IInv, OwnInv, OwnTyped, AgentInv, TypeOK
<1>v. stop[a] # "idle" => vmm # "none"
  BY <1>t DEF CreatorKnows, StopKnows
<1>n. UNCHANGED vars => UNCHANGED <<conn, stopping>>
  BY DEF vars
<1>o. UNCHANGED podVars => UNCHANGED setup
  BY DEF podVars
<1>1. CASE CloseAgent(a)
  <2>1. /\ stop[a] = "close" /\ StopBy(a, "check") /\ UNCHANGED <<creator, vmm, netCfg, podVars, stopping>>
        /\ conn' = IF conn = "none" THEN "none" ELSE "closed"
    BY <1>1, <1>n DEF CloseAgent, Close
  <2>2. Recorded'
    BY <1>t, <1>o, <2>1 DEF Recorded
  <2> QED
    BY <1>t, <1>o, <2>1, <2>2, StopGoes DEF StopPoints
<1>2. CASE CheckNet(a)
  <2>1. /\ stop[a] = "check" /\ UNCHANGED <<creator, vmm, netCfg, podVars, vars>>
        /\ StopBy(a, IF netCfg THEN "delTap" ELSE "shutdown")
    BY <1>2 DEF CheckNet
  <2>2. Recorded' /\ conn \in {"none", "closed"}
    BY <1>t, <1>o, <2>1 DEF Recorded, StopKnows
  <2>3. CASE netCfg
    BY <1>t, <1>n, <1>o, <2>1, <2>2, <2>3, StopGoes DEF StopPoints
  <2>4. CASE ~netCfg
    BY <1>t, <1>n, <1>o, <2>1, <2>2, <2>4, StopGoes DEF StopPoints
  <2> QED
    BY <2>3, <2>4
<1>3. CASE DeleteTap(a)
  <2>1. stop[a] = "delTap" /\ UNCHANGED <<creator, vmm, vars>> /\ conn \in {"none", "closed"}
    BY <1>3, <1>t DEF DeleteTap, StopKnows
  <2>2. CASE RemoveTap(Self) /\ netCfg' = FALSE /\ StopBy(a, "shutdown")
    <3>1. setup[Self] \in {"up", "gone"} /\ setup'[Self] = "gone"
      BY <2>2, InstanceAssumption DEF RemoveTap, To, IInv, PodInv, PodTypeOK
    <3>2. Recorded'
      BY <2>2, <3>1 DEF Recorded
    <3> QED
      BY <1>t, <1>n, <2>1, <2>2, <3>1, <3>2, StopGoes DEF StopPoints
  <2>3. CASE ~netCfg /\ StopBy(a, "panicked") /\ UNCHANGED <<netCfg, podVars>>
    <3>1. Recorded'
      BY <1>t, <1>o, <2>3 DEF Recorded
    <3> QED
      BY <1>t, <1>n, <1>o, <2>1, <2>3, <3>1, StopGoes DEF StopPoints
  <2> QED
    BY <1>3, <2>2, <2>3 DEF DeleteTap
<1>4. CASE ShutdownVMM(a) \/ Reap(a)
  <2>1. /\ UNCHANGED <<creator, netCfg, podVars, stopping>>
        /\ \/ stop[a] = "shutdown" /\ StopBy(a, "reap")
           \/ stop[a] = "reap" /\ StopBy(a, "done") /\ vmm' = "dead"
        /\ UNCHANGED vmm \/ vmm' = "dead"
    BY <1>4, <1>n DEF ShutdownVMM, Reap, VmmEnds, GuestEnds
  <2>0. stop[a] \in {"shutdown", "reap"}
    BY <2>1
  <2>2. conn \in {"none", "closed"} /\ ~netCfg
    BY <1>t, <2>0 DEF StopKnows
  <2>c. conn' = conn
    <3>1. UNCHANGED vars \/ GuestEnds
      BY <1>4 DEF ShutdownVMM, Reap, VmmEnds
    <3>2. GuestEnds => conn' = IF conn = "open" THEN "broken" ELSE conn
      BY DEF GuestEnds
    <3> QED
      BY <1>n, <2>2, <3>1, <3>2
  <2>3. Recorded'
    BY <1>t, <1>o, <2>1 DEF Recorded
  <2>4. CASE stop[a] = "shutdown" /\ StopBy(a, "reap")
    BY <1>t, <1>v, <1>o, <2>1, <2>2, <2>c, <2>3, <2>4, StopGoes DEF StopPoints
  <2>5. CASE stop[a] = "reap" /\ StopBy(a, "done") /\ vmm' = "dead"
    BY <1>t, <1>v, <1>o, <2>1, <2>2, <2>c, <2>3, <2>5, StopGoes DEF StopPoints
  <2> QED
    BY <2>1, <2>4, <2>5
<1> QED
  BY <1>1, <1>2, <1>3, <1>4 DEF Stop

\* Each step of anybody. (driver.go, netguest.go, vmnet.go, client.go, server.go)
LEMMA OwnKept == IInv /\ [INext]_allVars => OwnInv'
<1> SUFFICES ASSUME IInv, [INext]_allVars PROVE OwnInv'
  OBVIOUS
<1>t. /\ OwnInv /\ OwnTyped /\ CreatorKnows /\ StopKnows /\ Recorded /\ PodTypeOK
      /\ conn \in {"none", "open", "closed", "broken"} /\ Self \in Insts /\ Self \in Actors
      /\ Stops \subseteq Actors
  BY InstanceAssumption DEF IInv, OwnInv, PodInv, AgentInv, TypeOK, Actors
<1>n. UNCHANGED vars => UNCHANGED <<conn, stopping>>
  BY DEF vars
<1>o. UNCHANGED podVars => UNCHANGED setup
  BY DEF podVars
<1>1. CASE Begin
  <2>1. creator = "none" /\ creator' \in {"api", "overlay"} /\ vmm' = "up" /\ UNCHANGED <<stop, netCfg, vars, podVars>>
    BY <1>1 DEF Begin, At
  <2>2. CreatorKnows' /\ Recorded'
    BY <1>t, <1>n, <1>o, <2>1 DEF CreatorKnows, Recorded, BeforeNet, AfterNet, Dialled
  <2> QED
    BY <1>t, <1>n, <2>1, <2>2, Goes DEF OwnTyped, Creating, After, Netns
<1>2. CASE Create
  BY <1>2, CreateKeeps
<1>3. ASSUME NEW c \in Calls, CallGoesOn(c) \/ Use(c)
      PROVE  OwnInv'
  BY <1>3, <1>t, <1>o, OwnFrame DEF CallGoesOn, Use, RoundTrip, Request, Lock, Send, Recv
<1>4. CASE Cancel
  <2>1. creator \in Creating /\ Fail /\ UNCHANGED <<vmm, netCfg, podVars>>
        /\ creator \notin {"network", "restoreNetwork"}
    BY <1>4 DEF Cancel, At, Creating, After, Netns
  <2>2. Recorded' /\ setup'[Self] \notin InSetup
    BY <1>t, <1>o, <2>1 DEF Recorded, CreatorKnows
  <2> QED
    BY <1>t, <2>1, <2>2, Fails DEF OwnTyped
<1>5. ASSUME NEW a \in Actors, Stop(a)
      PROVE  OwnInv'
  BY <1>5, StopKeeps
<1>6. ASSUME NEW s \in Stops, StopCall(s)
      PROVE  OwnInv'
  <2>1. /\ creator = "running" /\ stop' = [stop EXCEPT ![s] = "close"] /\ stopping'
        /\ UNCHANGED <<creator, vmm, netCfg, podVars, conn>> /\ stop[s] = "idle"
    BY <1>6 DEF StopCall, At, StopBy, BeginStop
  <2>2. OwnTyped'
    BY <1>t, <2>1 DEF OwnTyped, StopPoints
  <2>3. CreatorKnows' /\ Recorded'
    BY <1>t, <1>o, <2>1 DEF CreatorKnows, Recorded, BeforeNet, AfterNet, Dialled
  <2>4. \A b \in Actors : stop'[b] = stop[b] \/ stop'[b] = "close"
    BY <1>t, <2>1 DEF OwnTyped
  <2>5. StopKnows'
    BY <1>t, <2>1, <2>4 DEF StopKnows
  <2> QED
    BY <2>2, <2>3, <2>5 DEF OwnInv
<1>7. ASSUME NEW s \in Stops, CancelStop(s)
      PROVE  OwnInv'
  <2>1. /\ stop[s] = "shutdown" /\ StopBy(s, "reap") /\ UNCHANGED <<creator, vmm, netCfg, vars, podVars>>
    BY <1>7 DEF CancelStop
  <2>2. Recorded' /\ conn \in {"none", "closed"}
    BY <1>t, <1>o, <2>1 DEF Recorded, StopKnows
  <2>3. ~netCfg
    BY <1>t, <2>1 DEF StopKnows
  <2> QED
    BY <1>t, <1>n, <1>o, <2>1, <2>2, <2>3, StopGoes DEF StopPoints, OwnTyped
<1>8. CASE Guest(Decode) \/ Guest(Handle) \/ Guest(Encode)
  BY <1>8, <1>t, <1>o, OwnFrame DEF Guest, Decode, Handle, Encode
<1>9. CASE VmmDies \/ VmmHangs \/ GuestHangs
  <2>1. /\ UNCHANGED <<creator, stop, netCfg, podVars, stopping>> /\ vmm \in {"up", "deaf", "hung"}
        /\ vmm' \in {"deaf", "hung", "dead"}
        /\ conn' = conn \/ (conn = "open" /\ conn' = "broken")
    BY <1>9, <1>n DEF VmmDies, VmmHangs, GuestHangs, Answers, VmmEnds, GuestEnds
  <2>2. OwnTyped' /\ Recorded'
    BY <1>t, <1>o, <2>1 DEF OwnTyped, Recorded
  <2>3. CreatorKnows'
    BY <1>t, <1>o, <2>1 DEF CreatorKnows
  <2>4. StopKnows'
    BY <1>t, <2>1 DEF StopKnows
  <2> QED
    BY <2>2, <2>3, <2>4 DEF OwnInv
<1>10. ASSUME NEW i \in Insts \ {Self}, Neighbour(i)
       PROVE  OwnInv'
  BY <1>10, <1>t, <1>n, PodLocal, OwnFrame DEF Neighbour, PodStep
<1>11. CASE UNCHANGED allVars
  BY <1>11, <1>t, <1>n, <1>o, OwnFrame DEF allVars
<1> QED
  BY <1>1, <1>2, <1>3, <1>4, <1>5, <1>6, <1>7, <1>8, <1>9, <1>10, <1>11, InstanceAssumption
     DEF INext, CreatorGoesOn, Users

\* The invariant holds from the start and is kept.
LEMMA Invariant == ISpec => []IInv
<1>1. IInit => IInv
  <2> SUFFICES ASSUME IInit PROVE IInv
    OBVIOUS
  <2>1. PodInv /\ AgentInv
    BY PodStarts, AgentStarts DEF IInit
  <2>2. Self \in Insts /\ setup[Self] = "none"
    BY InstanceAssumption DEF IInit, PodInit
  <2>3. OwnInv
    BY <2>2 DEF IInit, Init, OwnInv, OwnTyped, CreatorKnows, StopKnows, Recorded, StopPoints,
                InSetup, BeforeNet, AfterNet, Dialled
  <2> QED
    BY <2>1, <2>3 DEF IInv
<1>2. IInv /\ [INext]_allVars => IInv'
  <2> SUFFICES ASSUME IInv, [INext]_allVars PROVE IInv'
    OBVIOUS
  <2>1. [Next]_vars /\ (UNCHANGED podVars \/ \E i \in Insts : PodStep(i))
    BY Parts DEF allVars
  <2>2. PodInv'
    <3>1. UNCHANGED podVars => PodInv'
      BY DEF IInv, podVars, PodInv, PodTypeOK, Owners
    <3> QED
      BY <2>1, <3>1, PodKept DEF IInv
  <2>3. AgentInv'
    BY <2>1, AgentKept DEF IInv
  <2> QED
    BY <2>2, <2>3, OwnKept DEF IInv
<1> QED
  BY <1>1, <1>2, PTL DEF ISpec

\* Types hold in every interleaving, and no Stop uses a client that is not there:
\* conn stays a connection from the dial on. (driver.go, vmnet.go, client.go)
THEOREM TypeCorrect == ISpec => []ITypeOK
<1>1. IInv => ITypeOK
  BY DEF IInv, PodInv, AgentInv, OwnInv, OwnTyped, StopPoints, ITypeOK
<1> QED
  BY <1>1, Invariant, PTL

\* No caller of the agent, the creator included, reads another's answer, whatever
\* the Stops and the VMM do. (client.go roundTrip)
THEOREM NoCrossed == ISpec => []NoCrossedAnswers
<1>1. IInv => NoCrossedAnswers
  BY DEF IInv, AgentInv
<1> QED
  BY <1>1, Invariant, PTL

\* No TAP is forgotten: one that Stop does not know of, and that no SetupTap is about
\* to take back, the host has refused to delete. (netguest.go, vmnet.go TeardownTap)
THEOREM Accounted == ISpec => []TapsAccounted
<1>1. IInv => TapsAccounted
  <2> SUFFICES ASSUME IInv, Self \in pod.taps, Self \notin pod.stuck
               PROVE  netCfg \/ (At({"network", "restoreNetwork"}) /\ setup[Self] \in InSetup)
    BY DEF TapsAccounted
  <2>1. setup[Self] \in InSetup \cup {"up"}
    BY InstanceAssumption DEF IInv, PodInv, PodTypeOK, SetupPoints, InSetup
  <2> QED
    BY <2>1 DEF IInv, OwnInv, CreatorKnows, Recorded, At
<1> QED
  BY <1>1, Invariant, PTL

\* A running sandbox has its agent and its pod's traffic. (driver.go, vmnet.go)
THEOREM RunningBridged == ISpec => []RunningIsBridged
<1>1. IInv => RunningIsBridged
  <2> SUFFICES ASSUME IInv, creator = "running", ~stopping
               PROVE  /\ conn # "none"
                      /\ HasNetns => Self \in pod.taps \cap pod.mirrored /\ pod.redirect = Self
    BY DEF RunningIsBridged, At
  <2>1. conn # "none" /\ (HasNetns => setup[Self] = "up")
    BY DEF IInv, OwnInv, CreatorKnows, Recorded, Dialled
  <2> QED
    BY <2>1, InstanceAssumption DEF IInv, PodInv
<1> QED
  BY <1>1, Invariant, PTL

-----------------------------------------------------------------------------
(* The instance as its callers assume it *)

\* What an instance holds depends on three things only.
LEMMA HeldGrows ==
  ASSUME vmm' \in {"up", "deaf", "hung"} => vmm \in {"up", "deaf", "hung"},
         Self \in pod'.taps => Self \in pod.taps,
         conn' \in {"open", "broken"} => conn \in {"open", "broken"}
  PROVE  Held' \subseteq Held
BY DEF Held

\* Nothing is gained when the creation is over, a Stop that is done stays so.
LEMMA Moves ==
  ASSUME IInv, [INext]_allVars
  PROVE  /\ creator = "none" => creator' \in {"none", "api", "overlay"}
         /\ creator \in Creating => creator' # "none"
         /\ creator \in {"running", "undo", "failed"} => creator' = creator /\ Held' \subseteq Held
         /\ creator \in Creating /\ creator' = "running" => pod' = pod
         /\ \A a \in Actors : stop[a] = "done" => stop'[a] = "done"
<1>t. /\ OwnInv /\ OwnTyped /\ PodInv /\ PodTypeOK /\ Self \in Insts /\ Self \in Actors
      /\ stop \in [Actors -> StopPoints]
      /\ Stops \subseteq Actors
  BY InstanceAssumption DEF IInv, OwnInv, OwnTyped, PodInv, Actors
<1>n. UNCHANGED vars => UNCHANGED conn
  BY DEF vars
<1>f. /\ creator \in {"running", "undo", "failed"} => creator \notin Creating \cup {"none"}
      /\ "running" \notin Creating /\ "none" \notin Creating
  BY DEF Creating, After, Netns
<1>s. \A a \in Actors, pc \in StopPoints : stop[a] # "done" /\ StopBy(a, pc) =>
        \A b \in Actors : stop[b] = "done" => stop'[b] = "done"
  BY <1>t DEF StopBy
<1>1. CASE Begin
  BY <1>1, <1>f DEF Begin, At
<1>2. CASE Create
  <2>1. creator \in Creating
    BY <1>2 DEF Create, LinkOverlay, CallApi, PackRootfs, ReadConfig, SetupNetwork, DialAgent,
                OpenTap, AddNet, AskAgent, AgentAnswers, At, Creating, After, Netns
  <2>2. stop' = stop \/ Fail
    BY <1>2 DEF Create, LinkOverlay, CallApi, PackRootfs, ReadConfig, SetupNetwork, DialAgent,
                OpenTap, AddNet, AskAgent, AgentAnswers, ownVars
  <2>3. \A a \in Actors : stop[a] = "done" => stop'[a] = "done"
    BY <2>1, <1>t, CreatingAlone
  <2>4. creator' # "none"
    BY <1>2 DEF Create, LinkOverlay, CallApi, PackRootfs, ReadConfig, SetupNetwork, DialAgent,
                OpenTap, AddNet, AskAgent, AgentAnswers, ownVars, At, Proceed, Fail, After, Netns
  <2>5. ASSUME creator' = "running" PROVE pod' = pod
    <3>1. creator \in {"ping", "restoreDial", "configure"}
      BY <1>2, <2>5 DEF Create, LinkOverlay, CallApi, PackRootfs, ReadConfig, SetupNetwork, DialAgent,
                OpenTap, AddNet, AskAgent, AgentAnswers, ownVars, At, Proceed, Fail, After, Netns
    <3> QED
      BY <1>2, <3>1 DEF Create, LinkOverlay, CallApi, PackRootfs, ReadConfig, SetupNetwork, DialAgent,
                OpenTap, AddNet, AskAgent, AgentAnswers, At, podVars
  <2> QED
    BY <2>1, <2>3, <2>4, <2>5, <1>f
<1>3. ASSUME NEW c \in Calls, CallGoesOn(c) \/ Use(c)
      PROVE  UNCHANGED <<creator, stop>> /\ Held' \subseteq Held
  <2>1. UNCHANGED <<creator, stop, vmm, pod, conn>>
    BY <1>3 DEF CallGoesOn, Use, RoundTrip, Request, Lock, Send, Recv, ownVars, podVars
  <2> QED
    BY <2>1, HeldGrows
<1>4. CASE Cancel
  <2>1. creator \in Creating /\ creator' = "undo"
    BY <1>4 DEF Cancel, At, Fail, Creating, After, Netns
  <2> QED
    BY <2>1, <1>f, <1>t, CreatingAlone
<1>5. ASSUME NEW a \in Actors, Stop(a)
      PROVE  creator' = creator /\ Held' \subseteq Held /\ (\E pc \in StopPoints : StopBy(a, pc)) /\ stop[a] # "done"
  <2>1. CASE CloseAgent(a)
    <3>1. UNCHANGED <<creator, vmm, pod>> /\ StopBy(a, "check") /\ stop[a] = "close"
          /\ (conn' = conn \/ conn' = "closed")
      BY <2>1, <1>n DEF CloseAgent, Close, podVars
    <3> QED
      BY <3>1, HeldGrows DEF StopPoints
  <2>2. CASE CheckNet(a)
    BY <2>2, <1>n, HeldGrows DEF CheckNet, podVars, StopPoints
  <2>3. CASE DeleteTap(a)
    <3>1. Self \in pod'.taps => Self \in pod.taps
      BY <2>3, <1>t DEF DeleteTap, RemoveTap, TeardownTap, PodTypeOK, podVars
    <3>2. UNCHANGED <<creator, vmm, conn>> /\ stop[a] # "done" /\ (\E pc \in StopPoints : StopBy(a, pc))
      BY <2>3, <1>n DEF DeleteTap, StopPoints
    <3> QED
      BY <3>1, <3>2, HeldGrows
  <2>4. CASE ShutdownVMM(a) \/ Reap(a)
    <3>1. /\ UNCHANGED <<creator, pod>> /\ vmm' \in {vmm, "dead"}
          /\ (\E pc \in StopPoints : StopBy(a, pc)) /\ stop[a] # "done"
      BY <2>4 DEF ShutdownVMM, Reap, VmmEnds, podVars, StopPoints
    <3>2. UNCHANGED vars \/ GuestEnds
      BY <2>4 DEF ShutdownVMM, Reap, VmmEnds
    <3>3. conn' \in {"open", "broken"} => conn \in {"open", "broken"}
      BY <3>2, <1>n DEF GuestEnds
    <3> QED
      BY <3>1, <3>3, HeldGrows
  <2> QED
    BY <1>5, <2>1, <2>2, <2>3, <2>4 DEF Stop
<1>6. ASSUME NEW s \in Stops, StopCall(s) \/ CancelStop(s)
      PROVE  creator' = creator /\ Held' \subseteq Held /\ (\E pc \in StopPoints : StopBy(s, pc)) /\ stop[s] # "done"
  <2>1. UNCHANGED <<creator, vmm, pod, conn>> /\ (\E pc \in StopPoints : StopBy(s, pc)) /\ stop[s] # "done"
    BY <1>6, <1>n DEF StopCall, CancelStop, BeginStop, podVars, StopPoints
  <2> QED
    BY <2>1, HeldGrows
<1>7. CASE Guest(Decode) \/ Guest(Handle) \/ Guest(Encode)
  <2>1. UNCHANGED <<creator, stop, vmm, pod, conn>>
    BY <1>7 DEF Guest, Decode, Handle, Encode, ownVars, podVars
  <2> QED
    BY <2>1, <1>f, HeldGrows
<1>8. CASE VmmDies \/ VmmHangs \/ GuestHangs
  <2>1. UNCHANGED <<creator, stop, pod>> /\ vmm \in {"up", "deaf", "hung"}
    BY <1>8 DEF VmmDies, VmmHangs, GuestHangs, Answers, podVars
  <2>2. UNCHANGED vars \/ GuestEnds
    BY <1>8 DEF VmmDies, VmmHangs, GuestHangs, VmmEnds
  <2>3. conn' \in {"open", "broken"} => conn \in {"open", "broken"}
    BY <2>2, <1>n DEF GuestEnds
  <2> QED
    BY <2>1, <2>3, <1>f, HeldGrows
<1>9. ASSUME NEW i \in Insts \ {Self}, Neighbour(i)
      PROVE  UNCHANGED <<creator, stop>> /\ Held' \subseteq Held
  <2>1. UNCHANGED <<creator, stop, vmm, conn>> /\ PodStep(i)
    BY <1>9, <1>n DEF Neighbour, PodStep, ownVars
  <2>2. Self \in pod'.taps <=> Self \in pod.taps
    BY <2>1, <1>t, <1>9, PodLocal
  <2> QED
    BY <2>1, <2>2, HeldGrows
<1>10. CASE UNCHANGED allVars
  <2>1. UNCHANGED <<creator, stop, vmm, pod, conn>>
    BY <1>10, <1>n DEF allVars, ownVars, podVars
  <2> QED
    BY <2>1, <1>f, HeldGrows
<1>11. ASSUME UNCHANGED <<creator, stop>>, Held' \subseteq Held
       PROVE  /\ creator = "none" => creator' \in {"none", "api", "overlay"}
              /\ creator \in Creating => creator' # "none"
              /\ creator \in Creating /\ creator' = "running" => pod' = pod
              /\ \A a \in Actors : stop[a] = "done" => stop'[a] = "done"
  BY <1>11, <1>f
<1> QED
  BY <1>s, <1>f, <1>t, <1>1, <1>2, <1>3, <1>4, <1>5, <1>6, <1>7, <1>8, <1>9, <1>10, <1>11, InstanceAssumption
     DEF INext, CreatorGoesOn, Users

\* Nothing is held when the creation has failed or a Stop is done but what the host
\* refused to take back, and nothing before the creation began.
HeldOK == /\ Over => Held \subseteq Refused /\ creator \in {"running", "undo", "failed"}
          /\ creator = "none" => Held = {}
          /\ creator \in Creating \cup {"none"} => Refused = {}
          /\ Refused \subseteq Held

LEMMA HeldHolds == IInv => HeldOK
<1> SUFFICES ASSUME IInv PROVE HeldOK
  OBVIOUS
<1>1. ASSUME Over \/ creator = "none"
      PROVE  vmm \in {"none", "dead"} /\ conn \in {"none", "closed"}
  BY <1>1 DEF Over, At, IInv, OwnInv, CreatorKnows, StopKnows
<1>2. ASSUME Over PROVE creator \in {"running", "undo", "failed"}
  BY <1>2 DEF Over, At, IInv, OwnInv, CreatorKnows, StopKnows
<1>3. ASSUME Over PROVE setup[Self] \notin InSetup \cup {"up"}
  <2>1. CASE creator = "failed"
    BY <2>1 DEF IInv, OwnInv, CreatorKnows, BeforeNet, InSetup
  <2>2. CASE \E a \in Actors : stop[a] = "done"
    <3>1. creator \in {"running", "undo"} /\ ~netCfg
      BY <2>2 DEF IInv, OwnInv, CreatorKnows, StopKnows
    <3> QED
      BY <3>1 DEF IInv, OwnInv, CreatorKnows, Recorded
  <2> QED
    BY <1>3, <2>1, <2>2 DEF Over, At
<1>p. /\ Self \in pod.stuck => Self \in pod.taps /\ setup[Self] \in {"refused", "gone"}
      /\ setup[Self] \notin InSetup \cup {"up"} /\ Self \in pod.taps => Self \in pod.stuck
      /\ setup[Self] = "none" => Self \notin pod.taps
  BY InstanceAssumption DEF IInv, PodInv, PodTypeOK, SetupPoints, InSetup
<1>4. ASSUME Over PROVE Held \subseteq Refused
  BY <1>1, <1>3, <1>4, <1>p DEF Held, Refused
<1>5. ASSUME creator = "none" PROVE Held = {} /\ Refused = {}
  <2>1. setup[Self] = "none"
    BY <1>5 DEF IInv, OwnInv, CreatorKnows, BeforeNet
  <2> QED
    BY <1>1, <1>5, <1>p, <2>1 DEF Held, Refused
<1>6. ASSUME creator \in Creating PROVE Refused = {}
  BY <1>6, <1>p DEF Refused, IInv, OwnInv, CreatorKnows, Creating, After, Netns
<1>7. Refused \subseteq Held
  BY <1>p DEF Held, Refused
<1> QED
  BY <1>2, <1>4, <1>5, <1>6, <1>7 DEF HeldOK

\* Every step of an instance is a step of DriverInstance, or none that its callers
\* could tell: it comes up once, gains nothing then, and ends with nothing but a TAP
\* whose deletion failed. (driver.go Create, Restore, Stop)
THEOREM DriverImplemented == ISpec => ImplementsDriver
<1>1. IInit => Driver!Init
  BY DEF IInit, Init, PodInit, Driver!Init, Phase, Held, Refused, At, Over, Actors
<1>2. IInv /\ HeldOK /\ HeldOK' /\ [INext]_allVars => [Driver!Next]_(Driver!instance)
  <2> SUFFICES ASSUME IInv, HeldOK, HeldOK', [INext]_allVars
               PROVE  [Driver!Next]_(Driver!instance)
    OBVIOUS
  <2>1. /\ Phase = CASE creator = "none" -> "absent" [] Over -> "ended"
                     [] creator = "running" /\ ~Over -> "running" [] OTHER -> "creating"
        /\ Phase' = CASE creator' = "none" -> "absent" [] Over' -> "ended"
                     [] creator' = "running" /\ ~Over' -> "running" [] OTHER -> "creating"
    BY DEF Phase, At
  <2>2. /\ Over => Held \subseteq Refused /\ creator # "none"
        /\ Over' => Held' \subseteq Refused' /\ creator' \in {"running", "undo", "failed"}
        /\ Over => Over'
    BY Moves DEF HeldOK, Over, At
  <2>3. creator \in Creating \cup {"none", "running", "undo", "failed"}
    BY DEF IInv, OwnInv, OwnTyped
  <2>4. Held' \in SUBSET {"vmm", "tap", "conn"} /\ Refused' \in SUBSET {"tap"}
    BY DEF Held, Refused
  <2>5. CASE Over
    <3>1. Phase = "ended" /\ Phase' = "ended"
      BY <2>1, <2>2, <2>5 DEF HeldOK
    <3>2. Held' \subseteq Held
      BY <2>5, Moves DEF HeldOK
    <3>3. Refused' \subseteq Refused
      BY <2>2, <2>5, <3>2 DEF HeldOK
    <3> QED
      BY <2>2, <2>5, <3>1, <3>2, <3>3 DEF Driver!Next, Driver!Yield
  <2>6. CASE creator = "none"
    <3>1. Phase = "absent" /\ Held = {} /\ Refused = {} /\ creator' \in {"none", "api", "overlay"}
      BY <2>1, <2>6, Moves DEF HeldOK
    <3>2. CASE creator' = "none"
      BY <2>1, <3>1, <3>2 DEF HeldOK, Driver!instance
    <3>3. CASE creator' \in {"api", "overlay"}
      <4>1. Phase' = "creating"
        BY <2>1, <2>2, <3>3
      <4> QED
        BY <2>4, <3>1, <4>1 DEF Driver!Next, Driver!Work
    <3> QED
      BY <3>1, <3>2, <3>3
  <2>7. CASE creator \in Creating /\ ~Over
    <3>1. Phase = "creating" /\ creator' # "none" /\ Refused = {}
      BY <2>1, <2>7, Moves DEF HeldOK, Creating, After, Netns
    <3>2. CASE Over'
      BY <2>1, <2>2, <2>4, <3>1, <3>2 DEF Driver!Next, Driver!End
    <3>3. CASE ~Over' /\ creator' = "running"
      <4>1. Refused' = {} /\ Phase' = "running"
        BY <2>1, <2>7, <3>1, <3>3, Moves DEF Refused
      <4> QED
        BY <2>4, <3>1, <4>1 DEF Driver!Next, Driver!Ready
    <3>4. CASE ~Over' /\ creator' # "running"
      BY <2>1, <2>4, <3>1, <3>4 DEF Driver!Next, Driver!Work
    <3> QED
      BY <3>2, <3>3, <3>4
  <2>8. CASE creator = "running" /\ ~Over
    <3>1. Phase = "running" /\ creator' = "running" /\ Held' \subseteq Held
      BY <2>1, <2>8, Moves
    <3>2. CASE Over'
      BY <2>1, <2>2, <2>4, <3>1, <3>2 DEF Driver!Next, Driver!End
    <3>3. CASE ~Over'
      BY <2>1, <2>4, <3>1, <3>3 DEF Driver!Next, Driver!Lose
    <3> QED
      BY <3>2, <3>3
  <2>9. CASE creator = "undo" /\ ~Over
    <3>1. Phase = "creating" /\ creator' = "undo"
      BY <2>1, <2>9, Moves
    <3>2. CASE Over'
      BY <2>1, <2>2, <2>4, <3>1, <3>2 DEF Driver!Next, Driver!End
    <3>3. CASE ~Over'
      BY <2>1, <2>4, <3>1, <3>3 DEF Driver!Next, Driver!Work
    <3> QED
      BY <3>2, <3>3
  <2> QED
    BY <2>3, <2>5, <2>6, <2>7, <2>8, <2>9 DEF Over, At
<1>3. ISpec => [](IInv /\ HeldOK)
  BY Invariant, HeldHolds, PTL
<1> QED
  BY <1>1, <1>2, <1>3, PTL DEF ISpec, ImplementsDriver, Driver!Spec

-----------------------------------------------------------------------------
(* The connection as its callers assume it *)

\* A request that is on its way has not been carried out, a response stands for
\* one that has, and a call that is not sent yet is neither.
OnceOK ==
  /\ \A k \in 1..Len(sent) : ran[sent[k]] = 0 /\ call[sent[k]] \in {"recv", "failed"}
  /\ \A j, k \in 1..Len(sent) : sent[j] = sent[k] => j = k
  /\ server.pc = "handle" => /\ ran[server.cur] = 0 /\ call[server.cur] \in {"recv", "failed"}
                             /\ \A k \in 1..Len(sent) : sent[k] # server.cur
  /\ server.pc = "encode" => ran[server.cur] = 1
  /\ \A k \in 1..Len(replies) : ran[replies[k]] = 1
  /\ \A c \in Calls : call[c] \in {"idle", "queued", "send"} => ran[c] = 0

\* Where the elements of a sequence come from when it loses its head or grows.
LEMMA Elements ==
  ASSUME NEW S, NEW s \in Seq(S)
  PROVE  /\ \A c \in S : /\ Len(Append(s, c)) = Len(s) + 1
                         /\ \A k \in 1..Len(s) : Append(s, c)[k] = s[k]
                         /\ Append(s, c)[Len(s) + 1] = c
         /\ s # <<>> => /\ Len(Tail(s)) = Len(s) - 1 /\ Len(s) \in Nat \ {0}
                       /\ \A k \in 1..Len(Tail(s)) : Tail(s)[k] = s[k + 1]
                       /\ Head(s) = s[1]
         /\ \A k \in 1..Len(s) : s[k] \in S
         /\ Len(s) \in Nat
<1>1. Len(s) \in Nat /\ \A k \in 1..Len(s) : s[k] \in S
  OBVIOUS
<1>2. ASSUME NEW c \in S
      PROVE  /\ Len(Append(s, c)) = Len(s) + 1
             /\ \A k \in 1..Len(s) : Append(s, c)[k] = s[k]
             /\ Append(s, c)[Len(s) + 1] = c
  OBVIOUS
<1>3. ASSUME s # <<>>
      PROVE  /\ Len(Tail(s)) = Len(s) - 1 /\ Len(s) \in Nat \ {0}
             /\ \A k \in 1..Len(Tail(s)) : Tail(s)[k] = s[k + 1]
             /\ Head(s) = s[1]
  BY <1>3
<1> QED
  BY <1>1, <1>2, <1>3

\* Each step of a caller, of the server and of Stop keeps it. (client.go, server.go)
LEMMA OnceKept == AgentInv /\ OnceOK /\ [Next]_vars => OnceOK'
<1> SUFFICES ASSUME AgentInv, OnceOK, [Next]_vars PROVE OnceOK'
  OBVIOUS
<1>t. /\ sent \in Seq(Calls) /\ replies \in Seq(Calls) /\ ran \in [Calls -> Nat]
      /\ \A c \in Calls : call[c] \in {"idle", "queued", "send", "recv", "answered", "failed", "crossed"}
      /\ DOMAIN call = Calls
      /\ call \in [Calls -> {"idle", "queued", "send", "recv", "answered", "failed", "crossed"}]
      /\ ServerOK /\ server \in [pc : {"decode", "handle", "encode", "ended"}, cur : CallOrNone]
  BY DEF AgentInv, TypeOK
<1>e. /\ \A k \in 1..Len(sent) : sent[k] \in Calls
      /\ \A k \in 1..Len(replies) : replies[k] \in Calls
      /\ Len(sent) \in Nat /\ Len(replies) \in Nat
  BY <1>t, Elements
<1>c. server.pc \in {"handle", "encode"} => server.cur \in Calls
  BY <1>t DEF ServerOK
\* A call that fails, or goes on, leaves the rest as it was.
<1>k. ASSUME UNCHANGED <<sent, replies, server, ran>>,
             \A d \in Calls : call[d] \in {"recv", "failed"} => call'[d] \in {"recv", "failed"},
             \A d \in Calls : call'[d] \in {"idle", "queued", "send"} => call[d] \in {"idle", "queued", "send"}
      PROVE  OnceOK'
  <2>1. \A k \in 1..Len(sent) : call'[sent[k]] \in {"recv", "failed"}
    BY <1>k, <1>e DEF OnceOK
  <2>2. server.pc = "handle" => call'[server.cur] \in {"recv", "failed"}
    BY <1>k, <1>c DEF OnceOK
  <2>3. \A d \in Calls : call'[d] \in {"idle", "queued", "send"} => ran[d] = 0
    BY <1>k DEF OnceOK
  <2> QED
    BY <1>k, <2>1, <2>2, <2>3 DEF OnceOK
<1>1. ASSUME NEW c \in Calls, Request(c) \/ Lock(c)
      PROVE  OnceOK'
  <2>1. /\ UNCHANGED <<sent, replies, server, ran>>
        /\ call' = [call EXCEPT ![c] = "queued"] \/ call' = [call EXCEPT ![c] = "send"]
        /\ call[c] \in {"idle", "queued"}
    BY <1>1 DEF Request, Lock, Goto
  <2>2. \A d \in Calls : d = c \/ call'[d] = call[d]
    BY <2>1, <1>t
  <2> QED
    BY <1>k, <2>1, <2>2
<1>2. ASSUME NEW c \in Calls, Send(c)
      PROVE  OnceOK'
  <2>1. call[c] = "send" /\ UNCHANGED <<replies, server, ran>> /\ ran[c] = 0
    BY <1>2 DEF Send, OnceOK
  <2>2. \A k \in 1..Len(sent) : sent[k] # c
    BY <2>1 DEF OnceOK
  <2>3. server.pc = "handle" => server.cur # c
    BY <2>1 DEF OnceOK
  <2>4. CASE sent' = Append(sent, c) /\ Goto(c, "recv")
    <3>1. call'[c] = "recv" /\ \A d \in Calls \ {c} : call'[d] = call[d]
      BY <2>4, <1>t DEF Goto
    <3>2. /\ Len(sent') = Len(sent) + 1 /\ sent'[Len(sent) + 1] = c
          /\ \A k \in 1..Len(sent) : sent'[k] = sent[k]
      BY <2>4, <1>t, Elements
    <3>3. \A k \in 1..Len(sent') : k \in 1..Len(sent) \/ k = Len(sent) + 1
      BY <3>2, <1>e
    <3>4. \A k \in 1..Len(sent') : ran'[sent'[k]] = 0 /\ call'[sent'[k]] \in {"recv", "failed"}
      BY <1>e, <2>1, <3>1, <3>2, <3>3 DEF OnceOK
    <3>5. \A j, k \in 1..Len(sent') : sent'[j] = sent'[k] => j = k
      BY <2>2, <3>2, <3>3 DEF OnceOK
    <3>6. server'.pc = "handle" => /\ ran'[server'.cur] = 0 /\ call'[server'.cur] \in {"recv", "failed"}
                                  /\ \A k \in 1..Len(sent') : sent'[k] # server'.cur
      <4> SUFFICES ASSUME server'.pc = "handle"
                   PROVE  /\ ran'[server'.cur] = 0 /\ call'[server'.cur] \in {"recv", "failed"}
                          /\ \A k \in 1..Len(sent') : sent'[k] # server'.cur
        OBVIOUS
      <4>1. server.pc = "handle" /\ server'.cur = server.cur /\ server.cur \in Calls \ {c}
        BY <1>c, <2>1, <2>3
      <4>2. /\ ran[server.cur] = 0 /\ call[server.cur] \in {"recv", "failed"}
            /\ \A k \in 1..Len(sent) : sent[k] # server.cur
        BY <4>1 DEF OnceOK
      <4> QED
        BY <2>1, <3>1, <3>2, <3>3, <4>1, <4>2
    <3>7. \A d \in Calls : call'[d] \in {"idle", "queued", "send"} => ran'[d] = 0
      BY <2>1, <3>1 DEF OnceOK
    <3> QED
      BY <2>1, <3>4, <3>5, <3>6, <3>7 DEF OnceOK
  <2>5. CASE Return(c, "failed") /\ UNCHANGED sent
    <3>1. call'[c] = "failed" /\ \A d \in Calls \ {c} : call'[d] = call[d]
      BY <2>5, <1>t DEF Goto, Return
    <3> QED
      BY <1>k, <2>1, <2>5, <3>1 DEF Return
  <2> QED
    BY <1>2, <2>4, <2>5 DEF Send
<1>3. ASSUME NEW c \in Calls, Recv(c)
      PROVE  OnceOK'
  <2>1. call[c] = "recv" /\ UNCHANGED <<sent, server, ran>>
    BY <1>3 DEF Recv
  <2>2. CASE replies # <<>> /\ replies' = Tail(replies) /\ Return(c, IF Head(replies) = c THEN "answered" ELSE "crossed")
    <3>1. replies = <<c>>
      BY <2>1, <2>2 DEF AgentInv, LineOK
    <3>2. Head(replies) = c /\ replies' = <<>>
      BY <2>2, <3>1, Single
    <3>3. ran[c] = 1
      BY <3>1 DEF OnceOK
    <3>4. call'[c] = "answered" /\ \A d \in Calls \ {c} : call'[d] = call[d]
      BY <2>2, <3>2, <1>t DEF Return, Goto
    <3>5. (\A k \in 1..Len(sent) : sent[k] # c) /\ (server.pc = "handle" => server.cur # c)
      BY <3>3 DEF OnceOK
    <3> QED
      BY <1>e, <1>t, <2>1, <3>2, <3>4, <3>5 DEF OnceOK, ServerOK
  <2>3. CASE Return(c, "failed") /\ UNCHANGED replies
    <3>1. call'[c] = "failed" /\ \A d \in Calls \ {c} : call'[d] = call[d]
      BY <2>3, <1>t DEF Return, Goto
    <3> QED
      BY <1>k, <2>1, <2>3, <3>1 DEF Return
  <2> QED
    BY <1>3, <2>2, <2>3 DEF Recv
<1>4. CASE Dial \/ BeginStop \/ Close
  BY <1>4 DEF Dial, BeginStop, Close, OnceOK
<1>5. CASE GuestEnds
  BY <1>5 DEF GuestEnds, OnceOK
<1>6. CASE Decode
  <2>1. UNCHANGED <<call, replies, ran>> /\ server.pc = "decode"
    BY <1>6 DEF Decode
  <2>2. CASE sent # <<>> /\ server' = [pc |-> "handle", cur |-> Head(sent)] /\ sent' = Tail(sent)
    <3>1. /\ Len(sent') = Len(sent) - 1 /\ Len(sent) \in Nat \ {0} /\ Head(sent) = sent[1]
          /\ \A k \in 1..Len(sent') : sent'[k] = sent[k + 1] /\ k + 1 \in 1..Len(sent)
      BY <1>t, <2>2, Elements
    <3>2. server'.pc = "handle" /\ server'.cur = sent[1] /\ 1 \in 1..Len(sent)
      BY <2>2, <3>1
    <3>3. \A k \in 1..Len(sent') : sent'[k] # sent[1]
      BY <3>1, <3>2 DEF OnceOK
    <3>4. \A j, k \in 1..Len(sent') : sent'[j] = sent'[k] => j = k
      BY <3>1 DEF OnceOK
    <3> QED
      BY <2>1, <3>1, <3>2, <3>3, <3>4 DEF OnceOK
  <2>3. CASE server'.pc = "ended" /\ UNCHANGED sent
    BY <2>1, <2>3 DEF OnceOK
  <2> QED
    BY <1>6, <2>2, <2>3 DEF Decode
<1>7. CASE Handle
  <2>1. /\ server.pc = "handle" /\ UNCHANGED <<call, replies, sent>> /\ server.cur \in Calls
        /\ server'.pc = "encode" /\ server'.cur = server.cur
    BY <1>7, <1>t DEF Handle, ServerOK
  <2>2. ran'[server.cur] = 1 /\ \A d \in Calls \ {server.cur} : ran'[d] = ran[d]
    BY <1>7, <1>t, <2>1 DEF Handle, OnceOK
  <2>3. \A k \in 1..Len(sent) : sent[k] # server.cur
    BY <2>1 DEF OnceOK
  <2> QED
    BY <1>e, <2>1, <2>2, <2>3 DEF OnceOK
<1>8. CASE Encode
  <2>1. UNCHANGED <<call, sent, ran>> /\ server.pc = "encode" /\ server.cur \in Calls /\ ran[server.cur] = 1
    BY <1>8, <1>t DEF Encode, ServerOK, OnceOK
  <2>2. server'.pc \in {"decode", "ended"}
    BY <1>8 DEF Encode
  <2>3. CASE replies' = Append(replies, server.cur)
    <3>1. /\ Len(replies') = Len(replies) + 1 /\ replies'[Len(replies) + 1] = server.cur
          /\ \A k \in 1..Len(replies) : replies'[k] = replies[k]
      BY <1>t, <2>1, <2>3, Elements
    <3>2. \A k \in 1..Len(replies') : k \in 1..Len(replies) \/ k = Len(replies) + 1
      BY <3>1, <1>e
    <3> QED
      BY <2>1, <2>2, <3>1, <3>2 DEF OnceOK
  <2>4. CASE UNCHANGED replies
    BY <2>1, <2>2, <2>4 DEF OnceOK
  <2> QED
    BY <1>8, <2>3, <2>4 DEF Encode
<1>9. CASE UNCHANGED vars
  BY <1>9 DEF vars, OnceOK
<1> QED
  BY <1>1, <1>2, <1>3, <1>4, <1>5, <1>6, <1>7, <1>8, <1>9 DEF Next, RoundTrip

\* What the callers know of each call.
Outcomes == [c \in Calls |-> Outcome(c)]

\* Only the call that moves changes its outcome.
LEMMA OutcomeMoves ==
  ASSUME TypeOK, NEW c \in Calls,
         NEW p \in {"queued", "send", "recv", "answered", "failed"}, Goto(c, p)
  PROVE  Outcomes' = [Outcomes EXCEPT ![c] = CASE p = "answered" -> "answered"
                                               [] p = "failed" -> "failed"
                                               [] OTHER -> "pending"]
<1>1. call'[c] = p /\ \A d \in Calls \ {c} : call'[d] = call[d]
  BY DEF TypeOK, Goto
<1>2. Outcome(c)' = CASE p = "answered" -> "answered" [] p = "failed" -> "failed" [] OTHER -> "pending"
  <2>1. CASE p = "answered"
    BY <1>1, <2>1 DEF Outcome, InFlight
  <2>2. CASE p = "failed"
    BY <1>1, <2>2 DEF Outcome, InFlight
  <2>3. CASE p \in {"queued", "send", "recv"}
    BY <1>1, <2>3 DEF Outcome, InFlight
  <2> QED
    BY <2>1, <2>2, <2>3
<1>3. \A d \in Calls \ {c} : Outcome(d)' = Outcome(d)
  BY <1>1 DEF Outcome, InFlight
<1> QED
  BY <1>2, <1>3 DEF Outcomes

\* Every step of the connection carries out a request that nobody has carried out,
\* gives a true answer, fails a call, or cannot be told. (client.go, server.go)
LEMMA AtMostOnceStep ==
  ASSUME AgentInv, OnceOK, [Next]_vars
  PROVE  [AtMostOnce!Next]_(AtMostOnce!calls)
<1> DEFINE Same == Outcomes' = Outcomes /\ ran' = ran
<1>s. Same => [AtMostOnce!Next]_(AtMostOnce!calls)
  BY DEF AtMostOnce!calls, Outcomes
<1>t. TypeOK /\ ServerOK /\ \A c \in Calls : Outcomes[c] = Outcome(c)
  BY DEF AgentInv, Outcomes
<1>u. UNCHANGED call => Outcomes' = Outcomes
  BY DEF Outcomes, Outcome, InFlight
<1>1. ASSUME NEW c \in Calls, Request(c)
      PROVE  [AtMostOnce!Next]_(AtMostOnce!calls)
  <2>0. call[c] = "idle" /\ Goto(c, "queued") /\ ran' = ran
    BY <1>1 DEF Request
  <2>1. Outcomes[c] = "idle" /\ Outcomes' = [Outcomes EXCEPT ![c] = "pending"]
    <3>1. Outcomes[c] = "idle"
      BY <1>t, <2>0 DEF Outcome, InFlight
    <3> QED
      BY <1>t, <2>0, <3>1, OutcomeMoves
  <2>2. AtMostOnce!Invoke(c)
    BY <2>0, <2>1 DEF AtMostOnce!Invoke, AtMostOnce!Enter, Outcomes
  <2> QED
    BY <2>2 DEF AtMostOnce!Next
<1>2. ASSUME NEW c \in Calls, call[c] \in {"queued", "send", "recv"},
             NEW p \in {"send", "recv"}, Goto(c, p), ran' = ran
      PROVE  Same
  <2>1. Outcomes[c] = "pending"
    BY <1>2, <1>t DEF Outcome, InFlight
  <2>2. Outcomes' = [Outcomes EXCEPT ![c] = "pending"]
    BY <1>2, <1>t, OutcomeMoves
  <2> QED
    BY <1>2, <2>1, <2>2 DEF Outcomes
<1>3. ASSUME NEW c \in Calls, call[c] \in {"send", "recv"}, Return(c, "failed"), ran' = ran
      PROVE  [AtMostOnce!Next]_(AtMostOnce!calls)
  <2>1. Outcomes[c] = "pending"
    BY <1>3, <1>t DEF Outcome, InFlight
  <2>2. Outcomes' = [Outcomes EXCEPT ![c] = "failed"]
    BY <1>3, <1>t, OutcomeMoves DEF Return
  <2>3. AtMostOnce!Fail(c)
    BY <1>3, <2>1, <2>2 DEF AtMostOnce!Fail, AtMostOnce!Enter, Outcomes
  <2> QED
    BY <2>3 DEF AtMostOnce!Next
<1>4. ASSUME NEW c \in Calls, Lock(c) \/ Send(c)
      PROVE  [AtMostOnce!Next]_(AtMostOnce!calls)
  BY <1>4, <1>2, <1>3, <1>s DEF Lock, Send
<1>5. ASSUME NEW c \in Calls, Recv(c)
      PROVE  [AtMostOnce!Next]_(AtMostOnce!calls)
  <2>1. call[c] = "recv" /\ ran' = ran
    BY <1>5 DEF Recv
  <2>2. CASE replies # <<>> /\ Return(c, IF Head(replies) = c THEN "answered" ELSE "crossed")
    <3>1. replies = <<c>>
      BY <2>1, <2>2 DEF AgentInv, LineOK
    <3>2. Head(replies) = c /\ ran[c] = 1
      BY <3>1, Single DEF OnceOK
    <3>3. Outcomes[c] = "pending" /\ Outcomes' = [Outcomes EXCEPT ![c] = "answered"]
      BY <1>t, <2>1, <2>2, <3>2, OutcomeMoves DEF Return, Outcome, InFlight
    <3>4. AtMostOnce!Answer(c)
      BY <2>1, <3>2, <3>3 DEF AtMostOnce!Answer, AtMostOnce!Enter, Outcomes
    <3> QED
      BY <3>4 DEF AtMostOnce!Next
  <2>3. CASE Return(c, "failed")
    BY <1>3, <2>1, <2>3
  <2> QED
    BY <1>5, <2>2, <2>3 DEF Recv
<1>6. CASE Handle
  <2>1. /\ server.cur \in Calls /\ ran[server.cur] = 0 /\ call[server.cur] \in {"recv", "failed"}
        /\ UNCHANGED call
    BY <1>6, <1>t DEF Handle, ServerOK, OnceOK
  <2>2. Outcomes[server.cur] \in {"pending", "failed"} /\ Outcomes' = Outcomes
    BY <1>t, <1>u, <2>1 DEF Outcome, InFlight
  <2>3. ran' = [ran EXCEPT ![server.cur] = 1]
    BY <1>6, <1>t, <2>1 DEF Handle, TypeOK
  <2>4. AtMostOnce!CarryOut(server.cur)
    BY <2>1, <2>2, <2>3 DEF AtMostOnce!CarryOut, Outcomes
  <2> QED
    BY <2>1, <2>4 DEF AtMostOnce!Next
<1>7. CASE Dial \/ BeginStop \/ Close \/ GuestEnds \/ Decode \/ Encode \/ UNCHANGED vars
  <2>1. UNCHANGED <<call, ran>>
    BY <1>7 DEF Dial, BeginStop, Close, GuestEnds, Decode, Encode, vars
  <2> QED
    BY <1>s, <1>u, <2>1
<1> QED
  BY <1>1, <1>4, <1>5, <1>6, <1>7 DEF Next, RoundTrip

\* Whatever the creator, the Stops, the VMM and the other callers do, a request to
\* the guest is carried out at most once and an answer is given for one that was.
\* (client.go, server.go)
THEOREM AtMostOnceImplemented == ISpec => ImplementsAtMostOnce
<1>1. IInit => AtMostOnce!Init /\ OnceOK
  <2> SUFFICES ASSUME IInit PROVE AtMostOnce!Init /\ OnceOK
    OBVIOUS
  <2>1. \A c \in Calls : Outcome(c) = "idle" /\ ran[c] = 0
    BY DEF IInit, Init, Outcome, InFlight
  <2>2. AtMostOnce!Init
    BY <2>1 DEF AtMostOnce!Init, IInit, Init
  <2>3. sent = <<>> /\ replies = <<>> /\ server.pc = "decode" /\ Len(<<>>) = 0
    BY DEF IInit, Init
  <2>4. OnceOK
    BY <2>1, <2>3 DEF OnceOK
  <2> QED
    BY <2>2, <2>4
<1>2. IInv /\ OnceOK /\ [INext]_allVars => OnceOK' /\ [AtMostOnce!Next]_(AtMostOnce!calls)
  <2> SUFFICES ASSUME IInv, OnceOK, [INext]_allVars
               PROVE  OnceOK' /\ [AtMostOnce!Next]_(AtMostOnce!calls)
    OBVIOUS
  <2>1. AgentInv /\ [Next]_vars
    BY Parts DEF IInv, allVars
  <2> QED
    BY <2>1, OnceKept, AtMostOnceStep
<1> QED
  BY <1>1, <1>2, Invariant, PTL DEF ISpec, ImplementsAtMostOnce, AtMostOnce!Spec
=============================================================================
