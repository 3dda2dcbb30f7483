-------------------------- MODULE TcpAcceptProofs ---------------------------
(***************************************************************************)
(* Proofs about the accept loop and its worker threads (TcpAccept), for    *)
(* any number of workers, connections, addresses and steps of the wall     *)
(* clock.                                                                  *)
(***************************************************************************)
EXTENDS TcpAccept, FiniteSetTheorems, TLAPS

(* --- what the variables hold ----------------------------------------------- *)

WorkerFields == {"pc", "addr", "born", "needs_cookie", "preauth_deadline", "challenge",
                 "steps_at_issue", "response", "verified", "ok"}

BeforeReport == {"spawned", "hello", "issue", "response", "verify", "auth", "kem", "store"}

WorkerPcs == BeforeReport \cup {"send", "done"}

ListenerPcs == {"top", "poll", "accept", "wait", "ok", "err"}

IsWorker(w) ==
  /\ DOMAIN w = WorkerFields
  /\ w.pc \in WorkerPcs
  /\ w.born \in Nat /\ w.preauth_deadline \in Nat /\ w.steps_at_issue \in Nat
  /\ w.needs_cookie \in BOOLEAN /\ w.verified \in BOOLEAN /\ w.ok \in BOOLEAN

Result == [conn : Conns, ok : BOOLEAN]

Types ==
  /\ now \in Nat /\ steps \in Nat /\ offset \in Int
  /\ listener \in ListenerPcs
  /\ active_workers \in Nat
  /\ cancellation \in BOOLEAN
  /\ results \in Seq(Result)
  /\ DOMAIN worker = Conns
  /\ \A c \in Conns : worker[c] = Idle \/ IsWorker(worker[c])

(* --- the accounting of the workers ----------------------------------------- *)

Owing == {c \in Conns : worker[c] # Idle /\ worker[c].pc # "done"}

\* Worker c has a session, which it reports or has reported.
HasSession(c) ==
  /\ worker[c] # Idle /\ worker[c].ok
  /\ worker[c].pc = "send" \/ \E i \in DOMAIN results : results[i].conn = c

Reported(r) == worker[r.conn] # Idle /\ worker[r.conn].pc = "done" /\ worker[r.conn].ok = r.ok

Accounts ==
  /\ \A c \in Conns : worker[c] # Idle /\ worker[c].pc = "store" => worker[c].ok
  /\ Running =>
       /\ active_workers = Cardinality(Owing) + Len(results)
       /\ active_workers <= MaxWorkers
       /\ listener = "accept" => active_workers < MaxWorkers
       /\ \A i \in DOMAIN results : Reported(results[i])
       /\ cancellation => \E c \in Conns : HasSession(c)

(* --- the connects of an address -------------------------------------------- *)

\* The limiter has recorded the connect of worker c, or it is too old to count.
OnRecord(c) ==
  worker[c].born > now - PeerRateWindow
    => [conn |-> c, at |-> worker[c].born] \in Entries(seen, worker[c].addr.ip)

Proven(w) == w.needs_cookie /\ (w.pc \in {"auth", "kem", "store"} \/ w.ok) => w.verified

\* The workers of an address that were not asked for a cookie.
Unasked(ip, t) == {c \in InWindow(ip, t) : ~worker[c].needs_cookie}

Table ==
  /\ IsFiniteSet(DOMAIN seen) /\ Cardinality(DOMAIN seen) <= MaxTrackedPeers
  /\ \A ip \in DOMAIN seen : IsFiniteSet(seen[ip])

Connects ==
  \A c \in Conns : worker[c] # Idle =>
    /\ worker[c].born <= now
    /\ worker[c].addr.ip \notin evicted => OnRecord(c)

Counts ==
  /\ \A c \in Conns : worker[c] # Idle => Proven(worker[c])
  /\ \A ip \in Ips \ evicted : \A t \in 0 .. now :
       /\ Cardinality(InWindow(ip, t)) <= MaxConnects
       /\ Cardinality(Unasked(ip, t)) < CookieThreshold

Limits == Table /\ Connects /\ Counts

(* --- the cookies ------------------------------------------------------------ *)

\* The epoch that a worker whose pre-authentication deadline is d saw when it
\* issued its challenge, if the wall clock was not stepped since.
EpochAt(t) == MaxSteps + (t \div EpochTicks) + offset

IssuedAt(w, t) ==
  /\ w.preauth_deadline <= t + PreauthTicks
  /\ w.challenge.epoch = EpochAt(t)

\* The secret of a challenge is one of the two that are kept, and is not the
\* older one before its epoch is over.
SecretKept(ch) ==
  /\ ch.epoch <= authority.current_epoch
  /\ \/ ch.secret = authority.current_secret
     \/ ch.secret = authority.previous_secret /\ ch.epoch < authority.current_epoch

Challenged(w) ==
  /\ w.challenge = mac(w.challenge.secret, w.addr, w.challenge.epoch)
  /\ w.steps_at_issue <= steps
  /\ steps = w.steps_at_issue =>
       /\ \E t \in 0 .. now : IssuedAt(w, t)
       /\ Epoch <= w.challenge.epoch + 1 => SecretKept(w.challenge)

CookieOK(w) ==
  /\ w.pc \in {"hello", "issue"} => w.preauth_deadline <= now + PreauthTicks
  /\ w.pc \in {"response", "verify"} => Challenged(w)

Clocks ==
  /\ steps <= MaxSteps /\ 0 <= offset + steps
  /\ DOMAIN authority = {"current_secret", "previous_secret", "current_epoch"}
  /\ authority.current_epoch \in Nat

Cookies == Clocks /\ \A c \in Conns : worker[c] # Idle => CookieOK(worker[c])

(* --- one step of a worker ---------------------------------------------------- *)

\* What no step of a worker changes in its record.
SameConnection(v, w) ==
  w.addr = v.addr /\ w.born = v.born /\ w.needs_cookie = v.needs_cookie

\* Only worker c changes, and stays a worker of the same connection.
Moves(c) ==
  /\ DOMAIN worker' = Conns
  /\ \A d \in Conns : d # c => worker'[d] = worker[d]
  /\ worker[c] # Idle /\ IsWorker(worker[c])
  /\ worker'[c] # Idle /\ IsWorker(worker'[c])
  /\ SameConnection(worker[c], worker'[c])

\* A worker's record is not that of an idle slot.
LEMMA NotIdle == \A w : IsWorker(w) => w # Idle
BY DEF IsWorker, Idle, WorkerPcs, BeforeReport

\* A record whose program counter is not "idle" is a worker's.
LEMMA AWorker ==
  ASSUME Types, NEW c \in Conns, worker[c].pc # "idle"
  PROVE  worker[c] # Idle /\ IsWorker(worker[c])
BY NotIdle DEF Types, Idle

\* Goto: the program counter changes; leaving run also drops the locals.
LEMMA GotoMoves ==
  ASSUME Types, NEW c \in Conns, worker[c].pc # "idle",
         NEW pc \in WorkerPcs, Goto(c, pc)
  PROVE  /\ Moves(c)
         /\ worker'[c].pc = pc
         /\ worker'[c].ok = worker[c].ok /\ worker'[c].verified = worker[c].verified
         /\ worker'[c].challenge = worker[c].challenge
         /\ pc # "send" =>
              /\ worker'[c].preauth_deadline = worker[c].preauth_deadline
              /\ worker'[c].steps_at_issue = worker[c].steps_at_issue
<1>1. worker[c] # Idle /\ IsWorker(worker[c]) BY AWorker, Zenon
<1>2. worker' = [worker EXCEPT ![c] = worker'[c]] /\ DOMAIN worker = Conns
  BY Zenon DEF Goto, Types
<1>3. CASE pc = "send"
  <2>1. worker'[c] = Left(worker[c]) BY <1>2, <1>3, Zenon DEF Goto
  <2>2. PICK w : w = Left(worker[c]) BY Zenon
  <2>3. IsWorker(w) /\ w.pc = "send" /\ SameConnection(worker[c], w) /\ w.ok = worker[c].ok
        /\ w.verified = worker[c].verified /\ w.challenge = worker[c].challenge
    BY <1>1, <2>2, AcceptAssumption, Zenon DEF Left, IsWorker, WorkerFields, SameConnection, WorkerPcs
  <2> QED BY <1>1, <1>2, <1>3, <2>1, <2>2, <2>3, NotIdle, Zenon DEF Moves
<1>4. CASE pc # "send"
  <2>1. worker'[c] = [worker[c] EXCEPT !.pc = pc] BY <1>2, <1>4, Zenon DEF Goto
  <2>2. PICK w : w = [worker[c] EXCEPT !.pc = pc] BY Zenon
  <2>3. IsWorker(w) /\ w.pc = pc /\ SameConnection(worker[c], w) /\ w.ok = worker[c].ok
        /\ w.verified = worker[c].verified /\ w.challenge = worker[c].challenge
        /\ w.preauth_deadline = worker[c].preauth_deadline
        /\ w.steps_at_issue = worker[c].steps_at_issue
    BY <1>1, <2>2, Zenon DEF IsWorker, WorkerFields, SameConnection
  <2> QED BY <1>1, <1>2, <1>4, <2>1, <2>2, <2>3, NotIdle, Zenon DEF Moves
<1> QED BY <1>3, <1>4, Zenon

\* What a step of worker c other than the report of its result may change.
WorksOn(c) ==
  /\ Moves(c)
  /\ UNCHANGED <<clockVars, listenerVars>>
  /\ worker[c].pc \in BeforeReport /\ worker'[c].pc # "done"
  /\ worker'[c].pc = "store" => worker'[c].ok
  /\ \/ cancellation' = cancellation
     \/ /\ cancellation' = TRUE /\ worker[c].pc = "store" /\ worker'[c].pc = "send"
        /\ worker'[c].ok = worker[c].ok
  /\ Proven(worker[c]) => Proven(worker'[c])

\* A Goto that is no report, of a worker that still works.
LEMMA GotoWorksOn ==
  ASSUME Types, NEW c \in Conns, worker[c].pc \in BeforeReport,
         NEW pc \in WorkerPcs \ {"store", "done"}, Goto(c, pc),
         pc \in {"auth", "kem"} /\ worker[c].needs_cookie => worker[c].pc = "auth",
         UNCHANGED <<clockVars, listenerVars, cancellation>>
  PROVE  WorksOn(c)
<1>1. Moves(c) /\ worker'[c].pc = pc /\ worker'[c].ok = worker[c].ok
      /\ worker'[c].verified = worker[c].verified
  BY GotoMoves, Zenon DEF BeforeReport
<1>2. Proven(worker[c]) => Proven(worker'[c])
  BY <1>1, Zenon DEF Proven, Moves, SameConnection
<1> QED BY <1>1, <1>2, Zenon DEF WorksOn, listenerVars, clockVars

\* Every step of a worker but its report changes this worker alone.
LEMMA WorkWorksOn ==
  ASSUME Types, NEW c \in Conns, Work(c), ~ SendResult(c)
  PROVE  WorksOn(c)
<1> USE DEF BeforeReport, WorkerPcs
<1>1. CASE Start(c)
  <2>1. CASE Goto(c, "send") /\ WorkerOnly
    BY <1>1, <2>1, GotoWorksOn, Zenon DEF Start, WorkerOnly
  <2>2. CASE ~ Goto(c, "send")
    <3>1. PICK d : d = IF now + PreauthTicks < Deadline THEN now + PreauthTicks ELSE Deadline
      BY Zenon
    <3>2. d \in Nat BY <3>1, AcceptAssumption DEF Types
    <3>3. PICK w : w = [worker[c] EXCEPT !.pc = "hello", !.preauth_deadline = d] BY Zenon
    <3>4. worker' = [worker EXCEPT ![c] = w] /\ WorkerOnly /\ worker[c].pc = "spawned"
      BY <1>1, <2>2, <3>1, <3>3, Zenon DEF Start
    <3>5. worker[c] # Idle /\ IsWorker(worker[c]) BY <3>4, AWorker, Zenon
    <3>6. IsWorker(w) /\ SameConnection(worker[c], w) /\ w.pc = "hello" /\ w.ok = worker[c].ok
          /\ w.verified = worker[c].verified
      BY <3>2, <3>3, <3>5, Zenon DEF IsWorker, SameConnection, WorkerFields
    <3>7. worker'[c] = w /\ Moves(c) BY <3>4, <3>5, <3>6, NotIdle, Zenon DEF Moves, Types
    <3> QED BY <3>4, <3>6, <3>7, Zenon DEF WorksOn, WorkerOnly, Proven, SameConnection
  <2> QED BY <1>1, <2>1, <2>2, Zenon DEF Start
<1>2. CASE ReadHello(c)
  <2>1. PICK pc : pc = IF cancellation THEN "send"
                       ELSE IF worker[c].needs_cookie THEN "issue" ELSE "auth"
    BY Zenon
  <2>2. Goto(c, pc) /\ WorkerOnly BY <1>2, <2>1, Zenon DEF ReadHello
  <2> QED BY <1>2, <2>1, <2>2, GotoWorksOn, Zenon DEF ReadHello, WorkerOnly
<1>3. CASE IssueCookie(c)
  <2>1. CASE Goto(c, "send")
    BY <1>3, <2>1, GotoWorksOn, Zenon DEF IssueCookie
  <2>2. CASE ~ Goto(c, "send")
    <3>1. PICK w : w = [worker[c] EXCEPT !.challenge = issue(authority, worker[c].addr, Epoch),
                                         !.steps_at_issue = steps, !.pc = "response"]
      BY Zenon
    <3>2. worker' = [worker EXCEPT ![c] = w] /\ worker[c].pc = "issue"
          /\ UNCHANGED <<clockVars, listenerVars, cancellation>>
      BY <1>3, <2>2, <3>1, Zenon DEF IssueCookie
    <3>3. worker[c] # Idle /\ IsWorker(worker[c]) BY <3>2, AWorker, Zenon
    <3>4. IsWorker(w) /\ SameConnection(worker[c], w) /\ w.pc = "response" /\ w.ok = worker[c].ok
          /\ w.verified = worker[c].verified
      BY <3>1, <3>3, Zenon DEF IsWorker, SameConnection, WorkerFields, Types
    <3>5. worker'[c] = w /\ Moves(c) BY <3>2, <3>3, <3>4, NotIdle, Zenon DEF Moves, Types
    <3> QED BY <3>2, <3>4, <3>5, Zenon DEF WorksOn, Proven, SameConnection
  <2> QED BY <2>1, <2>2, Zenon
<1>4. CASE ReadResponse(c)
  <2>1. PICK answer, w : /\ w = [worker[c] EXCEPT !.response = answer, !.pc = "verify"]
                         /\ worker' = [worker EXCEPT ![c] = w]
    BY <1>4, Zenon DEF ReadResponse
  <2>2. worker[c] # Idle /\ IsWorker(worker[c]) BY <1>4, AWorker, Zenon DEF ReadResponse
  <2>3. IsWorker(w) /\ SameConnection(worker[c], w) /\ w.pc = "verify" /\ w.ok = worker[c].ok
        /\ w.verified = worker[c].verified
    BY <2>1, <2>2, Zenon DEF IsWorker, SameConnection, WorkerFields
  <2>4. worker'[c] = w /\ Moves(c) BY <2>1, <2>2, <2>3, NotIdle, Zenon DEF Moves, Types
  <2> QED BY <1>4, <2>3, <2>4, Zenon DEF WorksOn, Proven, SameConnection, ReadResponse, WorkerOnly
<1>5. CASE VerifyCookie(c)
  <2>1. CASE Goto(c, "send")
    BY <1>5, <2>1, GotoWorksOn, Zenon DEF VerifyCookie
  <2>2. CASE ~ Goto(c, "send")
    <3>1. PICK w : w = [worker[c] EXCEPT !.verified = TRUE, !.pc = "auth"] BY Zenon
    <3>2. worker' = [worker EXCEPT ![c] = w] /\ worker[c].pc = "verify"
          /\ UNCHANGED <<clockVars, listenerVars, cancellation>>
      BY <1>5, <2>2, <3>1, Zenon DEF VerifyCookie
    <3>3. worker[c] # Idle /\ IsWorker(worker[c]) BY <3>2, AWorker, Zenon
    <3>4. IsWorker(w) /\ SameConnection(worker[c], w) /\ w.pc = "auth" /\ w.verified
      BY <3>1, <3>3, Zenon DEF IsWorker, SameConnection, WorkerFields
    <3>5. worker'[c] = w /\ Moves(c) BY <3>2, <3>3, <3>4, NotIdle, Zenon DEF Moves, Types
    <3> QED BY <3>2, <3>4, <3>5, Zenon DEF WorksOn, Proven
  <2> QED BY <2>1, <2>2, Zenon
<1>6. CASE Authenticate(c)
  <2>1. PICK pc : pc = IF ~cancellation /\ InTime(c) THEN "kem" ELSE "send" BY Zenon
  <2>2. Goto(c, pc) /\ WorkerOnly BY <1>6, <2>1, Zenon DEF Authenticate
  <2> QED BY <1>6, <2>1, <2>2, GotoWorksOn, Zenon DEF Authenticate, WorkerOnly
<1>7. CASE DeriveKeys(c)
  <2>1. PICK w : w = [worker[c] EXCEPT !.pc = "store", !.ok = TRUE] BY Zenon
  <2>2. worker' = [worker EXCEPT ![c] = w] /\ worker[c].pc = "kem" /\ WorkerOnly
    BY <1>7, <2>1, Zenon DEF DeriveKeys
  <2>3. worker[c] # Idle /\ IsWorker(worker[c]) BY <2>2, AWorker, Zenon
  <2>4. IsWorker(w) /\ SameConnection(worker[c], w) /\ w.pc = "store" /\ w.ok
        /\ w.verified = worker[c].verified
    BY <2>1, <2>3, Zenon DEF IsWorker, SameConnection, WorkerFields
  <2>5. worker'[c] = w /\ Moves(c) BY <2>2, <2>3, <2>4, NotIdle, Zenon DEF Moves, Types
  <2> QED BY <2>2, <2>4, <2>5, Zenon DEF WorksOn, Proven, SameConnection, WorkerOnly
<1>8. CASE StoreCancellation(c)
  <2>1. Goto(c, "send") /\ worker[c].pc = "store" /\ cancellation' = TRUE
        /\ UNCHANGED <<clockVars, listenerVars>>
    BY <1>8, Zenon DEF StoreCancellation
  <2>2. Moves(c) /\ worker'[c].pc = "send" /\ worker'[c].ok = worker[c].ok
        /\ worker'[c].verified = worker[c].verified
    BY <2>1, GotoMoves, Zenon
  <2> QED BY <2>1, <2>2, Zenon DEF WorksOn, Proven, Moves, SameConnection
<1>9. CASE Fail(c)
  BY <1>9, GotoWorksOn, Zenon DEF Fail, WorkerOnly
<1> QED BY <1>1, <1>2, <1>3, <1>4, <1>5, <1>6, <1>7, <1>8, <1>9, Zenon DEF Work

\* The report of worker c: with the receiver gone nothing is sent.
LEMMA SendMoves ==
  ASSUME Types, NEW c \in Conns, SendResult(c)
  PROVE  /\ Moves(c)
         /\ worker[c].pc = "send" /\ worker'[c].pc = "done"
         /\ worker'[c].ok = worker[c].ok /\ worker'[c].verified = worker[c].verified
BY GotoMoves, Zenon DEF SendResult, WorkerPcs

\* A worker starts: an idle slot takes the record of a new connection.
Starts(addr, c) ==
  /\ worker[c] = Idle
  /\ DOMAIN worker' = Conns
  /\ \A d \in Conns : d # c => worker'[d] = worker[d]
  /\ IsWorker(worker'[c]) /\ worker'[c] # Idle
  /\ worker'[c].pc = "spawned" /\ worker'[c].addr = addr /\ worker'[c].born = now
  /\ worker'[c].ok = FALSE /\ worker'[c].verified = FALSE
  /\ worker'[c].needs_cookie = requires_cookie(seen', addr.ip)

\* What one accepted connection does: it is dropped, or a worker starts.
LEMMA AcceptStarts ==
  ASSUME Types, NEW addr \in Addrs, AcceptOk(addr)
  PROVE  \E victims \in Victims(Pruned(seen, now), addr.ip) :
           /\ evicted' = evicted \cup victims
           /\ \/ /\ ~WithinLimit(Pruned(seen, now), addr.ip)
                 /\ seen' = Recorded(Pruned(seen, now), victims, addr.ip, {})
                 /\ UNCHANGED <<active_workers, worker>>
              \/ /\ WithinLimit(Pruned(seen, now), addr.ip)
                 /\ \E c \in Conns :
                      /\ Starts(addr, c)
                      /\ seen' = Recorded(Pruned(seen, now), victims, addr.ip, {[conn |-> c, at |-> now]})
                 /\ active_workers' = active_workers + 1
<1>1. PICK pruned : pruned = Pruned(seen, now) BY Zenon
<1>2. PICK victims \in Victims(pruned, addr.ip) :
        /\ evicted' = evicted \cup victims
        /\ \/ /\ ~WithinLimit(pruned, addr.ip)
              /\ seen' = Recorded(pruned, victims, addr.ip, {})
              /\ UNCHANGED <<active_workers, worker>>
           \/ /\ WithinLimit(pruned, addr.ip)
              /\ \E c \in Conns :
                   /\ worker[c] = Idle
                   /\ seen' = Recorded(pruned, victims, addr.ip, {[conn |-> c, at |-> now]})
                   /\ worker' = [worker EXCEPT ![c] = Spawned(addr, requires_cookie(seen', addr.ip))]
              /\ active_workers' = active_workers + 1
  BY <1>1, Zenon DEF AcceptOk
<1>3. ASSUME NEW c \in Conns, worker[c] = Idle,
             worker' = [worker EXCEPT ![c] = Spawned(addr, requires_cookie(seen', addr.ip))]
      PROVE  Starts(addr, c)
  <2>1. PICK asked : asked = requires_cookie(seen', addr.ip) BY Zenon
  <2>2. asked \in BOOLEAN BY <2>1 DEF requires_cookie
  <2>3. PICK w : w = Spawned(addr, asked) BY Zenon
  <2>4. IsWorker(w) /\ w.pc = "spawned" /\ w.addr = addr /\ w.born = now
        /\ w.ok = FALSE /\ w.verified = FALSE /\ w.needs_cookie = asked
    BY <2>2, <2>3, AcceptAssumption, Zenon DEF Spawned, IsWorker, WorkerFields, WorkerPcs, BeforeReport, Types
  <2>5. DOMAIN worker' = Conns /\ worker'[c] = w /\ \A d \in Conns : d # c => worker'[d] = worker[d]
    BY <1>3, <2>1, <2>3, Zenon DEF Types
  <2> QED BY <1>3, <2>1, <2>4, <2>5, NotIdle, Zenon DEF Starts
<1> QED BY <1>1, <1>2, <1>3, Zenon

(* --- the types are kept -------------------------------------------------------- *)

\* The types hold at the start.
LEMMA TypesInit == Init => Types
<1> SUFFICES ASSUME Init PROVE Types BY Zenon
<1>1. results \in Seq(Result) BY DEF Init
<1>2. now \in Nat /\ steps \in Nat /\ offset \in Int /\ active_workers \in Nat BY DEF Init
<1>3. DOMAIN worker = Conns /\ \A c \in Conns : worker[c] = Idle BY Zenon DEF Init
<1> QED BY <1>1, <1>2, <1>3, Zenon DEF Init, Types, ListenerPcs

\* Workers keep the types.
LEMMA TypesWork ==
  ASSUME Types, NEW c \in Conns, Work(c)
  PROVE  Types'
<1>1. CASE SendResult(c)
  <2>1. Moves(c) BY <1>1, SendMoves, Zenon
  <2>2. results' \in Seq(Result)
    <3>1. worker[c].ok \in BOOLEAN BY <2>1, Zenon DEF Moves, IsWorker
    <3>2. PICK r : r = [conn |-> c, ok |-> worker[c].ok] BY Zenon
    <3>3. r \in Result BY <3>1, <3>2, Zenon DEF Result
    <3>4. results' = results \/ results' = Append(results, r) BY <1>1, <3>2, Zenon DEF SendResult
    <3> QED BY <3>3, <3>4 DEF Types
  <2> QED BY <1>1, <2>1, <2>2, Zenon DEF Types, SendResult, Moves, clockVars
<1>2. CASE ~ SendResult(c)
  <2>1. WorksOn(c) BY <1>2, WorkWorksOn, Zenon
  <2> QED BY <2>1, Zenon DEF Types, WorksOn, Moves, clockVars, listenerVars
<1> QED BY <1>1, <1>2, Zenon

\* Taking a result out of the channel keeps the types.
LEMMA FinishTypes ==
  ASSUME Types, results # << >>, finish_tcp_worker(Head(results))
  PROVE  Types'
<1>1. results' \in Seq(Result) BY DEF finish_tcp_worker, Types
<1>2. active_workers' \in Nat BY DEF finish_tcp_worker, Types
<1>3. listener' \in ListenerPcs /\ cancellation' \in BOOLEAN
  BY Zenon DEF finish_tcp_worker, Types, ListenerPcs
<1> QED BY <1>1, <1>2, <1>3, Zenon DEF finish_tcp_worker, Types, clockVars

\* The listener keeps the types.
LEMMA TypesListen ==
  ASSUME Types, Listen
  PROVE  Types'
<1> USE DEF clockVars, ListenerPcs
<1>1. CASE LoopTop BY <1>1, Zenon DEF LoopTop, Types
<1>2. CASE Poll
  <2>1. CASE results # << >> BY <1>2, <2>1, FinishTypes, Zenon DEF Poll
  <2>2. CASE results = << >> BY <1>2, <2>2, Zenon DEF Poll, Types
  <2> QED BY <2>1, <2>2, Zenon
<1>3. CASE Wait
  <2>1. CASE results # << >> BY <1>3, <2>1, FinishTypes, Zenon DEF Wait
  <2>2. CASE results = << >> BY <1>3, <2>2, Zenon DEF Wait, Types
  <2> QED BY <2>1, <2>2, Zenon
<1>4. CASE AcceptWouldBlock BY <1>4, Zenon DEF AcceptWouldBlock, Types
<1>5. CASE AcceptError BY <1>5, Zenon DEF AcceptError, Types
<1>6. CASE \E addr \in Addrs : AcceptOk(addr)
  <2>1. PICK addr \in Addrs : AcceptOk(addr) BY <1>6, Zenon
  <2>2. listener' = "top" /\ UNCHANGED <<clockVars, results, session, cancellation, authority>>
    BY <2>1, Zenon DEF AcceptOk
  <2>3. CASE UNCHANGED <<active_workers, worker>> BY <2>2, <2>3, Zenon DEF Types
  <2>4. CASE ~ UNCHANGED <<active_workers, worker>>
    <3>1. PICK c \in Conns : Starts(addr, c) /\ active_workers' = active_workers + 1
      BY <2>1, <2>4, AcceptStarts, Zenon
    <3> QED BY <2>2, <3>1 DEF Types, Starts
  <2> QED BY <2>3, <2>4, Zenon
<1> QED BY <1>1, <1>2, <1>3, <1>4, <1>5, <1>6, Zenon DEF Listen

\* Types is inductive.
LEMMA TypesStep == Types /\ [Next]_vars => Types'
<1> SUFFICES ASSUME Types, [Next]_vars PROVE Types' BY Zenon
<1>1. CASE Listen BY <1>1, TypesListen, Zenon
<1>2. CASE \E c \in Conns : Work(c) BY <1>2, TypesWork, Zenon
<1>3. CASE Tick BY <1>3 DEF Tick, Types, listenerVars
<1>4. CASE StepWallClock BY <1>4 DEF StepWallClock, Types, listenerVars
<1>5. CASE UNCHANGED vars BY <1>5, Zenon DEF vars, Types, listenerVars, clockVars
<1> QED BY <1>1, <1>2, <1>3, <1>4, <1>5, Zenon DEF Next

(* --- the accounting is kept ------------------------------------------------- *)

\* There are finitely many workers that still owe a result.
LEMMA OwingFinite == IsFiniteSet(Owing) /\ Cardinality(Owing) \in Nat
<1>1. IsFiniteSet(Conns) BY FS_Interval, AcceptAssumption DEF Conns
<1>2. Owing \subseteq Conns BY Zenon DEF Owing
<1>3. IsFiniteSet(Owing) BY <1>1, <1>2, FS_Subset, Zenon
<1> QED BY <1>3, FS_CardinalityType, Zenon

\* A result names a connection.
LEMMA ResultConn ==
  ASSUME Types, NEW i \in DOMAIN results
  PROVE  results[i].conn \in Conns
<1>1. results[i] \in Result BY DEF Types
<1> QED BY <1>1, Zenon DEF Result

\* No worker is active and none owes a result.
LEMMA AccountsInit == Init => Accounts
<1> SUFFICES ASSUME Init PROVE Accounts BY Zenon
<1>1. Owing = {} BY Zenon DEF Init, Owing
<1>2. Cardinality(Owing) = 0 BY <1>1, FS_EmptySet, Zenon
<1>3. Len(results) = 0 /\ DOMAIN results = {} BY DEF Init
<1> QED BY <1>2, <1>3, AcceptAssumption DEF Init, Accounts

\* A worker that goes on neither starts nor ends: the count stays.
LEMMA AccountsWorkOn ==
  ASSUME Types, Accounts, NEW c \in Conns, Work(c), ~ SendResult(c)
  PROVE  Accounts'
<1>1. WorksOn(c) BY WorkWorksOn, Zenon
<1>2. worker[c].pc # "send" /\ worker[c].pc # "done" BY <1>1, Zenon DEF WorksOn, BeforeReport
<1>3. Owing' = Owing
  BY <1>1, <1>2, Zenon DEF WorksOn, Moves, Owing
<1>4. ASSUME NEW d \in Conns, worker'[d] # Idle, worker'[d].pc = "store" PROVE worker'[d].ok
  BY <1>1, <1>4, Zenon DEF WorksOn, Moves, Accounts
<1>5. UNCHANGED <<listener, results, active_workers>> /\ (Running' <=> Running)
  BY <1>1, Zenon DEF WorksOn, listenerVars, Running
<1>6. ASSUME Running, NEW i \in DOMAIN results PROVE Reported(results[i])'
  <2>1. Reported(results[i]) BY <1>6, Zenon DEF Accounts
  <2>2. results[i].conn # c BY <2>1, <1>2, Zenon DEF Reported
  <2>3. results[i].conn \in Conns BY ResultConn, Zenon
  <2> QED BY <1>1, <1>5, <2>1, <2>2, <2>3, Zenon DEF Reported, WorksOn, Moves
<1>7. ASSUME Running, cancellation' PROVE \E d \in Conns : HasSession(d)'
  <2>1. CASE cancellation
    <3>1. PICK d \in Conns : HasSession(d) BY <1>7, <2>1, Zenon DEF Accounts
    <3>2. d # c
      <4>1. CASE worker[d].pc = "send" BY <4>1, <1>2, Zenon
      <4>2. CASE \E i \in DOMAIN results : results[i].conn = d
        BY <4>2, <1>7, <1>2, Zenon DEF Accounts, Reported
      <4> QED BY <4>1, <4>2, <3>1, Zenon DEF HasSession
    <3>3. worker'[d] = worker[d] BY <1>1, <3>2, Zenon DEF WorksOn, Moves
    <3>4. HasSession(d)' BY <3>1, <3>3, <1>5, Zenon DEF HasSession
    <3> QED BY <3>4, Zenon
  <2>2. CASE ~ cancellation
    <3>1. worker[c].pc = "store" /\ worker'[c].pc = "send" /\ worker'[c].ok = worker[c].ok
      BY <1>1, <1>7, <2>2, Zenon DEF WorksOn
    <3>2. worker[c] # Idle /\ worker'[c] # Idle BY <1>1, Zenon DEF WorksOn, Moves
    <3>3. worker[c].ok BY <3>1, <3>2, Zenon DEF Accounts
    <3>4. HasSession(c)' BY <3>1, <3>2, <3>3, Zenon DEF HasSession
    <3> QED BY <3>4, Zenon
  <2> QED BY <2>1, <2>2, Zenon
<1> QED BY <1>3, <1>4, <1>5, <1>6, <1>7, Zenon DEF Accounts

\* A report moves a worker from those that owe to the channel.
LEMMA AccountsSend ==
  ASSUME Types, Accounts, NEW c \in Conns, SendResult(c)
  PROVE  Accounts'
<1>1. /\ Moves(c) /\ worker[c].pc = "send" /\ worker'[c].pc = "done"
      /\ worker'[c].ok = worker[c].ok
  BY SendMoves, Zenon
<1>2. UNCHANGED <<listener, active_workers, cancellation>> /\ (Running' <=> Running)
  BY Zenon DEF SendResult, Running
<1>3. ASSUME NEW d \in Conns, worker'[d] # Idle, worker'[d].pc = "store" PROVE worker'[d].ok
  BY <1>1, <1>3, Zenon DEF Moves, Accounts
<1>4. CASE ~ Running BY <1>2, <1>3, <1>4, Zenon DEF Accounts
<1>5. CASE Running
  <2>1. PICK r : r = [conn |-> c, ok |-> worker[c].ok] BY Zenon
  <2>2. r.conn = c /\ r.ok = worker[c].ok BY <2>1, Zenon
  <2>3. results' = Append(results, r) BY <1>5, <2>1, Zenon DEF SendResult
  <2>4. r \in Result BY <1>1, <2>1, Zenon DEF Result, Moves, IsWorker
  <2>5. /\ Len(results') = Len(results) + 1 /\ Len(results) \in Nat
        /\ \A i \in DOMAIN results : i \in DOMAIN results' /\ results'[i] = results[i]
        /\ \A i \in DOMAIN results' : i \in DOMAIN results \/ results'[i] = r
        /\ Len(results') \in DOMAIN results' /\ results'[Len(results')] = r
    BY <2>3, <2>4 DEF Types
  <2>6. Owing' = Owing \ {c} /\ c \in Owing
    BY <1>1, Zenon DEF Moves, Owing
  <2>7. Cardinality(Owing') = Cardinality(Owing) - 1
    BY <2>6, OwingFinite, FS_RemoveElement, Zenon
  <2>8. active_workers' = Cardinality(Owing') + Len(results')
    BY <1>2, <1>5, <2>5, <2>7, OwingFinite DEF Accounts
  <2>9. ASSUME NEW i \in DOMAIN results' PROVE Reported(results[i])'
    <3>1. CASE i \in DOMAIN results
      <4>1. Reported(results[i]) /\ results'[i] = results[i] BY <3>1, <1>5, <2>5, Zenon DEF Accounts
      <4>2. results[i].conn # c BY <4>1, <1>1, Zenon DEF Reported
      <4>3. results[i].conn \in Conns BY <3>1, ResultConn, Zenon
      <4> QED BY <1>1, <4>1, <4>2, <4>3, Zenon DEF Reported, Moves
    <3>2. CASE results'[i] = r
      BY <3>2, <2>2, <1>1, Zenon DEF Reported, Moves
    <3> QED BY <3>1, <3>2, <2>5, <2>9, Zenon
  <2>10. ASSUME cancellation' PROVE \E d \in Conns : HasSession(d)'
    <3>1. PICK d \in Conns : HasSession(d) BY <2>10, <1>2, <1>5, Zenon DEF Accounts
    <3>2. CASE d = c
      <4>1. worker'[c] # Idle /\ worker'[c].ok BY <3>1, <3>2, <1>1, Zenon DEF HasSession, Moves
      <4>2. HasSession(c)' BY <4>1, <2>5, <2>2, Zenon DEF HasSession
      <4> QED BY <4>2, Zenon
    <3>3. CASE d # c
      <4>1. worker'[d] = worker[d] BY <1>1, <3>3, Zenon DEF Moves
      <4>2. HasSession(d)' BY <3>1, <4>1, <2>5, Zenon DEF HasSession
      <4> QED BY <4>2, Zenon
    <3> QED BY <3>2, <3>3, Zenon
  <2> QED BY <1>2, <1>3, <1>5, <2>8, <2>9, <2>10, Zenon DEF Accounts
<1> QED BY <1>4, <1>5, Zenon

\* The listener takes the first result.
LEMMA AccountsFinish ==
  ASSUME Types, Accounts, Running, results # << >>, finish_tcp_worker(Head(results))
  PROVE  Accounts'
<1>1. worker' = worker /\ Owing' = Owing BY Zenon DEF finish_tcp_worker, Owing
<1>2. CASE Head(results).ok
  BY <1>1, <1>2, Zenon DEF finish_tcp_worker, Accounts, Running
<1>3. CASE ~ Head(results).ok
  <2>1. /\ results' = Tail(results) /\ Len(results) \in Nat /\ Len(results) > 0
        /\ Len(results') = Len(results) - 1
        /\ \A i \in DOMAIN results' : i + 1 \in DOMAIN results /\ results'[i] = results[i + 1]
        /\ \A i \in DOMAIN results : i = 1 \/ (i - 1 \in DOMAIN results' /\ results'[i - 1] = results[i])
        /\ 1 \in DOMAIN results /\ Head(results) = results[1]
    BY DEF finish_tcp_worker, Types
  <2>2. active_workers' = active_workers - 1
    BY <2>1, OwingFinite DEF finish_tcp_worker, Accounts, Types
  <2>3. active_workers' = Cardinality(Owing') + Len(results') /\ active_workers' <= MaxWorkers
    BY <1>1, <2>1, <2>2, OwingFinite, AcceptAssumption DEF Accounts, Types
  <2>4. listener' = "top" /\ cancellation' = cancellation BY <1>3, Zenon DEF finish_tcp_worker
  <2>5. ASSUME NEW i \in DOMAIN results' PROVE Reported(results[i])'
    BY <1>1, <2>1 DEF Accounts, Reported
  <2>6. ASSUME cancellation PROVE \E d \in Conns : HasSession(d)'
    <3>1. PICK d \in Conns : HasSession(d) BY <2>6, Zenon DEF Accounts
    <3>2. CASE worker[d].pc = "send"
      <4>1. HasSession(d)' BY <3>1, <3>2, <1>1, Zenon DEF HasSession
      <4> QED BY <4>1, Zenon
    <3>3. CASE \E i \in DOMAIN results : results[i].conn = d
      <4>1. PICK i \in DOMAIN results : results[i].conn = d BY <3>3, Zenon
      <4>2. results[i].ok = worker[d].ok BY <4>1, Zenon DEF Accounts, Reported
      <4>3. i # 1 BY <4>2, <3>1, <1>3, <2>1, Zenon DEF HasSession
      <4>4. HasSession(d)' BY <3>1, <1>1, <4>1, <4>3, <2>1, Zenon DEF HasSession
      <4> QED BY <4>4, Zenon
    <3> QED BY <3>1, <3>2, <3>3, Zenon DEF HasSession
  <2> QED BY <1>1, <2>3, <2>4, <2>5, <2>6, Zenon DEF Accounts
<1> QED BY <1>2, <1>3, Zenon

\* The listener counts a worker in when it starts it and out with its result.
LEMMA AccountsListen ==
  ASSUME Types, Accounts, Listen
  PROVE  Accounts'
<1>1. CASE LoopTop
  <2>1. worker' = worker /\ Owing' = Owing /\ UNCHANGED <<results, active_workers>>
    BY <1>1, Zenon DEF LoopTop, Owing
  <2> QED BY <1>1, <2>1, Zenon DEF LoopTop, Accounts, Running, Reported, HasSession
<1>2. ASSUME results = << >>, Poll \/ Wait
      PROVE  Accounts'
  <2>1. worker' = worker /\ Owing' = Owing
        /\ UNCHANGED <<results, active_workers, cancellation>> /\ Running
    BY <1>2, Zenon DEF Poll, Wait, Owing, Running
  <2>2. listener' \in {"top", "wait"} \/ (listener' = "accept" /\ active_workers < MaxWorkers)
    BY <1>2, AcceptAssumption DEF Poll, Wait, Types
  <2> QED BY <2>1, <2>2, Zenon DEF Accounts, Running, Reported, HasSession
<1>3. ASSUME results # << >>, Poll \/ Wait
      PROVE  Accounts'
  BY <1>3, AccountsFinish, Zenon DEF Poll, Wait, Running
<1>4. CASE AcceptWouldBlock \/ AcceptError
  <2>1. worker' = worker /\ Owing' = Owing
        /\ UNCHANGED <<results, active_workers, cancellation>> /\ Running
    BY <1>4, Zenon DEF AcceptWouldBlock, AcceptError, Owing, Running
  <2>2. listener' \in {"wait", "err"} BY <1>4, Zenon DEF AcceptWouldBlock, AcceptError
  <2> QED BY <2>1, <2>2, Zenon DEF Accounts, Running, Reported, HasSession
<1>5. CASE \E addr \in Addrs : AcceptOk(addr)
  <2>1. PICK addr \in Addrs : AcceptOk(addr) BY <1>5, Zenon
  <2>2. listener = "accept" /\ listener' = "top" /\ UNCHANGED <<results, cancellation>>
    BY <2>1, Zenon DEF AcceptOk
  <2>3. CASE UNCHANGED <<active_workers, worker>>
    <3>1. Owing' = Owing BY <2>3, Zenon DEF Owing
    <3> QED BY <2>2, <2>3, <3>1, Zenon DEF Accounts, Running, Reported, HasSession
  <2>4. CASE ~ UNCHANGED <<active_workers, worker>>
    <3>1. PICK c \in Conns : Starts(addr, c) /\ active_workers' = active_workers + 1
      BY <2>1, <2>4, AcceptStarts, Zenon
    <3>2. Owing' = Owing \cup {c} /\ c \notin Owing BY <3>1, Zenon DEF Owing, Starts
    <3>3. Cardinality(Owing') = Cardinality(Owing) + 1
      BY <3>2, OwingFinite, FS_AddElement, Zenon
    <3>4. active_workers' = Cardinality(Owing') + Len(results') /\ active_workers' <= MaxWorkers
      <4>1. /\ active_workers = Cardinality(Owing) + Len(results) /\ active_workers < MaxWorkers
            /\ results' = results
        BY <2>2, Zenon DEF Accounts, Running
      <4>2. MaxWorkers \in Nat /\ Len(results) \in Nat BY AcceptAssumption DEF Types
      <4>3. Cardinality(Owing) \in Nat BY OwingFinite, Zenon
      <4> QED BY <3>1, <3>3, <4>1, <4>2, <4>3
    <3>5. ASSUME NEW d \in Conns, worker'[d] # Idle, worker'[d].pc = "store" PROVE worker'[d].ok
      BY <3>1, <3>5, Zenon DEF Accounts, Starts
    <3>6. ASSUME NEW i \in DOMAIN results PROVE Reported(results[i])'
      <4>1. Reported(results[i]) BY <2>2, Zenon DEF Accounts, Running
      <4>2. results[i].conn \in Conns /\ results[i].conn # c
        BY <3>1, <4>1, ResultConn, Zenon DEF Reported, Starts
      <4> QED BY <2>2, <3>1, <4>1, <4>2, Zenon DEF Reported, Starts
    <3>7. ASSUME cancellation PROVE \E d \in Conns : HasSession(d)'
      <4>1. PICK d \in Conns : HasSession(d) BY <2>2, <3>7, Zenon DEF Accounts, Running
      <4>2. worker'[d] = worker[d] BY <3>1, <4>1, Zenon DEF HasSession, Starts
      <4>3. HasSession(d)' BY <2>2, <4>1, <4>2, Zenon DEF HasSession
      <4> QED BY <4>3, Zenon
    <3> QED BY <2>2, <3>4, <3>5, <3>6, <3>7, Zenon DEF Accounts
  <2> QED BY <2>3, <2>4, Zenon
<1> QED BY <1>1, <1>2, <1>3, <1>4, <1>5, Zenon DEF Listen

\* Accounts is inductive.
LEMMA AccountsStep == Types /\ Accounts /\ [Next]_vars => Accounts'
<1> SUFFICES ASSUME Types, Accounts, [Next]_vars PROVE Accounts' BY Zenon
<1>1. CASE Listen BY <1>1, AccountsListen, Zenon
<1>2. CASE \E c \in Conns : Work(c) BY <1>2, AccountsWorkOn, AccountsSend, Zenon
<1>3. CASE Tick \/ StepWallClock \/ UNCHANGED vars
  <2>1. worker' = worker /\ Owing' = Owing
        /\ UNCHANGED <<listener, results, active_workers, cancellation>>
    BY <1>3, Zenon DEF Tick, StepWallClock, vars, listenerVars, Owing
  <2> QED BY <2>1, Zenon DEF Accounts, Running, Reported, HasSession
<1> QED BY <1>1, <1>2, <1>3, Zenon DEF Next

\* active_workers counts exactly the threads that still owe a result and the
\* results not yet taken, for any number of workers and connections: the
\* budget of tcp_accept_and_handshake_with_profile is never exceeded nor
\* leaked, a worker's send finds room in the channel, and handshakes are
\* cancelled only for a session in the channel or about to be sent.
THEOREM WorkersAccounted == Spec => []WorkerAccounting
<1>1. Types /\ Accounts => WorkerAccounting
  <2> SUFFICES ASSUME Types, Accounts, Running PROVE WorkerAccounting BY Zenon DEF WorkerAccounting
  <2> DEFINE owing == {c \in Started : worker[c].pc # "done"}
  <2>1. owing = Owing BY Zenon DEF Started, Owing
  <2>2. active_workers = Cardinality(owing) + Len(results) /\ active_workers <= MaxWorkers
    BY <2>1, Zenon DEF Accounts
  <2>3. ASSUME NEW c \in owing PROVE Len(results) < MaxWorkers
    <3>1. Cardinality(Owing) # 0 BY <2>1, OwingFinite, FS_EmptySet, Zenon
    <3>2. Len(results) \in Nat BY DEF Types
    <3>3. active_workers = Cardinality(Owing) + Len(results) /\ active_workers <= MaxWorkers
      BY Zenon DEF Accounts
    <3> QED BY <3>1, <3>2, <3>3, OwingFinite, AcceptAssumption
  <2>4. ASSUME cancellation
        PROVE  \E c \in Started : /\ worker[c].ok
                                   /\ \/ worker[c].pc = "send"
                                      \/ \E i \in DOMAIN results : results[i].conn = c
    BY <2>4, Zenon DEF Accounts, HasSession, Started
  <2> QED BY <2>2, <2>3, <2>4, Zenon DEF WorkerAccounting
<1>2. Init => Types /\ Accounts BY TypesInit, AccountsInit, Zenon
<1>3. Types /\ Accounts /\ [Next]_vars => Types' /\ Accounts' BY TypesStep, AccountsStep, Zenon
<1> QED BY <1>1, <1>2, <1>3, PTL DEF Spec

(* --- the limits are kept ------------------------------------------------------- *)

FiniteWindows ==
  \A ip, t :
    /\ IsFiniteSet(InWindow(ip, t)) /\ IsFiniteSet(Unasked(ip, t))
    /\ Cardinality(InWindow(ip, t)) \in Nat /\ Cardinality(Unasked(ip, t)) \in Nat
    /\ Cardinality(Unasked(ip, t)) <= Cardinality(InWindow(ip, t))

\* An address has finitely many workers in a window.
LEMMA WindowFinite == FiniteWindows
<1> SUFFICES ASSUME NEW ip, NEW t
             PROVE  /\ IsFiniteSet(InWindow(ip, t)) /\ IsFiniteSet(Unasked(ip, t))
                    /\ Cardinality(InWindow(ip, t)) \in Nat /\ Cardinality(Unasked(ip, t)) \in Nat
                    /\ Cardinality(Unasked(ip, t)) <= Cardinality(InWindow(ip, t))
  BY Zenon DEF FiniteWindows
<1>1. IsFiniteSet(Conns) BY FS_Interval, AcceptAssumption DEF Conns
<1>2. InWindow(ip, t) \subseteq Conns BY Zenon DEF InWindow, Started
<1>3. Unasked(ip, t) \subseteq InWindow(ip, t) BY Zenon DEF Unasked
<1>4. IsFiniteSet(InWindow(ip, t)) BY <1>1, <1>2, FS_Subset, Zenon
<1> QED BY <1>3, <1>4, FS_Subset, FS_CardinalityType, Zenon

\* The limiter has finitely many connects of an address.
LEMMA EntriesFinite ==
  ASSUME Table, NEW ip
  PROVE  IsFiniteSet(Entries(seen, ip)) /\ Cardinality(Entries(seen, ip)) \in Nat
BY FS_EmptySet, FS_CardinalityType, Zenon DEF Table, Entries

\* The limiter has as many connects of an address on record as workers of it
\* started in the window that ends now.
Counted ==
  \A ip \in Ips \ evicted : Cardinality(InWindow(ip, now)) <= Cardinality(Entries(seen, ip))

\* The connects of a window that ends now are on record, one entry each.
LEMMA WindowCounted == Types /\ Table /\ Connects => Counted
<1> SUFFICES ASSUME Types, Table, Connects, NEW ip \in Ips \ evicted
             PROVE  Cardinality(InWindow(ip, now)) <= Cardinality(Entries(seen, ip))
  BY Zenon DEF Counted
<1> DEFINE Connect(c) == [conn |-> c, at |-> worker[c].born]
           f == [c \in InWindow(ip, now) |-> Connect(c)]
<1>1. ASSUME NEW c \in InWindow(ip, now) PROVE Connect(c) \in Entries(seen, ip)
  <2>1. c \in Conns /\ worker[c] # Idle /\ worker[c].addr.ip = ip
        /\ worker[c].born \in (now - PeerRateWindow + 1) .. now
    BY Zenon DEF InWindow, Started
  <2>2. worker[c].born > now - PeerRateWindow
    BY <2>1, LimiterAssumption DEF Types
  <2> QED BY <2>1, <2>2, Zenon DEF Connects, OnRecord
<1>2. \A c, d \in InWindow(ip, now) : Connect(c) = Connect(d) => c = d
  BY Zenon
<1>3. f \in Injection(InWindow(ip, now), Entries(seen, ip))
  <2>1. f \in [InWindow(ip, now) -> Entries(seen, ip)] BY <1>1, Zenon
  <2>2. \A c, d \in InWindow(ip, now) : f[c] = f[d] => c = d BY <1>2, Zenon
  <2> HIDE DEF f
  <2> QED BY <2>1, <2>2, Zenon DEF Injection, IsInjective
<1> HIDE DEF f
<1> QED BY <1>3, EntriesFinite, FS_Injection, Zenon

\* Nobody has connected yet.
LEMMA LimitsInit == Init => Limits
<1> SUFFICES ASSUME Init PROVE Limits BY Zenon
<1>1. Started = {} BY Zenon DEF Init, Started
<1>2. \A ip, t : InWindow(ip, t) = {} /\ Unasked(ip, t) = {}
  BY <1>1, Zenon DEF InWindow, Unasked
<1>3. DOMAIN seen = {} BY Zenon DEF Init, EmptyLimiter
<1>4. Table BY <1>3, FS_EmptySet, LimiterAssumption DEF Table
<1>5. \A c \in Conns : worker[c] = Idle BY Zenon DEF Init
<1>6. Connects BY <1>5, Zenon DEF Connects
<1>7. Counts BY <1>2, <1>5, FS_EmptySet, LimiterAssumption DEF Counts
<1> QED BY <1>4, <1>6, <1>7, Zenon DEF Limits

\* A step of a worker changes nothing the limiter counts.
LEMMA LimitsWork ==
  ASSUME Types, Limits, NEW c \in Conns, Work(c)
  PROVE  Limits'
<1>1. Moves(c) /\ (Proven(worker[c]) => Proven(worker'[c])) /\ UNCHANGED <<now, seen, evicted>>
  <2>1. CASE SendResult(c)
    <3>1. Moves(c) /\ worker[c].pc = "send" /\ worker'[c].pc = "done"
          /\ worker'[c].ok = worker[c].ok /\ worker'[c].verified = worker[c].verified
      BY <2>1, SendMoves, Zenon
    <3> QED BY <2>1, <3>1, Zenon DEF Moves, SameConnection, Proven, SendResult, clockVars
  <2>2. CASE ~ SendResult(c)
    BY <2>2, WorkWorksOn, Zenon DEF WorksOn, clockVars, listenerVars
  <2> QED BY <2>1, <2>2, Zenon
<1>2. Started' = Started BY <1>1, Zenon DEF Moves, Started
<1>3. \A d \in Started : SameConnection(worker[d], worker'[d])
  BY <1>1, Zenon DEF Moves, SameConnection, Started
<1>4. \A ip, t : InWindow(ip, t)' = InWindow(ip, t)
  BY <1>2, <1>3, Zenon DEF InWindow, SameConnection
<1>5. \A ip, t : Unasked(ip, t)' = Unasked(ip, t)
  <2>1. \A ip, t : \A d \in InWindow(ip, t) : d \in Started BY Zenon DEF InWindow
  <2> QED BY <1>3, <1>4, <2>1, Zenon DEF Unasked, SameConnection
<1>6. Table' BY <1>1, Zenon DEF Table, Limits
<1>7. Connects'
  <2> SUFFICES ASSUME NEW d \in Conns, worker'[d] # Idle
               PROVE  /\ worker'[d].born <= now
                      /\ worker'[d].addr.ip \notin evicted => OnRecord(d)'
    BY <1>1, Zenon DEF Connects
  <2>1. worker[d] # Idle /\ SameConnection(worker[d], worker'[d])
    BY <1>2, <1>3, Zenon DEF Started
  <2> QED BY <1>1, <2>1, Zenon DEF Limits, Connects, OnRecord, SameConnection
<1>8. Counts'
  <2>1. ASSUME NEW d \in Conns, worker'[d] # Idle PROVE Proven(worker'[d])
    <3>1. worker[d] # Idle BY <1>2, <2>1, Zenon DEF Started
    <3> QED BY <1>1, <3>1, Zenon DEF Moves, Limits, Counts
  <2> QED BY <1>1, <1>4, <1>5, <2>1, Zenon DEF Limits, Counts
<1> QED BY <1>6, <1>7, <1>8, Zenon DEF Limits

\* A step that touches neither workers, limiter nor clock keeps the limits.
LEMMA LimitsKept ==
  ASSUME Limits, UNCHANGED <<worker, seen, evicted, now>>
  PROVE  Limits'
<1>1. \A ip, t : InWindow(ip, t)' = InWindow(ip, t) /\ Unasked(ip, t)' = Unasked(ip, t)
  BY Zenon DEF InWindow, Unasked, Started
<1> QED BY <1>1, Zenon DEF Limits, Table, Connects, Counts, OnRecord

\* Time moves the window on: what leaves it was counted before.
LEMMA LimitsTick ==
  ASSUME Types, Limits, Tick
  PROVE  Limits'
<1>1. now' = now + 1 /\ UNCHANGED <<worker, seen, evicted>> BY Zenon DEF Tick, listenerVars
<1>2. \A ip, t : InWindow(ip, t)' = InWindow(ip, t) /\ Unasked(ip, t)' = Unasked(ip, t)
  BY <1>1, Zenon DEF InWindow, Unasked, Started
<1>3. Table' BY <1>1, Zenon DEF Limits, Table
<1>4. Connects'
  <2> SUFFICES ASSUME NEW d \in Conns, worker[d] # Idle
               PROVE  /\ worker[d].born <= now'
                      /\ worker[d].addr.ip \notin evicted => OnRecord(d)'
    BY <1>1, Zenon DEF Connects
  <2>1. worker[d].born \in Nat /\ worker[d].born <= now /\ now \in Nat
    BY Zenon DEF Types, IsWorker, Limits, Connects
  <2>2. worker[d].addr.ip \notin evicted => OnRecord(d) BY Zenon DEF Limits, Connects
  <2>3. worker[d].born > now' - PeerRateWindow => worker[d].born > now - PeerRateWindow
    BY <1>1, <2>1, LimiterAssumption
  <2> QED BY <1>1, <2>1, <2>2, <2>3 DEF OnRecord
<1>5. ASSUME NEW ip \in Ips \ evicted, NEW t \in 0 .. now'
      PROVE  /\ Cardinality(InWindow(ip, t)) <= MaxConnects
             /\ Cardinality(Unasked(ip, t)) < CookieThreshold
  <2>1. CASE t \in 0 .. now BY <2>1, Zenon DEF Limits, Counts
  <2>2. CASE t = now + 1
    <3>1. InWindow(ip, t) \subseteq InWindow(ip, now)
      <4> SUFFICES ASSUME NEW c \in InWindow(ip, t) PROVE c \in InWindow(ip, now) BY Zenon
      <4>1. c \in Started /\ worker[c].addr.ip = ip
            /\ worker[c].born \in (t - PeerRateWindow + 1) .. t
        BY Zenon DEF InWindow
      <4>2. worker[c].born \in Nat /\ worker[c].born <= now /\ now \in Nat
        BY <4>1, Zenon DEF Types, IsWorker, Limits, Connects, Started
      <4>3. worker[c].born \in (now - PeerRateWindow + 1) .. now
        BY <2>2, <4>1, <4>2, LimiterAssumption
      <4> QED BY <4>1, <4>3, Zenon DEF InWindow
    <3>2. Unasked(ip, t) \subseteq Unasked(ip, now) BY <3>1, Zenon DEF Unasked
    <3>3. /\ Cardinality(InWindow(ip, t)) <= Cardinality(InWindow(ip, now))
          /\ Cardinality(Unasked(ip, t)) <= Cardinality(Unasked(ip, now))
      BY <3>1, <3>2, WindowFinite, FS_Subset, Zenon DEF FiniteWindows
    <3>4. /\ Cardinality(InWindow(ip, now)) <= MaxConnects
          /\ Cardinality(Unasked(ip, now)) < CookieThreshold
      BY DEF Limits, Counts, Types
    <3> QED BY <3>3, <3>4, WindowFinite, LimiterAssumption DEF FiniteWindows
  <2> QED BY <1>1, <2>1, <2>2 DEF Types
<1>6. Counts' BY <1>1, <1>2, <1>5, Zenon DEF Limits, Counts
<1> QED BY <1>3, <1>4, <1>6, Zenon DEF Limits

\* Pruning drops the connects that are too old, and nothing else.
LEMMA PrunedTable ==
  ASSUME Table, NEW pruned, pruned = Pruned(seen, now)
  PROVE  /\ IsFiniteSet(DOMAIN pruned) /\ Cardinality(DOMAIN pruned) \in Nat
         /\ Cardinality(DOMAIN pruned) <= MaxTrackedPeers
         /\ \A ip \in DOMAIN pruned : IsFiniteSet(pruned[ip])
         /\ \A ip : Entries(pruned, ip) = Recent(Entries(seen, ip), now)
<1> DEFINE alive == {ip \in DOMAIN seen : Recent(seen[ip], now) # {}}
<1>1. DOMAIN pruned = alive /\ \A ip \in alive : pruned[ip] = Recent(seen[ip], now)
  BY Zenon DEF Pruned
<1>2. alive \subseteq DOMAIN seen BY Zenon
<1>3. \A ip \in alive : Recent(seen[ip], now) \subseteq seen[ip] BY Zenon DEF Recent
<1>4. \A ip : Entries(pruned, ip) = Recent(Entries(seen, ip), now)
  <2> SUFFICES ASSUME NEW ip PROVE Entries(pruned, ip) = Recent(Entries(seen, ip), now) BY Zenon
  <2>1. CASE ip \in alive BY <1>1, <2>1, Zenon DEF Entries
  <2>2. CASE ip \in DOMAIN seen \ alive BY <1>1, <2>2, Zenon DEF Entries
  <2>3. CASE ip \notin DOMAIN seen BY <1>1, <2>3, Zenon DEF Entries, Recent
  <2> QED BY <2>1, <2>2, <2>3, Zenon
<1> HIDE DEF alive
<1>5. IsFiniteSet(alive) /\ Cardinality(alive) <= Cardinality(DOMAIN seen)
  BY <1>2, FS_Subset, Zenon DEF Table
<1>6. Cardinality(alive) \in Nat /\ Cardinality(DOMAIN seen) \in Nat
  BY <1>5, FS_CardinalityType, Zenon DEF Table
<1>7. \A ip \in DOMAIN pruned : IsFiniteSet(pruned[ip])
  BY <1>1, <1>2, <1>3, FS_Subset DEF Table
<1> QED BY <1>1, <1>4, <1>5, <1>6, <1>7, LimiterAssumption DEF Table

\* Recording a connect keeps the table small: the address is tracked, there is
\* room for it, or one makes room.
LEMMA RecordedTable ==
  ASSUME Table, NEW pruned, pruned = Pruned(seen, now), NEW ip,
         NEW victims \in Victims(pruned, ip), NEW connects, IsFiniteSet(connects),
         seen' = Recorded(pruned, victims, ip, connects)
  PROVE  /\ Table'
         /\ Entries(seen', ip) = Entries(pruned, ip) \cup connects
         /\ \A other : other # ip /\ other \notin victims => Entries(seen', other) = Entries(pruned, other)
<1>1. /\ IsFiniteSet(DOMAIN pruned) /\ Cardinality(DOMAIN pruned) \in Nat
      /\ Cardinality(DOMAIN pruned) <= MaxTrackedPeers
      /\ \A a \in DOMAIN pruned : IsFiniteSet(pruned[a])
  BY PrunedTable, Zenon
<1>2. PICK dom : dom = DOMAIN pruned BY Zenon
<1>3. DOMAIN seen' = (dom \ victims) \cup {ip}
      /\ \A a \in (dom \ victims) \cup {ip} :
           seen'[a] = IF a = ip THEN Entries(pruned, ip) \cup connects ELSE pruned[a]
  BY <1>2, Zenon DEF Recorded
<1>4. IsFiniteSet(DOMAIN seen') /\ Cardinality(DOMAIN seen') <= MaxTrackedPeers
  <2>1. CASE ip \in dom
    <3>1. victims = {} BY <1>2, <2>1, Zenon DEF Victims
    <3>2. DOMAIN seen' = dom BY <1>3, <2>1, <3>1, Zenon
    <3> QED BY <1>1, <1>2, <3>2, Zenon
  <2>2. CASE ip \notin dom /\ Cardinality(dom) < MaxTrackedPeers
    <3>1. victims = {} BY <1>1, <1>2, <2>2, LimiterAssumption DEF Victims
    <3>2. DOMAIN seen' = dom \cup {ip} BY <1>3, <3>1, Zenon
    <3>3. IsFiniteSet(dom \cup {ip}) /\ Cardinality(dom \cup {ip}) = Cardinality(dom) + 1
      BY <1>1, <1>2, <2>2, FS_AddElement, Zenon
    <3> QED BY <1>1, <1>2, <2>2, <3>2, <3>3, LimiterAssumption
  <2>3. CASE ip \notin dom /\ Cardinality(dom) >= MaxTrackedPeers
    <3>1. PICK victim : victims = {victim} /\ victim \in dom
      BY <1>2, <2>3, Zenon DEF Victims, Oldest
    <3>2. PICK less : less = dom \ {victim} BY Zenon
    <3>3. IsFiniteSet(less) /\ Cardinality(less) = Cardinality(dom) - 1
      BY <1>1, <1>2, <3>1, <3>2, FS_RemoveElement, Zenon
    <3>4. IsFiniteSet(less \cup {ip}) /\ Cardinality(less \cup {ip}) = Cardinality(less) + 1
      BY <2>3, <3>2, <3>3, FS_AddElement, Zenon
    <3>5. DOMAIN seen' = less \cup {ip} BY <1>3, <3>1, <3>2, Zenon
    <3> QED BY <1>1, <1>2, <3>3, <3>4, <3>5, LimiterAssumption
  <2> QED BY <1>1, <1>2, <2>1, <2>2, <2>3, LimiterAssumption
<1>5. IsFiniteSet(Entries(pruned, ip)) BY <1>1, FS_EmptySet, Zenon DEF Entries
<1>6. IsFiniteSet(Entries(pruned, ip) \cup connects) BY <1>5, FS_Union, Zenon
<1>7. \A a \in DOMAIN seen' : IsFiniteSet(seen'[a]) BY <1>1, <1>2, <1>3, <1>6, Zenon
<1>8. Table' BY <1>4, <1>7, Zenon DEF Table
<1>9. \A other : other # ip /\ other \notin victims => Entries(seen', other) = Entries(pruned, other)
  BY <1>2, <1>3, Zenon DEF Entries
<1>10. Entries(seen', ip) = Entries(pruned, ip) \cup connects BY <1>3, Zenon DEF Entries
<1> QED BY <1>8, <1>9, <1>10, Zenon

\* The connects that count stay on record, unless their address is evicted.
LEMMA ConnectsKept ==
  ASSUME Types, Table, Connects, NEW pruned, pruned = Pruned(seen, now), NEW ip,
         NEW victims \in Victims(pruned, ip), NEW connects, IsFiniteSet(connects),
         seen' = Recorded(pruned, victims, ip, connects),
         evicted' = evicted \cup victims, now' = now,
         NEW c \in Conns, worker[c] # Idle, worker'[c] = worker[c]
  PROVE  worker'[c].born <= now' /\ (worker'[c].addr.ip \notin evicted' => OnRecord(c)')
<1>1. worker[c].born <= now BY Zenon DEF Connects
<1>2. ASSUME worker[c].addr.ip \notin evicted', worker[c].born > now - PeerRateWindow
      PROVE  [conn |-> c, at |-> worker[c].born] \in Entries(seen', worker[c].addr.ip)
  <2>1. PICK a, e : a = worker[c].addr.ip /\ e = [conn |-> c, at |-> worker[c].born] BY Zenon
  <2>2. e \in Entries(seen, a) BY <1>2, <2>1, Zenon DEF Connects, OnRecord
  <2>3. e \in Recent(Entries(seen, a), now) BY <1>2, <2>1, <2>2, Zenon DEF Recent
  <2>4. e \in Entries(pruned, a) BY <2>3, PrunedTable, Zenon
  <2>5. a \notin victims BY <1>2, <2>1, Zenon
  <2>6. /\ Entries(seen', ip) = Entries(pruned, ip) \cup connects
        /\ \A other : other # ip /\ other \notin victims => Entries(seen', other) = Entries(pruned, other)
    BY RecordedTable
  <2>7. e \in Entries(seen', a)
    <3>1. CASE a = ip BY <2>4, <2>6, <3>1, Zenon
    <3>2. CASE a # ip BY <2>4, <2>5, <2>6, <3>2, Zenon
    <3> QED BY <3>1, <3>2, Zenon
  <2> QED BY <2>1, <2>7, Zenon
<1> QED BY <1>1, <1>2, Zenon DEF OnRecord

\* check_and_record lets a connect through only within the limit.
LEMMA LimitsAccept ==
  ASSUME Types, Types', Limits, NEW addr \in Addrs, AcceptOk(addr)
  PROVE  Limits'
<1>1. PICK pruned, ip : pruned = Pruned(seen, now) /\ ip = addr.ip BY Zenon
<1>2. now' = now BY Zenon DEF AcceptOk, clockVars
<1>3. Table /\ Connects /\ Counts BY Zenon DEF Limits
<1>4. PICK victims \in Victims(pruned, ip) :
        /\ evicted' = evicted \cup victims
        /\ \/ /\ ~WithinLimit(pruned, ip)
              /\ seen' = Recorded(pruned, victims, ip, {})
              /\ UNCHANGED <<active_workers, worker>>
           \/ /\ WithinLimit(pruned, ip)
              /\ \E c \in Conns :
                   /\ Starts(addr, c)
                   /\ seen' = Recorded(pruned, victims, ip, {[conn |-> c, at |-> now]})
              /\ active_workers' = active_workers + 1
  BY <1>1, AcceptStarts, Zenon
<1>5. CASE seen' = Recorded(pruned, victims, ip, {}) /\ worker' = worker
  <2>1. IsFiniteSet({}) BY FS_EmptySet, Zenon
  <2>2. Table' BY <1>1, <1>3, <1>5, <2>1, RecordedTable, Zenon
  <2>3. Connects' BY <1>1, <1>2, <1>3, <1>4, <1>5, <2>1, ConnectsKept, Zenon DEF Connects
  <2>4. \A a, t : InWindow(a, t)' = InWindow(a, t) /\ Unasked(a, t)' = Unasked(a, t)
    BY <1>5, Zenon DEF InWindow, Unasked, Started
  <2>5. Counts' BY <1>2, <1>3, <1>4, <1>5, <2>4, Zenon DEF Counts
  <2> QED BY <2>2, <2>3, <2>5, Zenon DEF Limits
<1>6. ASSUME WithinLimit(pruned, ip), NEW c \in Conns, Starts(addr, c),
             seen' = Recorded(pruned, victims, ip, {[conn |-> c, at |-> now]})
      PROVE  Limits'
  <2>1. PICK connects, e : connects = {e} /\ e = [conn |-> c, at |-> now] BY Zenon
  <2>2. IsFiniteSet(connects) BY <2>1, FS_Singleton, Zenon
  <2>3. seen' = Recorded(pruned, victims, ip, connects) BY <1>6, <2>1, Zenon
  <2>4. Table' /\ Entries(seen', ip) = Entries(pruned, ip) \cup connects
    BY <1>1, <1>3, <2>2, <2>3, RecordedTable
  <2>5. worker'[c] # Idle /\ worker'[c].born = now /\ worker'[c].addr.ip = ip
        /\ ~ worker'[c].ok /\ worker'[c].pc = "spawned" /\ worker[c] = Idle
        /\ \A d \in Conns : d # c => worker'[d] = worker[d]
    BY <1>1, <1>6, Zenon DEF Starts
  <2>6. Connects'
    <3> SUFFICES ASSUME NEW d \in Conns, worker'[d] # Idle
                 PROVE  worker'[d].born <= now' /\ (worker'[d].addr.ip \notin evicted' => OnRecord(d)')
      BY Zenon DEF Connects
    <3>1. CASE d = c
      BY <1>2, <2>1, <2>4, <2>5, <3>1 DEF OnRecord, Types
    <3>2. CASE d # c
      BY <1>1, <1>2, <1>3, <1>4, <2>2, <2>3, <2>5, <3>2, ConnectsKept, Zenon
    <3> QED BY <3>1, <3>2, Zenon
  <2>7. Started' = Started \cup {c} /\ c \notin Started BY <2>5 DEF Started
  <2>8. ASSUME NEW a, NEW t, a # ip \/ t < now, t \in 0 .. now
        PROVE  InWindow(a, t)' = InWindow(a, t) /\ Unasked(a, t)' = Unasked(a, t)
    <3>1. ~ (worker'[c].addr.ip = a /\ worker'[c].born \in (t - PeerRateWindow + 1) .. t)
      BY <2>5, <2>8, LimiterAssumption DEF Types
    <3>2. \A d \in Started : worker'[d] = worker[d] BY <2>5, Zenon DEF Started
    <3>3. InWindow(a, t)' = InWindow(a, t) BY <2>7, <3>1, <3>2, Zenon DEF InWindow
    <3>4. \A d \in InWindow(a, t) : worker'[d] = worker[d] BY <3>2, Zenon DEF InWindow
    <3> QED BY <3>3, <3>4, Zenon DEF Unasked
  <2>9. ASSUME ip \in Ips \ evicted'
        PROVE  /\ Cardinality(InWindow(ip, now)') <= MaxConnects
               /\ Cardinality(Unasked(ip, now)') < CookieThreshold
    <3>1. Counted' BY <2>4, <2>6, WindowCounted, PTL
    <3>2. FiniteWindows' BY WindowFinite, PTL
    <3>3. Cardinality(InWindow(ip, now)') <= Cardinality(Entries(seen', ip))
      BY <2>9, <3>1, Zenon DEF Counted
    <3>4. /\ Cardinality(InWindow(ip, now)') \in Nat /\ Cardinality(Unasked(ip, now)') \in Nat
          /\ Cardinality(Unasked(ip, now)') <= Cardinality(InWindow(ip, now)')
      BY <3>2, Zenon DEF FiniteWindows
    <3>5. PICK old : old = Entries(pruned, ip) BY Zenon
    <3>6. IsFiniteSet(old) /\ Cardinality(old) \in Nat
      BY <1>1, <1>3, <3>5, PrunedTable, FS_EmptySet, FS_CardinalityType, Zenon DEF Entries
    <3>7. Cardinality(Entries(seen', ip)) \in Nat
          /\ Cardinality(Entries(seen', ip)) <= Cardinality(old) + 1
      <4>1. Entries(seen', ip) = old \cup {e} BY <2>1, <2>4, <3>5, Zenon
      <4>2. Cardinality(old \cup {e}) = IF e \in old THEN Cardinality(old) ELSE Cardinality(old) + 1
        BY <3>6, FS_AddElement, Zenon
      <4> QED BY <3>6, <4>1, <4>2
    <3>8. Cardinality(old) < MaxConnects BY <1>6, <3>5, Zenon DEF WithinLimit
    <3>9. Cardinality(InWindow(ip, now)') <= MaxConnects
      BY <3>3, <3>4, <3>6, <3>7, <3>8, LimiterAssumption
    <3>10. CASE ~ worker'[c].needs_cookie
      <4>1. ~ (Cardinality(Entries(seen', ip)) >= CookieThreshold)
        BY <1>1, <1>6, <3>10, Zenon DEF Starts, requires_cookie
      <4> QED BY <3>3, <3>4, <3>7, <3>9, <4>1, LimiterAssumption
    <3>11. CASE worker'[c].needs_cookie
      <4>1. Unasked(ip, now)' \subseteq Unasked(ip, now)
        <5> SUFFICES ASSUME NEW d \in Unasked(ip, now)' PROVE d \in Unasked(ip, now) BY Zenon
        <5>1. /\ d \in Started' /\ worker'[d].addr.ip = ip /\ ~ worker'[d].needs_cookie
              /\ worker'[d].born \in (now - PeerRateWindow + 1) .. now
          BY <1>2, Zenon DEF Unasked, InWindow
        <5>2. d # c /\ d \in Started /\ worker'[d] = worker[d]
          BY <2>5, <2>7, <3>11, <5>1, Zenon DEF Started
        <5> QED BY <5>1, <5>2, Zenon DEF Unasked, InWindow
      <4>2. Cardinality(Unasked(ip, now)') <= Cardinality(Unasked(ip, now))
        BY <4>1, WindowFinite, FS_Subset, Zenon DEF FiniteWindows
      <4>3. Cardinality(Unasked(ip, now)) < CookieThreshold
        BY <1>3, <1>4, <2>9 DEF Counts, Types
      <4> QED BY <3>4, <3>9, <4>2, <4>3, WindowFinite, LimiterAssumption DEF FiniteWindows
    <3> QED BY <3>10, <3>11, Zenon
  <2>10. ASSUME NEW d \in Conns, worker'[d] # Idle PROVE Proven(worker'[d])
    <3>1. CASE d = c BY <2>5, <3>1, Zenon DEF Proven
    <3>2. CASE d # c BY <1>3, <2>5, <2>10, <3>2, Zenon DEF Counts
    <3> QED BY <3>1, <3>2, Zenon
  <2>11. ASSUME NEW a \in Ips \ evicted', NEW t \in 0 .. now'
         PROVE  /\ Cardinality(InWindow(a, t)') <= MaxConnects
                /\ Cardinality(Unasked(a, t)') < CookieThreshold
    <3>1. CASE a = ip /\ t = now BY <1>2, <2>9, <3>1, Zenon
    <3>2. CASE a # ip \/ t # now
      <4>1. a \in Ips \ evicted /\ t \in 0 .. now BY <1>2, <1>4, Zenon
      <4>2. a # ip \/ t < now BY <3>2, <4>1 DEF Types
      <4> QED BY <1>3, <2>8, <4>1, <4>2, Zenon DEF Counts
    <3> QED BY <3>1, <3>2, Zenon
  <2>12. Counts' BY <2>10, <2>11, Zenon DEF Counts
  <2> QED BY <2>4, <2>6, <2>12, Zenon DEF Limits
<1> QED BY <1>4, <1>5, <1>6, Zenon

\* Limits is inductive.
LEMMA LimitsStep == Types /\ Types' /\ Limits /\ [Next]_vars => Limits'
<1> SUFFICES ASSUME Types, Types', Limits, [Next]_vars PROVE Limits' BY Zenon
<1>1. CASE \E addr \in Addrs : AcceptOk(addr) BY <1>1, LimitsAccept, Zenon
<1>2. CASE LoopTop \/ Poll \/ Wait \/ AcceptWouldBlock \/ AcceptError
  <2>1. UNCHANGED <<worker, seen, evicted, now>>
    BY <1>2, Zenon DEF LoopTop, Poll, Wait, AcceptWouldBlock, AcceptError, finish_tcp_worker, clockVars
  <2> QED BY <2>1, LimitsKept, Zenon
<1>3. CASE \E c \in Conns : Work(c) BY <1>3, LimitsWork, Zenon
<1>4. CASE Tick BY <1>4, LimitsTick, Zenon
<1>5. CASE StepWallClock \/ UNCHANGED vars
  <2>1. UNCHANGED <<worker, seen, evicted, now>>
    BY <1>5, Zenon DEF StepWallClock, vars, clockVars, listenerVars
  <2> QED BY <2>1, LimitsKept, Zenon
<1> QED BY <1>1, <1>2, <1>3, <1>4, <1>5, Zenon DEF Next, Listen

\* In no span of PEER_RATE_WINDOW does one address get more workers than
\* MAX_CONNECTS_PER_PEER_PER_WINDOW, nor as many as COOKIE_CHALLENGE_THRESHOLD
\* that reach the key exchange without a cookie, unless the limiter evicted
\* the address; and the limiter tracks at most MAX_QUIC_TRACKED_PEERS
\* addresses: for any window, limits, addresses and schedule of connects.
THEOREM ConnectsAreLimited == Spec => []RateLimited
<1>1. Types /\ Limits => RateLimited
  <2> SUFFICES ASSUME Types, Limits PROVE RateLimited BY Zenon
  <2> DEFINE unproven(c) == /\ ~worker[c].verified
                            /\ \/ ~worker[c].needs_cookie
                               \/ worker[c].pc \in {"auth", "kem", "store"} \/ worker[c].ok
  <2>1. Cardinality(DOMAIN seen) <= MaxTrackedPeers BY Zenon DEF Limits, Table
  <2>2. ASSUME NEW ip \in Ips \ evicted, NEW t \in 0 .. now
        PROVE  /\ Cardinality(InWindow(ip, t)) <= MaxConnects
               /\ Cardinality({c \in InWindow(ip, t) : unproven(c)}) < CookieThreshold
    <3>1. {c \in InWindow(ip, t) : unproven(c)} \subseteq Unasked(ip, t)
      BY Zenon DEF Unasked, Limits, Counts, Proven, InWindow, Started
    <3> HIDE DEF unproven
    <3>2. PICK few : few = {c \in InWindow(ip, t) : unproven(c)} BY Zenon
    <3>3. Cardinality(few) <= Cardinality(Unasked(ip, t)) /\ Cardinality(few) \in Nat
      BY <3>1, <3>2, WindowFinite, FS_Subset, FS_CardinalityType, Zenon DEF FiniteWindows
    <3>4. Cardinality(Unasked(ip, t)) < CookieThreshold /\ Cardinality(InWindow(ip, t)) <= MaxConnects
      BY Zenon DEF Limits, Counts
    <3> QED BY <3>2, <3>3, <3>4, WindowFinite, LimiterAssumption DEF FiniteWindows
  <2> QED BY <2>1, <2>2, Zenon DEF RateLimited
<1>2. Init => Types /\ Limits BY TypesInit, LimitsInit, Zenon
<1>3. Types /\ Limits /\ [Next]_vars => Types' /\ Limits' BY TypesStep, LimitsStep, Zenon
<1> QED BY <1>1, <1>2, <1>3, PTL DEF Spec

(* --- the secrets of a challenge are kept ---------------------------------------- *)

\* Two times at most one epoch apart lie in the same epoch or in neighbours.
LEMMA NextEpoch ==
  ASSUME NEW t \in Nat, NEW n \in Nat, NEW e \in Nat \ {0}, t <= n, n <= t + e
  PROVE  /\ t \div e \in Nat /\ n \div e \in Nat
         /\ t \div e <= n \div e /\ n \div e <= t \div e + 1
OBVIOUS

\* A later time lies in the same epoch or in a later one.
LEMMA EpochMonotone ==
  ASSUME NEW t \in Nat, NEW n \in Nat, NEW e \in Nat \ {0}, t <= n
  PROVE  t \div e \in Nat /\ n \div e \in Nat /\ t \div e <= n \div e
OBVIOUS

\* A wall clock that is not stepped runs forward, and passes at most one end
\* of an epoch in PreauthTicks.
LEMMA EpochType ==
  ASSUME Types, Clocks
  PROVE  /\ Epoch \in Nat /\ Epoch = EpochAt(now)
         /\ \A t \in 0 .. now : EpochAt(t) \in Nat /\ EpochAt(t) <= Epoch
         /\ \A t \in 0 .. now : now <= t + PreauthTicks => Epoch <= EpochAt(t) + 1
<1>1. now \in Nat /\ offset \in Int /\ steps \in Nat /\ EpochTicks \in Nat \ {0} /\ MaxSteps \in Nat
      /\ 0 <= offset + MaxSteps /\ PreauthTicks \in Nat /\ PreauthTicks <= EpochTicks
  BY AcceptAssumption DEF Types, Clocks
<1>2. \A t \in 0 .. now : t \div EpochTicks \in Nat /\ now \div EpochTicks \in Nat
                           /\ t \div EpochTicks <= now \div EpochTicks
  BY <1>1, EpochMonotone
<1>3. \A t \in 0 .. now : now <= t + PreauthTicks => now \div EpochTicks <= t \div EpochTicks + 1
  <2> SUFFICES ASSUME NEW t \in 0 .. now, now <= t + PreauthTicks
               PROVE  now \div EpochTicks <= t \div EpochTicks + 1
    BY Zenon
  <2>1. t \in Nat /\ t <= now /\ now <= t + EpochTicks BY <1>1
  <2> QED BY <1>1, <2>1, NextEpoch, Zenon
<1>4. now \in 0 .. now BY <1>1
<1>5. Epoch = EpochAt(now) BY Zenon DEF Epoch, EpochAt
<1>6. \A t \in 0 .. now : EpochAt(t) \in Nat /\ EpochAt(t) <= EpochAt(now)
  BY <1>1, <1>2 DEF EpochAt
<1>7. \A t \in 0 .. now : now <= t + PreauthTicks => EpochAt(now) <= EpochAt(t) + 1
  BY <1>1, <1>2, <1>3 DEF EpochAt
<1> QED BY <1>4, <1>5, <1>6, <1>7, Zenon

\* What rotating does to the secrets.
LEMMA Rotated ==
  ASSUME Clocks, NEW epoch \in Nat, NEW new, new = rotate_to(authority, epoch)
  PROVE  /\ DOMAIN new = {"current_secret", "previous_secret", "current_epoch"}
         /\ new.current_epoch \in Nat /\ epoch <= new.current_epoch
         /\ \/ new = authority
            \/ /\ authority.current_epoch < epoch /\ new.current_epoch = epoch
               /\ new.previous_secret = authority.current_secret
BY DEF Clocks, rotate_to

\* A secret that is kept is kept by a rotation, unless its challenge is two
\* epochs old.
LEMMA RotationKeeps ==
  ASSUME Clocks, NEW epoch \in Nat, NEW new, new = rotate_to(authority, epoch),
         NEW ch, ch.epoch \in Nat, epoch <= ch.epoch + 1, SecretKept(ch)
  PROVE  /\ ch.epoch <= new.current_epoch
         /\ \/ ch.secret = new.current_secret
            \/ ch.secret = new.previous_secret /\ ch.epoch < new.current_epoch
<1>1. \/ new = authority
      \/ /\ authority.current_epoch < epoch /\ new.current_epoch = epoch
         /\ new.previous_secret = authority.current_secret
  BY Rotated, Zenon
<1>2. CASE new = authority BY <1>2, Zenon DEF SecretKept
<1>3. CASE /\ authority.current_epoch < epoch /\ new.current_epoch = epoch
           /\ new.previous_secret = authority.current_secret
  BY <1>3 DEF SecretKept, Clocks
<1> QED BY <1>1, <1>2, <1>3, Zenon

\* A challenged worker stays so while others rotate the secrets.
LEMMA ChallengedKept ==
  ASSUME Types, Clocks, NEW w, Challenged(w), UNCHANGED clockVars,
         authority' \in {authority, rotate_to(authority, Epoch)}
  PROVE  Challenged(w)'
<1>1. UNCHANGED <<now, offset, steps>> BY Zenon DEF clockVars
<1>2. Epoch' = Epoch /\ Epoch \in Nat BY <1>1, EpochType, Zenon DEF Epoch
<1>3. CASE steps # w.steps_at_issue BY <1>1, <1>3, Zenon DEF Challenged
<1>4. CASE steps = w.steps_at_issue
  <2>1. PICK t \in 0 .. now : IssuedAt(w, t) BY <1>4, Zenon DEF Challenged
  <2>2. IssuedAt(w, t)' BY <1>1, <2>1, Zenon DEF IssuedAt, EpochAt
  <2>3. w.challenge.epoch \in Nat BY <2>1, EpochType, Zenon DEF IssuedAt
  <2>4. ASSUME Epoch <= w.challenge.epoch + 1 PROVE SecretKept(w.challenge)'
    <3>1. SecretKept(w.challenge) BY <1>4, <2>4, Zenon DEF Challenged
    <3>2. CASE authority' = authority BY <3>1, <3>2, Zenon DEF SecretKept
    <3>3. CASE authority' = rotate_to(authority, Epoch)
      BY <1>2, <2>3, <2>4, <3>1, <3>3, RotationKeeps, Zenon DEF SecretKept
    <3> QED BY <3>2, <3>3, Zenon
  <2> QED BY <1>1, <1>2, <2>2, <2>4, Zenon DEF Challenged
<1> QED BY <1>3, <1>4, Zenon

\* Nothing is challenged yet.
LEMMA CookiesInit == Init => Cookies
<1> SUFFICES ASSUME Init PROVE Cookies BY Zenon
<1>1. \A c \in Conns : worker[c] = Idle BY Zenon DEF Init
<1>2. Clocks BY AcceptAssumption DEF Init, Clocks, NewAuthority
<1> QED BY <1>1, <1>2, Zenon DEF Cookies

\* The authority changes only by a rotation to the epoch of the wall clock.
LEMMA WorkRotates ==
  ASSUME NEW c \in Conns, Work(c)
  PROVE  UNCHANGED clockVars /\ authority' \in {authority, rotate_to(authority, Epoch)}
BY Zenon DEF Work, Start, ReadHello, IssueCookie, ReadResponse, VerifyCookie, Authenticate, DeriveKeys,
       StoreCancellation, SendResult, Fail, WorkerOnly

\* The worker that steps: it starts with a deadline PreauthTicks ahead, and
\* its challenge is made under the secret that is current after the rotation.
LEMMA CookieWorker ==
  ASSUME Types, Clocks, NEW c \in Conns, worker[c] # Idle => CookieOK(worker[c]), Work(c)
  PROVE  CookieOK(worker[c])'
<1>0. UNCHANGED clockVars /\ authority' \in {authority, rotate_to(authority, Epoch)}
  BY WorkRotates, Zenon
<1>1. ASSUME worker'[c].pc \notin {"hello", "issue", "response", "verify"} PROVE CookieOK(worker[c])'
  BY <1>1, Zenon DEF CookieOK
<1>2. CASE Start(c)
  <2>1. CASE Goto(c, "send")
    <3>1. worker'[c].pc = "send" BY <1>2, <2>1, GotoMoves, Zenon DEF Start, WorkerPcs
    <3> QED BY <1>1, <3>1, Zenon
  <2>2. CASE ~ Goto(c, "send")
    <3>1. PICK d : d = IF now + PreauthTicks < Deadline THEN now + PreauthTicks ELSE Deadline
      BY Zenon
    <3>2. d <= now + PreauthTicks BY <3>1, AcceptAssumption DEF Types
    <3>3. PICK w : w = [worker[c] EXCEPT !.pc = "hello", !.preauth_deadline = d] BY Zenon
    <3>4. worker' = [worker EXCEPT ![c] = w] /\ worker[c].pc = "spawned"
      BY <1>2, <2>2, <3>1, <3>3, Zenon DEF Start
    <3>5. IsWorker(worker[c]) BY <3>4, AWorker, Zenon
    <3>6. w.pc = "hello" /\ w.preauth_deadline = d BY <3>3, <3>5, Zenon DEF IsWorker, WorkerFields
    <3>7. worker'[c] = w BY <3>4, Zenon DEF Types
    <3>8. now' = now BY <1>0, Zenon DEF clockVars
    <3> QED BY <3>2, <3>6, <3>7, <3>8, Zenon DEF CookieOK
  <2> QED BY <2>1, <2>2, Zenon
<1>3. CASE ReadHello(c)
  <2>1. PICK pc : pc = IF cancellation THEN "send"
                       ELSE IF worker[c].needs_cookie THEN "issue" ELSE "auth"
    BY Zenon
  <2>2. Goto(c, pc) /\ worker[c].pc = "hello" BY <1>3, <2>1, Zenon DEF ReadHello
  <2>0. pc \in WorkerPcs BY <2>1, Zenon DEF WorkerPcs, BeforeReport
  <2>3. worker'[c].pc = pc
        /\ (pc # "send" => worker'[c].preauth_deadline = worker[c].preauth_deadline)
    <3>1. worker[c].pc # "idle" BY <2>2, Zenon
    <3> QED BY <2>0, <2>2, <3>1, GotoMoves, Zenon
  <2>4. CookieOK(worker[c]) BY <2>2, AWorker, Zenon
  <2>5. now' = now BY <1>0, Zenon DEF clockVars
  <2> QED BY <1>1, <2>1, <2>2, <2>3, <2>4, <2>5, Zenon DEF CookieOK
<1>4. CASE IssueCookie(c)
  <2>1. CASE Goto(c, "send")
    <3>1. worker'[c].pc = "send" BY <1>4, <2>1, GotoMoves, Zenon DEF IssueCookie, WorkerPcs
    <3> QED BY <1>1, <3>1, Zenon
  <2>2. CASE ~ Goto(c, "send")
    <3>1. PICK ch : ch = issue(authority, worker[c].addr, Epoch) BY Zenon
    <3>2. PICK w : w = [worker[c] EXCEPT !.challenge = ch, !.steps_at_issue = steps, !.pc = "response"]
      BY Zenon
    <3>3. worker' = [worker EXCEPT ![c] = w] /\ worker[c].pc = "issue"
          /\ authority' = rotate_to(authority, Epoch)
      BY <1>4, <2>2, <3>1, <3>2, Zenon DEF IssueCookie
    <3>4. IsWorker(worker[c]) /\ CookieOK(worker[c]) BY <3>3, AWorker, Zenon
    <3>5. w.pc = "response" /\ w.challenge = ch /\ w.steps_at_issue = steps
          /\ w.addr = worker[c].addr /\ w.preauth_deadline = worker[c].preauth_deadline
      BY <3>2, <3>4, Zenon DEF IsWorker, WorkerFields
    <3>6. worker'[c] = w BY <3>3, Zenon DEF Types
    <3>7. UNCHANGED <<now, offset, steps>> BY <1>0, Zenon DEF clockVars
    <3>8. ch.secret = authority'.current_secret /\ ch.epoch = Epoch
          /\ ch = mac(ch.secret, w.addr, ch.epoch)
      BY <3>1, <3>3, <3>5 DEF issue, mac
    <3>9. Epoch \in Nat /\ Epoch = EpochAt(now) /\ now \in 0 .. now BY EpochType DEF Types
    <3>10. Epoch <= authority'.current_epoch BY <3>3, <3>9, Rotated, Zenon
    <3>11. SecretKept(ch)' BY <3>8, <3>10, Zenon DEF SecretKept
    <3>12. IssuedAt(w, now)'
      BY <3>3, <3>4, <3>5, <3>7, <3>8, <3>9, Zenon DEF IssuedAt, EpochAt, CookieOK
    <3>13. Challenged(w)'
      <4>1. w.challenge = mac(w.challenge.secret, w.addr, w.challenge.epoch) BY <3>5, <3>8, Zenon
      <4>2. w.steps_at_issue = steps /\ steps' = steps /\ steps \in Nat BY <3>5, <3>7, Zenon DEF Types
      <4>3. w.steps_at_issue <= steps' BY <4>2
      <4>4. now' = now BY <3>7, Zenon
      <4>5. \E t \in 0 .. now' : IssuedAt(w, t)' BY <3>9, <3>12, <4>4, Zenon
      <4>6. SecretKept(w.challenge)' BY <3>5, <3>11, Zenon
      <4> QED BY <4>1, <4>3, <4>5, <4>6, Zenon DEF Challenged
    <3> QED BY <3>5, <3>6, <3>13, Zenon DEF CookieOK
  <2> QED BY <2>1, <2>2, Zenon
<1>5. CASE ReadResponse(c)
  <2>1. PICK answer, w : /\ w = [worker[c] EXCEPT !.response = answer, !.pc = "verify"]
                         /\ worker' = [worker EXCEPT ![c] = w]
    BY <1>5, Zenon DEF ReadResponse
  <2>2. IsWorker(worker[c]) /\ CookieOK(worker[c]) /\ worker[c].pc = "response"
    BY <1>5, AWorker, Zenon DEF ReadResponse
  <2>3. w.pc = "verify" /\ w.challenge = worker[c].challenge /\ w.addr = worker[c].addr
        /\ w.steps_at_issue = worker[c].steps_at_issue
        /\ w.preauth_deadline = worker[c].preauth_deadline
    BY <2>1, <2>2, Zenon DEF IsWorker, WorkerFields
  <2>4. Challenged(worker[c]) BY <2>2, Zenon DEF CookieOK
  <2>5. Challenged(w) BY <2>3, <2>4, Zenon DEF Challenged, IssuedAt
  <2>6. Challenged(w)' BY <1>0, <2>5, ChallengedKept, Zenon
  <2>7. worker'[c] = w BY <2>1, Zenon DEF Types
  <2> QED BY <2>3, <2>6, <2>7, Zenon DEF CookieOK
<1>6. CASE VerifyCookie(c) \/ Authenticate(c) \/ DeriveKeys(c) \/ StoreCancellation(c)
           \/ SendResult(c) \/ Fail(c)
  <2>1. worker[c].pc # "idle"
    BY <1>6, Zenon DEF VerifyCookie, Authenticate, DeriveKeys, StoreCancellation, SendResult, Fail
  <2>2. DOMAIN worker[c] = WorkerFields /\ DOMAIN worker = Conns
    BY <2>1, AWorker, Zenon DEF IsWorker, Types
  <2>3. worker'[c].pc \in {"send", "auth", "kem", "store", "done"}
    <3>1. CASE Goto(c, "send") \/ Goto(c, "kem") \/ Goto(c, "done")
      BY <2>1, <3>1, GotoMoves, Zenon DEF WorkerPcs, BeforeReport
    <3>2. CASE worker' = [worker EXCEPT ![c].verified = TRUE, ![c].pc = "auth"]
               \/ worker' = [worker EXCEPT ![c].pc = "store", ![c].ok = TRUE]
      BY <2>2, <3>2, Zenon DEF WorkerFields
    <3> QED BY <1>6, <3>1, <3>2, Zenon
            DEF VerifyCookie, Authenticate, DeriveKeys, StoreCancellation, SendResult, Fail
  <2> QED BY <1>1, <2>3, Zenon
<1> QED BY <1>2, <1>3, <1>4, <1>5, <1>6, Zenon DEF Work

\* A rotation keeps the authority's shape.
LEMMA ClocksKept ==
  ASSUME Types, Clocks, UNCHANGED clockVars,
         authority' \in {authority, rotate_to(authority, Epoch)}
  PROVE  Clocks'
BY EpochType, Rotated, Zenon DEF Clocks, clockVars

\* Workers keep their own challenge and each other's.
LEMMA CookiesWork ==
  ASSUME Types, Cookies, NEW c \in Conns, Work(c)
  PROVE  Cookies'
<1>0. UNCHANGED clockVars /\ authority' \in {authority, rotate_to(authority, Epoch)}
  BY WorkRotates, Zenon
<1>1. Clocks /\ Clocks' BY <1>0, ClocksKept, Zenon DEF Cookies
<1>2. Moves(c)
  <2>1. CASE SendResult(c) BY <2>1, SendMoves, Zenon
  <2>2. CASE ~ SendResult(c) BY <2>2, WorkWorksOn, Zenon DEF WorksOn
  <2> QED BY <2>1, <2>2, Zenon
<1>3. ASSUME NEW d \in Conns, worker'[d] # Idle PROVE CookieOK(worker[d])'
  <2>1. CASE d = c BY <1>1, <2>1, CookieWorker, Zenon DEF Cookies
  <2>2. CASE d # c
    <3>1. worker'[d] = worker[d] /\ CookieOK(worker[d]) BY <1>2, <1>3, <2>2, Zenon DEF Moves, Cookies
    <3>2. PICK w : w = worker[d] BY Zenon
    <3>3. Challenged(w) => Challenged(w)' BY <1>0, <1>1, ChallengedKept, Zenon
    <3>4. now' = now BY <1>0, Zenon DEF clockVars
    <3> QED BY <3>1, <3>2, <3>3, <3>4, Zenon DEF CookieOK
  <2> QED BY <2>1, <2>2, Zenon
<1> QED BY <1>1, <1>3, Zenon DEF Cookies

\* The listener leaves challenges, secrets and clocks alone; a worker it
\* starts has no challenge.
LEMMA CookiesListen ==
  ASSUME Types, Cookies, Listen
  PROVE  Cookies'
<1>1. UNCHANGED <<clockVars, authority>>
  BY Zenon DEF Listen, LoopTop, Poll, Wait, AcceptWouldBlock, AcceptError, AcceptOk, finish_tcp_worker
<1>2. Clocks /\ Clocks' BY <1>1, ClocksKept, Zenon DEF Cookies
<1>3. ASSUME NEW d \in Conns, worker'[d] # Idle
      PROVE  (worker[d] # Idle /\ worker'[d] = worker[d]) \/ worker'[d].pc = "spawned"
  <2>1. CASE LoopTop \/ Poll \/ Wait \/ AcceptWouldBlock \/ AcceptError
    BY <1>3, <2>1, Zenon DEF LoopTop, Poll, Wait, AcceptWouldBlock, AcceptError, finish_tcp_worker
  <2>2. CASE \E addr \in Addrs : AcceptOk(addr)
    BY <1>3, <2>2, AcceptStarts, Zenon DEF Starts
  <2> QED BY <2>1, <2>2, Zenon DEF Listen
<1>4. ASSUME NEW d \in Conns, worker'[d] # Idle PROVE CookieOK(worker[d])'
  <2>1. CASE worker'[d].pc = "spawned" BY <2>1, Zenon DEF CookieOK
  <2>2. CASE worker[d] # Idle /\ worker'[d] = worker[d]
    <3>1. CookieOK(worker[d]) BY <2>2, Zenon DEF Cookies
    <3>2. PICK w : w = worker[d] BY Zenon
    <3>3. Challenged(w) => Challenged(w)' BY <1>1, <1>2, ChallengedKept, Zenon
    <3>4. now' = now BY <1>1, Zenon DEF clockVars
    <3> QED BY <2>2, <3>1, <3>2, <3>3, <3>4, Zenon DEF CookieOK
  <2> QED BY <1>3, <1>4, <2>1, <2>2, Zenon
<1> QED BY <1>2, <1>4, Zenon DEF Cookies

\* Time passes: no epoch comes back.
LEMMA CookiesTick ==
  ASSUME Types, Cookies, Tick
  PROVE  Cookies'
<1>1. now' = now + 1 /\ UNCHANGED <<offset, steps, authority, worker>> BY Zenon DEF Tick
<1>2. Clocks /\ Clocks' BY <1>1, Zenon DEF Cookies, Clocks
<1>3. Epoch \in Nat /\ Epoch' \in Nat /\ Epoch <= Epoch'
  <2>1. now \in Nat /\ EpochTicks \in Nat \ {0} /\ MaxSteps \in Nat /\ offset \in Int
    BY AcceptAssumption, Zenon DEF Types
  <2>2. now \div EpochTicks \in Nat /\ (now + 1) \div EpochTicks \in Nat
        /\ now \div EpochTicks <= (now + 1) \div EpochTicks
    BY <2>1, EpochMonotone
  <2>3. Epoch \in Nat BY <1>2, EpochType, Zenon
  <2> QED BY <1>1, <2>1, <2>2, <2>3 DEF Epoch
<1>4. ASSUME NEW w, Challenged(w) PROVE Challenged(w)'
  <2>1. CASE steps # w.steps_at_issue BY <1>1, <1>4, <2>1, Zenon DEF Challenged
  <2>2. CASE steps = w.steps_at_issue
    <3>1. PICK t \in 0 .. now : IssuedAt(w, t) BY <1>4, <2>2, Zenon DEF Challenged
    <3>2. IssuedAt(w, t)' BY <1>1, <3>1, Zenon DEF IssuedAt, EpochAt
    <3>3. t \in 0 .. now' BY <1>1 DEF Types
    <3>4. w.challenge.epoch \in Nat BY <1>2, <3>1, EpochType, Zenon DEF IssuedAt
    <3>5. Epoch' <= w.challenge.epoch + 1 => SecretKept(w.challenge)'
      BY <1>1, <1>3, <1>4, <2>2, <3>4 DEF Challenged, SecretKept
    <3> QED BY <1>1, <1>4, <3>2, <3>3, <3>5, Zenon DEF Challenged
  <2> QED BY <2>1, <2>2, Zenon
<1>5. ASSUME NEW d \in Conns, worker'[d] # Idle PROVE CookieOK(worker[d])'
  <2>1. CookieOK(worker[d]) /\ IsWorker(worker[d]) BY <1>1, <1>5, Zenon DEF Cookies, Types
  <2>2. PICK w : w = worker[d] BY Zenon
  <2> QED BY <1>1, <1>4, <2>1, <2>2, AcceptAssumption DEF CookieOK, IsWorker, Types
<1> QED BY <1>2, <1>5, Zenon DEF Cookies

\* Stepping the wall clock excuses every challenge that is out.
LEMMA CookiesStepWallClock ==
  ASSUME Types, Cookies, StepWallClock
  PROVE  Cookies'
<1>1. steps' = steps + 1 /\ steps < MaxSteps /\ UNCHANGED <<now, authority, worker>>
      /\ offset' \in {offset - 1, offset + 1}
  BY Zenon DEF StepWallClock
<1>2. Clocks'
  <2>1. Clocks /\ steps \in Nat /\ offset \in Int /\ MaxSteps \in Nat
    BY AcceptAssumption, Zenon DEF Cookies, Types
  <2>2. PICK o, n : o = offset' /\ n = steps' BY Zenon
  <2>3. n = steps + 1 /\ (o = offset - 1 \/ o = offset + 1) /\ 0 <= offset + steps BY <1>1, <2>1, <2>2, Zenon DEF Clocks
  <2>4. 0 <= o + n BY <2>1, <2>3
  <2>5. n <= MaxSteps BY <1>1, <2>1, <2>3
  <2> QED BY <1>1, <2>1, <2>2, <2>4, <2>5, Zenon DEF Clocks
<1>3. ASSUME NEW d \in Conns, worker'[d] # Idle PROVE CookieOK(worker[d])'
  <2>1. CookieOK(worker[d]) /\ IsWorker(worker[d]) BY <1>1, <1>3, Zenon DEF Cookies, Types
  <2>2. PICK w : w = worker[d] BY Zenon
  <2>3. ASSUME Challenged(w) PROVE Challenged(w)'
    <3>1. w.challenge = mac(w.challenge.secret, w.addr, w.challenge.epoch) /\ w.steps_at_issue <= steps
      BY <2>3, Zenon DEF Challenged
    <3>2. w.steps_at_issue \in Nat /\ steps \in Nat BY <2>1, <2>2, Zenon DEF IsWorker, Types
    <3>3. w.steps_at_issue <= steps' /\ steps' # w.steps_at_issue BY <1>1, <3>1, <3>2
    <3> QED BY <3>1, <3>3, Zenon DEF Challenged
  <2> QED BY <1>1, <2>1, <2>2, <2>3, Zenon DEF CookieOK
<1> QED BY <1>2, <1>3, Zenon DEF Cookies

\* Cookies is inductive.
LEMMA CookiesStep == Types /\ Cookies /\ [Next]_vars => Cookies'
<1> SUFFICES ASSUME Types, Cookies, [Next]_vars PROVE Cookies' BY Zenon
<1>1. CASE UNCHANGED vars
  <2>1. UNCHANGED <<now, offset, steps, worker, authority>> BY <1>1, Zenon DEF vars, clockVars
  <2> QED BY <2>1, Zenon DEF Cookies, Clocks, CookieOK, Challenged, IssuedAt, EpochAt, SecretKept, Epoch
<1> QED BY <1>1, CookiesWork, CookiesListen, CookiesTick, CookiesStepWallClock, Zenon DEF Next

\* A client that echoes its challenge before its pre-authentication deadline
\* passes verify: neither the rotations by other workers between the two
\* critical sections nor the end of an epoch lose its secret, unless the wall
\* clock was stepped; for any number of workers and any epoch length that is
\* at least TCP_PREAUTH_DEADLINE.
THEOREM EchoesVerify == Spec => []EchoVerifies
<1>1. Types /\ Cookies => EchoVerifies
  <2> SUFFICES ASSUME Types, Cookies, NEW c \in Conns, worker[c] # Idle, NEW w, w = worker[c],
                      w.pc = "verify", w.response = w.challenge, now <= w.preauth_deadline,
                      steps = w.steps_at_issue
               PROVE  Valid(c)
    BY Zenon DEF EchoVerifies, Started
  <2>1. Challenged(w) /\ Clocks /\ IsWorker(w) BY Zenon DEF Cookies, CookieOK, Types
  <2>2. PICK t \in 0 .. now : IssuedAt(w, t) BY <2>1, Zenon DEF Challenged
  <2>3. PICK ch : ch = w.challenge BY Zenon
  <2>4. ch.epoch = EpochAt(t) /\ now <= t + PreauthTicks
    BY <2>1, <2>2, <2>3, AcceptAssumption DEF IssuedAt, IsWorker, Types
  <2>5. ch.epoch \in Nat /\ Epoch \in Nat /\ ch.epoch <= Epoch /\ Epoch <= ch.epoch + 1
    BY <2>1, <2>4, EpochType, Zenon
  <2>6. SecretKept(ch) BY <2>1, <2>3, <2>5, Zenon DEF Challenged
  <2>7. PICK new : new = rotate_to(authority, Epoch) BY Zenon
  <2>8. ch.secret \in {new.current_secret, new.previous_secret}
    BY <2>1, <2>5, <2>6, <2>7, RotationKeeps, Zenon
  <2>9. ch.epoch \in {Epoch, PreviousEpoch(Epoch)} BY <2>5 DEF PreviousEpoch
  <2>10. ch = mac(ch.secret, w.addr, ch.epoch) BY <2>1, <2>3, Zenon DEF Challenged
  <2>11. verify(authority, w.addr, ch, Epoch) BY <2>7, <2>8, <2>9, <2>10, Zenon DEF verify
  <2> QED BY <2>3, <2>11, Zenon DEF Valid
<1>2. Init => Types /\ Cookies BY TypesInit, CookiesInit, Zenon
<1>3. Types /\ Cookies /\ [Next]_vars => Types' /\ Cookies' BY TypesStep, CookiesStep, Zenon
<1> QED BY <1>1, <1>2, <1>3, PTL DEF Spec
=============================================================================
