----------------------------- MODULE SentinelProofs -----------------------------
(***************************************************************************)
(* For any number of Sentinels, Redis servers, epochs, calls and commands  *)
(* under way and restarts: a Sentinel votes at most once per epoch, and an *)
(* epoch has at most one Sentinel that was elected by counting the votes   *)
(* of that epoch; then what holds for the configuration a Sentinel keeps,  *)
(* announces and saves, and for the slaves it reconfigures.                *)
(***************************************************************************)
EXTENDS Sentinel, FiniteSetTheorems, TLAPS

Fields == {"current_epoch", "config_epoch", "addr", "slaves", "leader",
           "leader_epoch", "failover_state", "failover_epoch", "force",
           "promoted", "sent", "inprog", "done", "runid", "peer", "disk"}

\* A Sentinel's record is whole, its epochs are numbers, and the epoch of its
\* last vote is the one in its file.
Sound(st) ==
    /\ DOMAIN st = Fields
    /\ st.current_epoch \in Nat /\ st.config_epoch \in Nat
    /\ st.failover_epoch \in Nat /\ st.leader_epoch \in Nat
    /\ st.disk.current_epoch \in Nat /\ st.disk.config_epoch \in Nat
    /\ st.disk.leader_epoch = st.leader_epoch
    /\ st.runid \in Nat
    /\ \A t \in DOMAIN st.peer : DOMAIN st.peer[t] = {"runid", "leader", "leader_epoch"}

VoteOf(s, e, l) == [voter |-> s, epoch |-> e, leader |-> l]

\* The Sentinels: each is sound, the votes it gave are of epochs up to the last
\* it voted in, and what it holds for its own vote, or for that of another
\* Sentinel, was really given.
SentinelsInv ==
    /\ DOMAIN sn = Sentinels
    /\ \A s \in Sentinels : Sound(sn[s]) /\ DOMAIN sn[s].peer = Peers(s)
    /\ \A v \in votes : /\ v.voter \in Sentinels /\ v.epoch \in Nat
                        /\ v.epoch <= sn[v.voter].leader_epoch
    /\ \A s \in Sentinels :
          sn[s].leader # NoOne
            => VoteOf(s, sn[s].leader_epoch, sn[s].leader) \in votes
    /\ \A s \in Sentinels : \A t \in Peers(s) :
          sn[s].peer[t].leader # NoOne
            => VoteOf(t, sn[s].peer[t].leader_epoch, sn[s].peer[t].leader) \in votes
    /\ OneVotePerEpoch

\* The calls under way: a reply that names a leader reports a vote.
CallsInv ==
    \A m \in net :
        /\ m.caller \in Sentinels /\ m.callee \in Peers(m.caller)
        /\ m.type = "ask" => m.epoch \in Nat
        /\ m.type = "reply" /\ m.leader # NoOne
             => VoteOf(m.callee, m.epoch, m.leader) \in votes

\* A majority of the Sentinels.
Majority(Q) == 2 * Cardinality(Q) > Cardinality(Sentinels)

\* Who was elected while its current epoch was still the one of its failover
\* has the votes of a majority for that epoch.
ElectedInv ==
    /\ elected \subseteq [leader : Sentinels \X Nat, epoch : Nat, current : Nat]
    /\ \A e \in elected : e.current = e.epoch =>
          \E Q \in SUBSET Sentinels :
             Majority(Q) /\ \A q \in Q : VoteOf(q, e.epoch, e.leader) \in votes

\* The inductive invariant.
VoteInv == SentinelsInv /\ CallsInv /\ ElectedInv

SameVote(x, y) == x.leader = y.leader /\ x.leader_epoch = y.leader_epoch

\* What a step makes of a Sentinel: sound as before, no vote taken back, no vote
\* changed unless it is of a newer epoch, and no vote of others made up.
Follows(new, old) ==
    /\ Sound(new)
    /\ new.leader_epoch >= old.leader_epoch
    /\ new.leader # NoOne
         => new.leader_epoch > old.leader_epoch \/ SameVote(new, old)
    /\ DOMAIN new.peer = DOMAIN old.peer
    /\ \A t \in DOMAIN old.peer :
          new.peer[t].leader # NoOne => SameVote(new.peer[t], old.peer[t])

\* Following is transitive.
LEMMA FollowsTransitive ==
    ASSUME NEW x, NEW y, NEW z, Sound(x), Follows(y, x), Follows(z, y)
    PROVE  Follows(z, x)
BY DEF Follows, Sound, SameVote

\* A Sentinel that did not change follows itself.
LEMMA FollowsItself ==
    ASSUME NEW st, Sound(st)
    PROVE  Follows(st, st)
BY DEF Follows, Sound, SameVote

\* The votes a Sentinel knows of, its own and those of others, are the same.
KeepsVotes(new, old) ==
    /\ new.leader = old.leader /\ new.leader_epoch = old.leader_epoch
    /\ new.peer = old.peer

\* A sound Sentinel with the same votes follows.
LEMMA KeepingFollows ==
    ASSUME NEW new, NEW old, Sound(new), KeepsVotes(new, old)
    PROVE  Follows(new, old)
BY DEF Follows, Sound, SameVote, KeepsVotes

\* A rewrite of the file keeps a Sentinel sound, whatever changed but the vote.
LEMMA FlushSound ==
    ASSUME NEW st, DOMAIN st = Fields,
           st.current_epoch \in Nat, st.config_epoch \in Nat,
           st.failover_epoch \in Nat, st.leader_epoch \in Nat, st.runid \in Nat,
           \A t \in DOMAIN st.peer : DOMAIN st.peer[t] = {"runid", "leader", "leader_epoch"}
    PROVE  /\ Sound(sentinelFlushConfig(st))
           /\ KeepsVotes(sentinelFlushConfig(st), st)
           /\ sentinelFlushConfig(st).current_epoch = st.current_epoch
           /\ sentinelFlushConfig(st).failover_state = st.failover_state
BY DEF Sound, sentinelFlushConfig, rewriteConfigSentinelOption, Fields, KeepsVotes

\* A Sentinel stays sound when it is reset, and forgets whom it voted for.
LEMMA ResetSound ==
    ASSUME NEW st, Sound(st)
    PROVE  /\ Sound(sentinelResetMaster(st))
           /\ sentinelResetMaster(st).leader_epoch = st.leader_epoch
           /\ sentinelResetMaster(st).leader = NoOne
           /\ sentinelResetMaster(st).peer = st.peer
BY DEF Sound, sentinelResetMaster, Fields

\* A change of address keeps the epoch of the vote.
LEMMA ChangeAddressSound ==
    ASSUME NEW st, NEW addr, Sound(st)
    PROVE  LET new == sentinelResetMasterAndChangeAddress(st, addr)
           IN Follows(new, st) /\ new.leader_epoch = st.leader_epoch
<1> DEFINE new == [sentinelResetMaster(st) EXCEPT
                     !.addr = addr, !.slaves = (st.slaves \cup {st.addr}) \ {addr}]
<1>1. /\ Sound(new) /\ new.leader_epoch = st.leader_epoch
      /\ new.leader = NoOne /\ new.peer = st.peer
  BY ResetSound DEF Sound, Fields
<1>2. sentinelResetMasterAndChangeAddress(st, addr) = sentinelFlushConfig(new)
  BY DEF sentinelResetMasterAndChangeAddress
<1> HIDE DEF new
<1>3. Sound(sentinelFlushConfig(new)) /\ KeepsVotes(sentinelFlushConfig(new), new)
  BY <1>1, FlushSound DEF Sound
<1>4. QED BY <1>1, <1>2, <1>3 DEF Sound, Follows, KeepsVotes, SameVote

\* A vote is for a newer epoch than the last, and in the file.
LEMMA VoteSound ==
    ASSUME NEW st, NEW e \in Nat, NEW runid, Sound(st)
    PROVE  /\ Follows(sentinelVoteLeader(st, e, runid), st)
           /\ sentinelVoteLeader(st, e, runid).failover_state = st.failover_state
<1> DEFINE seen == IF e > st.current_epoch
                   THEN sentinelFlushConfig([st EXCEPT !.current_epoch = e])
                   ELSE st
           new == [seen EXCEPT !.leader = runid, !.leader_epoch = seen.current_epoch]
<1>1. /\ Sound(seen) /\ KeepsVotes(seen, st)
      /\ seen.failover_state = st.failover_state
      /\ seen.current_epoch = IF e > st.current_epoch THEN e ELSE st.current_epoch
  <2>1. CASE e > st.current_epoch
    <3> DEFINE up == [st EXCEPT !.current_epoch = e]
    <3>1. /\ DOMAIN up = Fields /\ up.current_epoch = e
          /\ up.config_epoch \in Nat /\ up.failover_epoch \in Nat
          /\ up.leader_epoch \in Nat /\ up.runid \in Nat /\ KeepsVotes(up, st)
          /\ up.peer = st.peer /\ up.failover_state = st.failover_state
      BY DEF Sound, Fields, KeepsVotes
    <3>2. seen = sentinelFlushConfig(up)
      BY <2>1
    <3> HIDE DEF up, seen
    <3>3. QED BY <2>1, <3>1, <3>2, FlushSound DEF KeepsVotes, Sound
  <2>2. CASE ~(e > st.current_epoch)
    BY <2>2 DEF KeepsVotes
  <2>3. QED BY <2>1, <2>2
<1>2. sentinelVoteLeader(st, e, runid) =
        IF seen.leader_epoch < e /\ seen.current_epoch <= e
        THEN sentinelFlushConfig(new) ELSE seen
  BY DEF sentinelVoteLeader
<1> HIDE DEF seen
<1>3. /\ DOMAIN new = Fields /\ new.leader_epoch = seen.current_epoch
      /\ new.current_epoch \in Nat /\ new.config_epoch \in Nat
      /\ new.failover_epoch \in Nat /\ new.leader_epoch \in Nat
      /\ new.runid \in Nat /\ new.peer = seen.peer
      /\ new.failover_state = seen.failover_state
  BY <1>1 DEF Sound, Fields
<1> HIDE DEF new
<1>4. CASE seen.leader_epoch < e /\ seen.current_epoch <= e
  <2>1. /\ Sound(sentinelFlushConfig(new)) /\ KeepsVotes(sentinelFlushConfig(new), new)
        /\ sentinelFlushConfig(new).failover_state = new.failover_state
    BY <1>1, <1>3, FlushSound DEF Sound
  <2>2. new.leader_epoch > st.leader_epoch /\ new.peer = st.peer
    BY <1>1, <1>3, <1>4 DEF KeepsVotes, Sound
  <2>3. QED BY <1>1, <1>2, <1>3, <1>4, <2>1, <2>2
            DEF Follows, KeepsVotes, SameVote, Sound
<1>5. CASE ~(seen.leader_epoch < e /\ seen.current_epoch <= e)
  BY <1>1, <1>2, <1>5, KeepingFollows
<1>6. QED BY <1>4, <1>5

\* Changes of the fields that hold no epoch keep a Sentinel sound.
LEMMA AbortSound ==
    ASSUME NEW st, Sound(st)
    PROVE  Follows(sentinelAbortFailover(st), st)
<1>1. Sound(sentinelAbortFailover(st)) /\ KeepsVotes(sentinelAbortFailover(st), st)
  BY DEF Sound, sentinelAbortFailover, Fields, KeepsVotes
<1>2. QED BY <1>1, KeepingFollows

\* A failover that starts gives no vote by itself.
LEMMA StartSound ==
    ASSUME NEW st, Sound(st)
    PROVE  Follows(sentinelStartFailover(st), st)
<1>1. Sound(sentinelStartFailover(st)) /\ KeepsVotes(sentinelStartFailover(st), st)
  BY DEF Sound, sentinelStartFailover, Fields, KeepsVotes
<1>2. QED BY <1>1, KeepingFollows

\* Counting the votes gives at most the Sentinel's own vote for the epoch of
\* its failover.
LEMMA GetLeaderSound ==
    ASSUME NEW s, NEW st, Sound(st), NEW e \in Nat,
           NEW o \in sentinelGetLeader(s, st, e)
    PROVE  Follows(o.st, st) /\ o.st.failover_state = st.failover_state
<1>1. \E c : o.st = sentinelVoteLeader(st, e, c)
  BY DEF sentinelGetLeader, CountOwnVote
<1>2. QED BY <1>1, VoteSound

\* The Sentinel that sentinelGetLeader returns has a majority of the votes of the
\* current epoch: those reported by other Sentinels, and this one's own.
LEMMA LeaderHasMajority ==
    ASSUME NEW s \in Sentinels, NEW st, Sound(st), DOMAIN st.peer = Peers(s),
           NEW o \in sentinelGetLeader(s, st, st.current_epoch), o.winner # NoOne
    PROVE  \E Q \in SUBSET Sentinels :
             /\ Majority(Q)
             /\ \A q \in Q : IF q = s
                  THEN o.st.leader = o.winner /\ o.st.leader_epoch = st.current_epoch
                  ELSE /\ st.peer[q].leader = o.winner
                       /\ st.peer[q].leader_epoch = st.current_epoch
<1> DEFINE e == st.current_epoch
           n == Cardinality(Sentinels)
           For(x) == {t \in Peers(s) : st.peer[t].leader = x /\ st.peer[t].leader_epoch = e}
<1>1. /\ IsFiniteSet(Sentinels) /\ n \in Nat
      /\ Cardinality(Peers(s)) + 1 = n /\ IsFiniteSet(Peers(s))
  <2>1. IsFiniteSet(Sentinels)
    BY ConstantsAssumption
  <2>2. n \in Nat
    BY <2>1, FS_CardinalityType
  <2>3. IsFiniteSet(Peers(s)) /\ Cardinality(Peers(s)) = n - 1
    BY <2>1, FS_RemoveElement DEF Peers
  <2>4. QED BY <2>1, <2>2, <2>3
<1>2. ASSUME NEW x
      PROVE  /\ VotesFor(st, x) = Cardinality(For(x)) /\ IsFiniteSet(For(x))
             /\ Cardinality(For(x)) \in Nat /\ s \notin For(x)
             /\ For(x) \in SUBSET Sentinels
  <2>1. For(x) \in SUBSET Peers(s)
    OBVIOUS
  <2>2. QED BY <1>1, <2>1, FS_Subset, FS_CardinalityType DEF VotesFor, Peers
<1>3. PICK c : o = CountOwnVote(s, st, e, c)
  BY DEF sentinelGetLeader
<1> DEFINE after == sentinelVoteLeader(st, e, IF c = NoOne THEN <<s, st.runid>> ELSE c)
           max == IF c = NoOne THEN 0 ELSE VotesFor(st, c)
           counts == after.leader # NoOne /\ after.leader_epoch = e
           mine == IF counts THEN VotesFor(st, after.leader) + 1 ELSE 0
           winner == IF mine > max THEN after.leader ELSE c
           won == IF mine > max THEN mine ELSE max
<1> HIDE DEF after, For
<1>4. /\ o.st = after
      /\ o.winner = IF won < VotersQuorum(n) \/ won < Quorum THEN NoOne ELSE winner
  <2> HIDE DEF winner, won
  <2>1. o = [st |-> after,
             winner |-> IF \/ won < VotersQuorum(Cardinality(DOMAIN st.peer) + 1)
                           \/ won < Quorum
                        THEN NoOne ELSE winner]
    BY <1>3 DEF CountOwnVote, after, winner, won
  <2>2. QED BY <1>1, <2>1
<1>5. max \in Nat /\ mine \in Nat
  BY <1>2
<1>6. ~(won < VotersQuorum(n)) /\ o.winner = winner
  BY <1>4
<1>7. 2 * won > n
  BY <1>1, <1>5, <1>6 DEF VotersQuorum
<1>8. CASE mine > max
  <2> DEFINE Q == For(after.leader) \cup {s}
  <2>1. counts /\ winner = after.leader /\ won = Cardinality(For(after.leader)) + 1
    BY <1>2, <1>5, <1>8
  <2>2. Cardinality(Q) = won
    BY <1>2, <2>1, FS_AddElement
  <2>3. Majority(Q) /\ Q \in SUBSET Sentinels
    BY <1>2, <1>7, <2>2 DEF Majority
  <2>4. QED BY <1>4, <1>6, <2>1, <2>3 DEF For
<1>9. CASE ~(mine > max)
  <2>1. winner = c /\ won = Cardinality(For(c))
    BY <1>2, <1>6, <1>9
  <2>2. Majority(For(c)) /\ For(c) \in SUBSET Sentinels /\ s \notin For(c)
    BY <1>2, <1>7, <2>1 DEF Majority
  <2>3. QED BY <1>6, <2>1, <2>2 DEF For
<1>10. QED BY <1>8, <1>9

\* Every result of the state machine is a record with the Sentinel in it.
LEMMA ResultFields ==
    ASSUME NEW st, NEW x
    PROVE  /\ Result(st).st = st /\ ~Result(st).won
           /\ [Result(st) EXCEPT !.won = x].st = st
           /\ [Result(st) EXCEPT !.won = x].won = x
           /\ [Result(st) EXCEPT !.send = x].st = st
           /\ ~[Result(st) EXCEPT !.send = x].won
BY DEF Result

\* Waiting for the election.
LEMMA WaitStartSound ==
    ASSUME NEW s, NEW st, Sound(st), NEW r \in sentinelFailoverWaitStart(s, st)
    PROVE  Follows(r.st, st)
<1>0. PICK o \in sentinelGetLeader(s, st, st.failover_epoch) :
          \/ r = [Result([o.st EXCEPT !.failover_state = "SELECT_SLAVE"])
                     EXCEPT !.won = (o.winner = <<s, st.runid>>)]
          \/ r = Result(o.st)
          \/ r = Result(sentinelAbortFailover(o.st))
  BY Zenon DEF sentinelFailoverWaitStart
<1>2. Follows(o.st, st)
  BY GetLeaderSound DEF Sound
<1>3. CASE r = [Result([o.st EXCEPT !.failover_state = "SELECT_SLAVE"])
                  EXCEPT !.won = (o.winner = <<s, st.runid>>)]
  <2>1. r.st = [o.st EXCEPT !.failover_state = "SELECT_SLAVE"]
    BY <1>3, ResultFields
  <2>2. Sound(r.st) /\ KeepsVotes(r.st, o.st)
    BY <1>2, <2>1 DEF Follows, Sound, Fields, KeepsVotes
  <2>3. QED BY <1>2, <2>2, KeepingFollows, FollowsTransitive
<1>4. CASE r = Result(o.st)
  BY <1>2, <1>4, ResultFields
<1>5. CASE r = Result(sentinelAbortFailover(o.st))
  <2>1. r.st = sentinelAbortFailover(o.st)
    BY <1>5, ResultFields
  <2>2. QED BY <1>2, <2>1, AbortSound, FollowsTransitive DEF Follows
<1>6. QED BY <1>0, <1>3, <1>4, <1>5

\* The states between the election and the promotion.
LEMMA PromotionStatesSound ==
    ASSUME NEW st, Sound(st),
           NEW r \in sentinelFailoverSelectSlave(st)
                       \cup sentinelFailoverSendSlaveOfNoOne(st)
                       \cup sentinelFailoverWaitPromotion(st)
    PROVE  Follows(r.st, st) /\ ~r.won
<1>0. \/ r = Result(st)
      \/ r = Result(sentinelAbortFailover(st))
      \/ \E a : r = Result([st EXCEPT !.promoted = a,
                                     !.failover_state = "SEND_SLAVEOF_NOONE"])
      \/ r = [Result([st EXCEPT !.failover_state = "WAIT_PROMOTION"])
                 EXCEPT !.send = {SlaveOf(st.promoted, NoOne)}]
  BY Zenon DEF sentinelFailoverSelectSlave, sentinelFailoverSendSlaveOfNoOne,
         sentinelFailoverWaitPromotion
<1>1. CASE r = Result(st)
  BY <1>1, ResultFields, FollowsItself
<1>2. CASE r = Result(sentinelAbortFailover(st))
  BY <1>2, ResultFields, AbortSound
<1>3. ASSUME NEW a,
             r = Result([st EXCEPT !.promoted = a,
                                   !.failover_state = "SEND_SLAVEOF_NOONE"])
      PROVE  Follows(r.st, st) /\ ~r.won
  <2>1. r.st = [st EXCEPT !.promoted = a, !.failover_state = "SEND_SLAVEOF_NOONE"]
    BY <1>3, ResultFields
  <2>2. Sound(r.st) /\ KeepsVotes(r.st, st)
    BY <2>1 DEF Sound, Fields, KeepsVotes
  <2>3. QED BY <1>3, <2>2, KeepingFollows, ResultFields
<1>4. CASE r = [Result([st EXCEPT !.failover_state = "WAIT_PROMOTION"])
                  EXCEPT !.send = {SlaveOf(st.promoted, NoOne)}]
  <2>1. r.st = [st EXCEPT !.failover_state = "WAIT_PROMOTION"]
    BY <1>4, ResultFields
  <2>2. Sound(r.st) /\ KeepsVotes(r.st, st)
    BY <2>1 DEF Sound, Fields, KeepsVotes
  <2>3. QED BY <1>4, <2>2, KeepingFollows, ResultFields
<1>5. QED BY <1>0, <1>1, <1>2, <1>3, <1>4

\* Setting flags of slaves, or the state of the failover, keeps the vote.
LEMMA FlagsSound ==
    ASSUME NEW st, Sound(st), NEW x, NEW y
    PROVE  /\ Follows([st EXCEPT !.sent = x, !.done = y], st)
           /\ Follows([st EXCEPT !.failover_state = x, !.sent = y], st)
<1>1. /\ Sound([st EXCEPT !.sent = x, !.done = y])
      /\ KeepsVotes([st EXCEPT !.sent = x, !.done = y], st)
  BY DEF Sound, Fields, KeepsVotes
<1>2. /\ Sound([st EXCEPT !.failover_state = x, !.sent = y])
      /\ KeepsVotes([st EXCEPT !.failover_state = x, !.sent = y], st)
  BY DEF Sound, Fields, KeepsVotes
<1>3. QED BY <1>1, <1>2, KeepingFollows

\* The loop over the slaves.
LEMMA LoopSound ==
    ASSUME NEW st, Sound(st), NEW v, NEW late, NEW away
    PROVE  /\ Follows(ReconfLoop(st, v, late, away).st, st)
           /\ DOMAIN ReconfLoop(st, v, late, away) = {"st", "send", "won"}
           /\ ~ReconfLoop(st, v, late, away).won
<1> DEFINE expired == v \cap late \cap st.sent
           send == v \ (away \cup st.inprog \cup (st.sent \ expired))
           sent == (st.sent \ expired) \cup send
           done == st.done \cup expired
           of == {SlaveOf(a, st.promoted) : a \in send}
<1>1. ReconfLoop(st, v, late, away) =
        [Result([st EXCEPT !.sent = sent, !.done = done]) EXCEPT !.send = of]
  BY DEF ReconfLoop
<1> HIDE DEF sent, done, of
<1>2. ReconfLoop(st, v, late, away).st = [st EXCEPT !.sent = sent, !.done = done]
  BY <1>1 DEF Result
<1>3. /\ DOMAIN ReconfLoop(st, v, late, away) = {"st", "send", "won"}
      /\ ~ReconfLoop(st, v, late, away).won
  BY <1>1 DEF Result
<1>4. Follows([st EXCEPT !.sent = sent, !.done = done], st)
  BY FlagsSound
<1>5. QED BY <1>2, <1>3, <1>4

\* The end of the failover.
LEMMA DetectEndSound ==
    ASSUME NEW p, NEW away, NEW down, NEW over, Sound(p.st),
           DOMAIN p = {"st", "send", "won"}
    PROVE  /\ Follows(sentinelFailoverDetectEnd(p, away, down, over).st, p.st)
           /\ sentinelFailoverDetectEnd(p, away, down, over).won = p.won
<1> DEFINE st == p.st
           left == st.slaves \ ({st.promoted} \cup st.done \cup down)
           best == IF over THEN LeftAtTimeout(st, away) ELSE {}
           f == IF left = {} \/ over THEN "UPDATE_CONFIG" ELSE st.failover_state
           sent == st.sent \cup best
           send == p.send \cup {SlaveOf(a, st.promoted) : a \in best}
           new == [st EXCEPT !.failover_state = f, !.sent = sent]
<1>1. sentinelFailoverDetectEnd(p, away, down, over) =
        IF st.promoted = NoOne \/ st.promoted \in down
        THEN p ELSE [p EXCEPT !.st = new, !.send = send]
  BY DEF sentinelFailoverDetectEnd
<1>2. Follows(new, p.st) /\ Follows(p.st, p.st)
  <2> HIDE DEF f, sent
  <2>1. QED BY FlagsSound, FollowsItself
<1> HIDE DEF new, send
<1>3. /\ [p EXCEPT !.st = new, !.send = send].st = new
      /\ [p EXCEPT !.st = new, !.send = send].won = p.won
  OBVIOUS
<1>4. QED BY <1>1, <1>2, <1>3

\* Reconfiguring the slaves changes their flags and the state only.
LEMMA ReconfSound ==
    ASSUME NEW st, Sound(st), NEW r \in sentinelFailoverReconfNextSlave(st)
    PROVE  Follows(r.st, st) /\ ~r.won
<1>1. PICK p, away, down, over :
        /\ r = sentinelFailoverDetectEnd(p, away, down, over)
        /\ \/ p = Result(st)
           \/ \E v, late : p = ReconfLoop(st, v, late, away)
  BY DEF sentinelFailoverReconfNextSlave
<1>2. /\ Follows(Result(st).st, st) /\ DOMAIN Result(st) = {"st", "send", "won"}
      /\ ~Result(st).won
  BY FollowsItself DEF Result
<1>3. Follows(p.st, st) /\ DOMAIN p = {"st", "send", "won"} /\ ~p.won
  BY <1>1, <1>2, LoopSound
<1>4. Follows(r.st, p.st) /\ r.won = p.won
  BY <1>1, <1>3, DetectEndSound DEF Follows
<1>5. QED BY <1>3, <1>4, FollowsTransitive

\* The state machine as a whole.
LEMMA StateMachineSound ==
    ASSUME NEW s, NEW st, Sound(st),
           NEW r \in sentinelFailoverStateMachine(s, st)
    PROVE  Follows(r.st, st)
<1>1. \/ r = Result(st)
      \/ r \in sentinelFailoverWaitStart(s, st)
      \/ r \in sentinelFailoverSelectSlave(st)
      \/ r \in sentinelFailoverSendSlaveOfNoOne(st)
      \/ r \in sentinelFailoverWaitPromotion(st)
      \/ r \in sentinelFailoverReconfNextSlave(st)
  BY DEF sentinelFailoverStateMachine
<1>2. Follows(Result(st).st, st)
  BY FollowsItself DEF Result
<1>3. QED
  BY <1>1, <1>2, WaitStartSound, PromotionStatesSound, ReconfSound

\* An election is won in state WAIT_START only, by a Sentinel with a majority of
\* the votes if its current epoch is still the one of its failover.
LEMMA WonByMajority ==
    ASSUME NEW s \in Sentinels, NEW st, Sound(st), DOMAIN st.peer = Peers(s),
           NEW r \in sentinelFailoverStateMachine(s, st), r.won
    PROVE  /\ r.st.failover_state = "SELECT_SLAVE"
           /\ st.current_epoch = st.failover_epoch =>
                \E Q \in SUBSET Sentinels :
                  /\ Majority(Q)
                  /\ \A q \in Q : IF q = s
                       THEN /\ r.st.leader = <<s, st.runid>>
                            /\ r.st.leader_epoch = st.failover_epoch
                       ELSE /\ st.peer[q].leader = <<s, st.runid>>
                            /\ st.peer[q].leader_epoch = st.failover_epoch
<1>1. \/ r = Result(st)
      \/ r \in sentinelFailoverWaitStart(s, st)
      \/ r \in sentinelFailoverSelectSlave(st)
      \/ r \in sentinelFailoverSendSlaveOfNoOne(st)
      \/ r \in sentinelFailoverWaitPromotion(st)
      \/ r \in sentinelFailoverReconfNextSlave(st)
  BY DEF sentinelFailoverStateMachine
<1>2. r \in sentinelFailoverWaitStart(s, st)
  BY <1>1, ResultFields, PromotionStatesSound, ReconfSound
<1>3. PICK o \in sentinelGetLeader(s, st, st.failover_epoch) :
          \/ r = [Result([o.st EXCEPT !.failover_state = "SELECT_SLAVE"])
                     EXCEPT !.won = (o.winner = <<s, st.runid>>)]
          \/ r = Result(o.st)
          \/ r = Result(sentinelAbortFailover(o.st))
  BY <1>2, Zenon DEF sentinelFailoverWaitStart
<1>4. r = [Result([o.st EXCEPT !.failover_state = "SELECT_SLAVE"])
             EXCEPT !.won = (o.winner = <<s, st.runid>>)]
  BY <1>3, ResultFields
<1>5. /\ r.st = [o.st EXCEPT !.failover_state = "SELECT_SLAVE"]
      /\ o.winner = <<s, st.runid>>
  BY <1>4, ResultFields
<1>6. Follows(o.st, st)
  BY GetLeaderSound DEF Sound
<1>7. /\ r.st.failover_state = "SELECT_SLAVE" /\ r.st.leader = o.st.leader
      /\ r.st.leader_epoch = o.st.leader_epoch
  BY <1>5, <1>6 DEF Follows, Sound, Fields
<1>8. o.winner # NoOne
  BY <1>5, ConstantsAssumption DEF Sound
<1>9. ASSUME st.current_epoch = st.failover_epoch
      PROVE  \E Q \in SUBSET Sentinels :
               /\ Majority(Q)
               /\ \A q \in Q : IF q = s
                    THEN o.st.leader = o.winner /\ o.st.leader_epoch = st.current_epoch
                    ELSE /\ st.peer[q].leader = o.winner
                         /\ st.peer[q].leader_epoch = st.current_epoch
  <2>1. o \in sentinelGetLeader(s, st, st.current_epoch)
    BY <1>9
  <2>2. QED BY <1>8, <2>1, LeaderHasMajority
<1>10. QED BY <1>5, <1>7, <1>9

\* The end of a timer: forgotten replies and the change to the promoted slave.
LEMMA TimerEndSound ==
    ASSUME NEW st, Sound(st), NEW old
    PROVE  LET new == sentinelFailoverSwitchToPromotedSlave(ForgetReplies(st, old))
           IN /\ Follows(new, st)
              /\ st.failover_state = "SELECT_SLAVE" => SameVote(new, st)
<1> DEFINE new == ForgetReplies(st, old)
<1>1. /\ Sound(new) /\ SameVote(new, st) /\ new.failover_state = st.failover_state
      /\ new.peer = [t \in DOMAIN st.peer |->
           IF t \in old THEN [st.peer[t] EXCEPT !.leader = NoOne] ELSE st.peer[t]]
  BY DEF Sound, ForgetReplies, Fields, SameVote
<1> HIDE DEF new
<1>2. \A t \in DOMAIN st.peer : new.peer[t].leader # NoOne => new.peer[t] = st.peer[t]
  BY <1>1 DEF Sound
<1>3. Follows(new, st)
  BY <1>1, <1>2 DEF Follows, Sound, SameVote
<1>4. Follows(sentinelFailoverSwitchToPromotedSlave(new), new)
  BY <1>1, ChangeAddressSound, FollowsItself DEF sentinelFailoverSwitchToPromotedSlave
<1>5. st.failover_state = "SELECT_SLAVE" => sentinelFailoverSwitchToPromotedSlave(new) = new
  BY <1>1 DEF sentinelFailoverSwitchToPromotedSlave
<1>6. QED BY <1>1, <1>3, <1>4, <1>5, FollowsTransitive DEF new

\* What is read from the file and what is forgotten.
LEMMA ConfigurationFields ==
    ASSUME NEW disk, NEW runid, NEW peer
    PROVE  LET new == sentinelHandleConfiguration(disk, runid, peer)
           IN /\ DOMAIN new = Fields /\ new.disk = disk /\ new.runid = runid
              /\ new.current_epoch \in {disk.current_epoch, disk.config_epoch}
              /\ new.config_epoch = disk.config_epoch
              /\ new.leader_epoch = disk.leader_epoch /\ new.leader = NoOne
              /\ new.failover_epoch = 0
              /\ new.peer = [t \in DOMAIN peer |-> NoVote(peer[t].runid)]
BY DEF sentinelHandleConfiguration, Fields

\* Reading the file gives back the epoch of the last vote, and nothing of whom
\* it was for.
LEMMA RestartSound ==
    ASSUME NEW st, Sound(st), NEW runid \in Nat
    PROVE  LET new == sentinelHandleConfiguration(st.disk, runid, st.peer)
           IN Follows(new, st) /\ new.leader_epoch = st.leader_epoch
<1> DEFINE new == sentinelHandleConfiguration(st.disk, runid, st.peer)
<1> DEFINE peer == [t \in DOMAIN st.peer |-> NoVote(st.peer[t].runid)]
<1>1. \A t \in DOMAIN st.peer : /\ peer[t].leader = NoOne
                                /\ DOMAIN peer[t] = {"runid", "leader", "leader_epoch"}
  BY DEF NoVote
<1>2. /\ DOMAIN new = Fields
      /\ new.current_epoch \in Nat /\ new.config_epoch \in Nat
      /\ new.failover_epoch \in Nat /\ new.leader_epoch = st.disk.leader_epoch
      /\ new.disk = st.disk /\ new.runid \in Nat /\ new.leader = NoOne
      /\ new.peer = peer
  BY ConfigurationFields DEF Sound
<1>3. DOMAIN peer = DOMAIN st.peer
  OBVIOUS
<1> HIDE DEF new, peer
<1>4. Follows(new, st) /\ new.leader_epoch = st.leader_epoch
  BY <1>1, <1>2, <1>3 DEF Follows, Sound
<1>5. QED BY <1>4 DEF new

\* A step that changes one Sentinel into one that follows keeps what holds of the
\* Sentinels, when it records the vote or gives none.
LEMMA OneSentinelStep ==
    ASSUME SentinelsInv, NEW s \in Sentinels, NEW new, Follows(new, sn[s]),
           sn' = [sn EXCEPT ![s] = new],
           Vote(s) \/ (votes' = votes /\ new.leader_epoch = sn[s].leader_epoch)
    PROVE  SentinelsInv' /\ votes \subseteq votes'
<1>1. /\ DOMAIN sn' = Sentinels /\ sn'[s] = new
      /\ \A t \in Sentinels : t # s => sn'[t] = sn[t]
  BY DEF SentinelsInv
<1>2. \A t \in Sentinels : /\ Sound(sn'[t]) /\ DOMAIN sn'[t].peer = Peers(t)
                           /\ sn'[t].leader_epoch >= sn[t].leader_epoch
  BY <1>1 DEF SentinelsInv, Follows, Sound
<1>3. \A v \in votes : /\ v.voter \in Sentinels /\ v.epoch \in Nat
                       /\ v.epoch <= sn'[v.voter].leader_epoch
  BY <1>2 DEF SentinelsInv, Sound
<1> DEFINE v0 == VoteOf(s, new.leader_epoch, new.leader)
<1>4. \/ votes' = votes /\ new.leader_epoch = sn[s].leader_epoch
      \/ votes' = votes \cup {v0} /\ new.leader_epoch > sn[s].leader_epoch
  <2>1. new.leader_epoch \in Nat /\ sn[s].leader_epoch \in Nat
    BY <1>1, <1>2 DEF SentinelsInv, Sound
  <2>2. new.leader_epoch >= sn[s].leader_epoch
    BY DEF Follows
  <2>3. CASE Vote(s)
    BY <1>1, <2>1, <2>2, <2>3 DEF Vote, VoteOf
  <2>4. QED BY <2>3
<1>5. v0.voter = s /\ v0.epoch = new.leader_epoch
  BY DEF VoteOf
<1>6. \A t \in Sentinels : sn'[t].leader # NoOne
          => VoteOf(t, sn'[t].leader_epoch, sn'[t].leader) \in votes'
  <2>1. ASSUME new.leader # NoOne
        PROVE  VoteOf(s, new.leader_epoch, new.leader) \in votes'
    BY <1>4, <2>1 DEF SentinelsInv, Follows, SameVote, Sound
  <2>2. QED BY <1>1, <1>4, <2>1 DEF SentinelsInv
<1> HIDE DEF v0
<1>7. \A t \in Sentinels : \A u \in Peers(t) : sn'[t].peer[u].leader # NoOne
          => VoteOf(u, sn'[t].peer[u].leader_epoch, sn'[t].peer[u].leader) \in votes'
  <2>1. ASSUME NEW u \in Peers(s), new.peer[u].leader # NoOne
        PROVE  VoteOf(u, new.peer[u].leader_epoch, new.peer[u].leader) \in votes
    BY <2>1 DEF SentinelsInv, Follows, SameVote
  <2>2. QED BY <1>1, <1>4, <2>1 DEF SentinelsInv
<1>8. CASE votes' = votes
  <2>1. OneVotePerEpoch'
    BY <1>8 DEF SentinelsInv, OneVotePerEpoch
  <2>2. QED BY <1>1, <1>2, <1>3, <1>6, <1>7, <1>8, <2>1 DEF SentinelsInv
<1>9. CASE votes' = votes \cup {v0} /\ new.leader_epoch > sn[s].leader_epoch
  <2>1. \A v \in votes : v.voter = s => v.epoch < v0.epoch
    BY <1>1, <1>2, <1>5, <1>9 DEF SentinelsInv, Sound
  <2>2. OneVotePerEpoch'
    BY <1>5, <1>9, <2>1, <1>3 DEF SentinelsInv, OneVotePerEpoch
  <2>3. \A v \in votes' : /\ v.voter \in Sentinels /\ v.epoch \in Nat
                          /\ v.epoch <= sn'[v.voter].leader_epoch
    BY <1>1, <1>2, <1>3, <1>5, <1>9 DEF Sound
  <2>4. QED BY <1>1, <1>2, <1>6, <1>7, <1>9, <2>2, <2>3 DEF SentinelsInv
<1>10. QED BY <1>4, <1>8, <1>9

\* Votes that were given stay given: elections won, and the replies under way,
\* keep the votes they rest on.
LEMMA HistoryKept ==
    ASSUME VoteInv, SentinelsInv', votes \subseteq votes',
           net' \subseteq net, elected' = elected
    PROVE  VoteInv'
<1>1. CallsInv'
  BY DEF VoteInv, CallsInv
<1>2. ElectedInv'
  BY DEF VoteInv, ElectedInv
<1>3. QED BY <1>1, <1>2 DEF VoteInv

\* HELLO messages: what is learnt from them is sound.
LEMMA HelloStep ==
    ASSUME VoteInv, NEW s \in Sentinels, NEW t \in Sentinels,
           sentinelProcessHelloMessage(s, t)
    PROVE  VoteInv'
<1> DEFINE h == sn[t]
           addr == sentinelGetCurrentMasterAddress(h)
           peer == [sn[s].peer EXCEPT ![t] = NoVote(h.runid)]
           renewed == [sn[s] EXCEPT !.peer = peer]
           known == IF sn[s].peer[t].runid # h.runid
                    THEN sentinelFlushConfig(renewed) ELSE sn[s]
           raised == [known EXCEPT !.current_epoch = h.current_epoch]
           seen == IF h.current_epoch > known.current_epoch
                   THEN sentinelFlushConfig(raised) ELSE known
           newer == [seen EXCEPT !.config_epoch = h.config_epoch]
           conf == IF seen.config_epoch < h.config_epoch THEN newer ELSE seen
           new == IF seen.config_epoch < h.config_epoch /\ addr # seen.addr
                  THEN sentinelResetMasterAndChangeAddress(conf, addr) ELSE conf
<1>1. /\ sn' = [sn EXCEPT ![s] = new] /\ votes' = votes /\ net' \subseteq net
      /\ elected' = elected
  BY DEF sentinelProcessHelloMessage
<1>2. Sound(h) /\ Sound(sn[s]) /\ DOMAIN sn[s].peer = Peers(s) /\ SentinelsInv
  BY DEF VoteInv, SentinelsInv
<1>3. /\ DOMAIN peer = DOMAIN sn[s].peer
      /\ \A u \in DOMAIN peer : peer[u] = sn[s].peer[u] \/ peer[u] = NoVote(h.runid)
  OBVIOUS
<1>4. ASSUME NEW x
      PROVE  /\ NoVote(x).leader = NoOne
             /\ DOMAIN NoVote(x) = {"runid", "leader", "leader_epoch"}
  BY DEF NoVote
<1> HIDE DEF peer
<1>5. /\ Sound(renewed) /\ SameVote(renewed, sn[s]) /\ renewed.peer = peer
  BY <1>2, <1>3, <1>4 DEF Sound, Fields, SameVote
<1> HIDE DEF renewed
<1>6. Follows(renewed, sn[s])
  BY <1>3, <1>4, <1>5 DEF Follows, Sound, SameVote
<1> HIDE DEF h
<1>7. Follows(known, sn[s]) /\ known.leader_epoch = sn[s].leader_epoch
  <2>1. /\ Sound(sentinelFlushConfig(renewed))
        /\ KeepsVotes(sentinelFlushConfig(renewed), renewed)
    BY <1>5, FlushSound DEF Sound
  <2>2. Follows(sentinelFlushConfig(renewed), sn[s])
    BY <1>2, <1>6, <2>1, KeepingFollows, FollowsTransitive
  <2>3. QED BY <1>2, <1>5, <2>1, <2>2, FollowsItself DEF KeepsVotes, SameVote
<1> HIDE DEF known
<1>8. Sound(raised) /\ KeepsVotes(raised, known)
  BY <1>2, <1>7 DEF Sound, Follows, Fields, KeepsVotes
<1> HIDE DEF raised
<1>9. Sound(seen) /\ KeepsVotes(seen, known)
  <2>1. /\ Sound(sentinelFlushConfig(raised))
        /\ KeepsVotes(sentinelFlushConfig(raised), raised)
    BY <1>8, FlushSound DEF Sound
  <2>2. QED BY <1>7, <1>8, <2>1 DEF Follows, KeepsVotes
<1> HIDE DEF seen
<1>10. Sound(newer) /\ KeepsVotes(newer, seen)
  BY <1>2, <1>9 DEF Sound, Fields, KeepsVotes
<1> HIDE DEF newer
<1>11. Sound(conf) /\ KeepsVotes(conf, seen)
  BY <1>9, <1>10 DEF KeepsVotes
<1> HIDE DEF conf
<1>12. Follows(new, conf) /\ new.leader_epoch = conf.leader_epoch
  BY <1>11, ChangeAddressSound, FollowsItself
<1> HIDE DEF new
<1>13. Follows(new, sn[s]) /\ new.leader_epoch = sn[s].leader_epoch
  <2>1. Follows(conf, known) /\ conf.leader_epoch = known.leader_epoch
    BY <1>9, <1>11, KeepingFollows DEF KeepsVotes
  <2>2. QED BY <1>2, <1>7, <1>12, <2>1, FollowsTransitive DEF Follows
<1>14. QED BY <1>1, <1>2, <1>13, OneSentinelStep, HistoryKept

\* The timer: its votes are those of the state machine, and so are its elections.
LEMMA TimerStep ==
    ASSUME VoteInv, NEW s \in Sentinels, sentinelHandleRedisInstance(s)
    PROVE  VoteInv'
<1>1. PICK start \in BOOLEAN, asked \in SUBSET Peers(s), old \in SUBSET Peers(s) :
        LET st == IF start THEN sentinelStartFailover(sn[s]) ELSE sn[s]
        IN /\ \E r \in sentinelFailoverStateMachine(s, st) :
                /\ sentinelAskMasterStateToOtherSentinels(s,
                       IF start THEN st ELSE r.st, asked)
                /\ sn' = [sn EXCEPT ![s] = sentinelFailoverSwitchToPromotedSlave(
                                               ForgetReplies(r.st, old))]
                /\ elected' = elected \cup
                     (IF r.won THEN {[leader |-> Me(s), epoch |-> st.failover_epoch,
                                      current |-> st.current_epoch]}
                      ELSE {})
           /\ Vote(s)
  BY DEF sentinelHandleRedisInstance
<1> DEFINE st == IF start THEN sentinelStartFailover(sn[s]) ELSE sn[s]
<1>2. Sound(sn[s]) /\ DOMAIN sn[s].peer = Peers(s) /\ SentinelsInv
  BY DEF VoteInv, SentinelsInv
<1>3. Follows(st, sn[s]) /\ st.runid = sn[s].runid
  <2>1. sentinelStartFailover(sn[s]).runid = sn[s].runid
    BY <1>2 DEF sentinelStartFailover, Sound, Fields
  <2>2. QED BY <1>2, <2>1, StartSound, FollowsItself
<1>4. PICK r \in sentinelFailoverStateMachine(s, st) :
        /\ sentinelAskMasterStateToOtherSentinels(s, IF start THEN st ELSE r.st, asked)
        /\ sn' = [sn EXCEPT ![s] = sentinelFailoverSwitchToPromotedSlave(
                                      ForgetReplies(r.st, old))]
        /\ elected' = elected \cup
             (IF r.won THEN {[leader |-> Me(s), epoch |-> st.failover_epoch,
                              current |-> st.current_epoch]}
              ELSE {})
  BY <1>1
<1> HIDE DEF st
<1>5. Follows(r.st, st)
  BY <1>3, StateMachineSound DEF Follows
<1> DEFINE new == sentinelFailoverSwitchToPromotedSlave(ForgetReplies(r.st, old))
           asker == IF start THEN st ELSE r.st
<1>6. /\ Follows(new, sn[s])
      /\ r.st.failover_state = "SELECT_SLAVE" => SameVote(new, r.st)
  <2>1. Sound(st) /\ Sound(r.st)
    BY <1>3, <1>5 DEF Follows
  <2>2. /\ Follows(new, r.st)
        /\ r.st.failover_state = "SELECT_SLAVE" => SameVote(new, r.st)
    BY <2>1, TimerEndSound
  <2> HIDE DEF new
  <2>3. QED BY <1>2, <1>3, <1>5, <2>1, <2>2, FollowsTransitive
<1>7. sn' = [sn EXCEPT ![s] = new]
  BY <1>4
<1>8. asker.current_epoch \in Nat
  BY <1>3, <1>5 DEF Follows, Sound
<1>9. net' = net \cup {[type |-> "ask", caller |-> s, callee |-> t,
                        addr |-> asker.addr, epoch |-> asker.current_epoch,
                        leader |-> <<s, asker.runid>>] : t \in asked}
  BY <1>4 DEF sentinelAskMasterStateToOtherSentinels
<1> HIDE DEF new, asker
<1>10. SentinelsInv' /\ votes \subseteq votes'
  BY <1>1, <1>2, <1>6, <1>7, OneSentinelStep
<1>11. CallsInv'
  <2>1. ASSUME NEW m \in net'
        PROVE  \/ m \in net
               \/ /\ m.type = "ask" /\ m.caller = s /\ m.callee \in asked
                  /\ m.epoch = asker.current_epoch
    BY <1>9
  <2>2. asked \subseteq Peers(s)
    OBVIOUS
  <2>3. QED BY <1>8, <1>10, <2>1, <2>2 DEF VoteInv, CallsInv
<1>12. ElectedInv'
  <2> DEFINE e == [leader |-> Me(s), epoch |-> st.failover_epoch,
                   current |-> st.current_epoch]
  <2>1. \/ elected' = elected
        \/ r.won /\ elected' = elected \cup {e}
    BY <1>4
  <2>2. CASE elected' = elected
    BY <1>10, <2>2 DEF VoteInv, ElectedInv
  <2>3. CASE r.won /\ elected' = elected \cup {e}
    <3>1. Me(s) = <<s, st.runid>> /\ st.runid \in Nat /\ Me(s) # NoOne
      BY <1>2, <1>3, ConstantsAssumption DEF Me, Sound
    <3>2. e \in [leader : Sentinels \X Nat, epoch : Nat, current : Nat]
      BY <1>3, <3>1 DEF Follows, Sound
    <3>3. ASSUME st.current_epoch = st.failover_epoch
          PROVE  \E Q \in SUBSET Sentinels :
                   /\ Majority(Q)
                   /\ \A q \in Q : VoteOf(q, st.failover_epoch, Me(s)) \in votes'
      <4>1. /\ Sound(st) /\ DOMAIN st.peer = Peers(s)
        BY <1>2, <1>3 DEF Follows
      <4>2. PICK Q \in SUBSET Sentinels :
              /\ Majority(Q)
              /\ \A q \in Q : IF q = s
                   THEN r.st.leader = Me(s) /\ r.st.leader_epoch = st.failover_epoch
                   ELSE /\ st.peer[q].leader = Me(s)
                        /\ st.peer[q].leader_epoch = st.failover_epoch
        BY <2>3, <3>1, <3>3, <4>1, WonByMajority
      <4>3. SameVote(new, r.st) /\ sn'[s] = new
        BY <1>2, <1>6, <1>7, <2>3, <4>1, WonByMajority DEF SentinelsInv
      <4>4. s \in Q => VoteOf(s, st.failover_epoch, Me(s)) \in votes'
        BY <1>10, <3>1, <4>2, <4>3 DEF SentinelsInv, SameVote
      <4>5. ASSUME NEW q \in Q, q # s
            PROVE  VoteOf(q, st.failover_epoch, Me(s)) \in votes
        <5>1. q \in Peers(s)
          BY <4>5 DEF Peers
        <5>2. SameVote(st.peer[q], sn[s].peer[q])
          BY <1>2, <1>3, <3>1, <4>2, <4>5, <5>1 DEF Follows
        <5>3. QED BY <1>2, <3>1, <4>2, <4>5, <5>1, <5>2 DEF SentinelsInv, SameVote
      <4>6. QED BY <1>10, <4>2, <4>4, <4>5
    <3>4. /\ e.epoch = st.failover_epoch /\ e.current = st.current_epoch
          /\ e.leader = Me(s)
      OBVIOUS
    <3> HIDE DEF e
    <3>5. QED BY <1>10, <2>3, <3>2, <3>3, <3>4 DEF VoteInv, ElectedInv
  <2>4. QED BY <2>1, <2>2, <2>3
<1>13. QED BY <1>10, <1>11, <1>12 DEF VoteInv

\* A vote that another Sentinel asks for; what is answered is what was voted.
LEMMA AskStep ==
    ASSUME VoteInv, NEW m \in net, is_master_down_by_addr(m)
    PROVE  VoteInv'
<1> DEFINE t == m.callee
           known == sn[t].addr = m.addr
           new == IF known THEN sentinelVoteLeader(sn[t], m.epoch, m.leader) ELSE sn[t]
           reply == [type |-> "reply", caller |-> m.caller, callee |-> t,
                     leader |-> IF known THEN new.leader ELSE NoOne,
                     epoch |-> IF known THEN new.leader_epoch ELSE 0]
<1>1. /\ sn' = [sn EXCEPT ![t] = new] /\ Vote(t)
      /\ net' = (net \ {m}) \cup {reply} /\ elected' = elected
  BY DEF is_master_down_by_addr
<1>2. /\ t \in Peers(m.caller) /\ t \in Sentinels /\ m.caller \in Sentinels
      /\ m.epoch \in Nat /\ Sound(sn[t]) /\ SentinelsInv
  BY DEF VoteInv, SentinelsInv, CallsInv, is_master_down_by_addr, Peers
<1>3. Follows(new, sn[t])
  BY <1>2, VoteSound, FollowsItself
<1>4. /\ reply.type = "reply" /\ reply.caller = m.caller /\ reply.callee = t
      /\ reply.leader # NoOne
           => reply.leader = new.leader /\ reply.epoch = new.leader_epoch
  OBVIOUS
<1> HIDE DEF new, reply, t
<1>5. SentinelsInv' /\ votes \subseteq votes'
  BY <1>1, <1>2, <1>3, OneSentinelStep
<1>6. reply.leader # NoOne => VoteOf(t, reply.epoch, reply.leader) \in votes'
  <2>1. sn'[t] = new
    BY <1>1, <1>2 DEF SentinelsInv
  <2>2. QED BY <1>2, <1>4, <1>5, <2>1 DEF SentinelsInv
<1>7. CallsInv'
  BY <1>1, <1>2, <1>4, <1>5, <1>6 DEF VoteInv, CallsInv
<1>8. ElectedInv'
  BY <1>1, <1>5 DEF VoteInv, ElectedInv
<1>9. QED BY <1>5, <1>7, <1>8 DEF VoteInv

\* A reply is taken over as the vote of the Sentinel that was asked.
LEMMA ReplyStep ==
    ASSUME VoteInv, NEW m \in net, sentinelReceiveIsMasterDownReply(m)
    PROVE  VoteInv'
<1> DEFINE s == m.caller
           peer == [sn[s].peer EXCEPT ![m.callee] =
                      [sn[s].peer[m.callee] EXCEPT !.leader = m.leader,
                                                   !.leader_epoch = m.epoch]]
           new == [sn[s] EXCEPT !.peer = peer]
<1>1. /\ s \in Sentinels /\ m.callee \in Peers(s) /\ Sound(sn[s])
      /\ DOMAIN sn[s].peer = Peers(s)
      /\ m.leader # NoOne => VoteOf(m.callee, m.epoch, m.leader) \in votes
  BY DEF VoteInv, SentinelsInv, CallsInv, sentinelReceiveIsMasterDownReply
<1>2. votes' = votes /\ net' \subseteq net /\ elected' = elected
  BY DEF sentinelReceiveIsMasterDownReply
<1>3. \/ sn' = sn
      \/ m.leader # NoOne /\ sn' = [sn EXCEPT ![s] = new]
  BY <1>1 DEF sentinelReceiveIsMasterDownReply
<1>4. CASE sn' = sn
  BY <1>2, <1>4, HistoryKept DEF VoteInv, SentinelsInv, OneVotePerEpoch
<1>5. CASE m.leader # NoOne /\ sn' = [sn EXCEPT ![s] = new]
  <2>1. /\ DOMAIN peer = Peers(s)
        /\ \A t \in Peers(s) : t # m.callee => peer[t] = sn[s].peer[t]
        /\ peer[m.callee].leader = m.leader /\ peer[m.callee].leader_epoch = m.epoch
        /\ DOMAIN peer[m.callee] = {"runid", "leader", "leader_epoch"}
    BY <1>1 DEF Sound
  <2> HIDE DEF peer
  <2>2. /\ Sound(new) /\ new.peer = peer /\ SameVote(new, sn[s])
    BY <1>1, <2>1 DEF Sound, Fields, SameVote
  <2>3. /\ DOMAIN sn' = Sentinels /\ sn'[s] = new
        /\ \A t \in Sentinels : t # s => sn'[t] = sn[t]
    BY <1>1, <1>5 DEF VoteInv, SentinelsInv
  <2> HIDE DEF new, s
  <2>4. \A v \in votes : v.epoch <= sn'[v.voter].leader_epoch
    BY <2>2, <2>3 DEF VoteInv, SentinelsInv, SameVote
  <2>5. \A t \in Sentinels : sn'[t].leader # NoOne
            => VoteOf(t, sn'[t].leader_epoch, sn'[t].leader) \in votes
    BY <2>2, <2>3 DEF VoteInv, SentinelsInv, SameVote
  <2>6. \A t \in Sentinels : \A u \in Peers(t) : sn'[t].peer[u].leader # NoOne
            => VoteOf(u, sn'[t].peer[u].leader_epoch, sn'[t].peer[u].leader) \in votes
    <3>1. ASSUME NEW u \in Peers(s), peer[u].leader # NoOne
          PROVE  VoteOf(u, peer[u].leader_epoch, peer[u].leader) \in votes
      BY <1>1, <1>5, <2>1, <3>1 DEF VoteInv, SentinelsInv
    <3>2. QED BY <1>1, <2>2, <2>3, <3>1 DEF VoteInv, SentinelsInv
  <2>7. \A t \in Sentinels : Sound(sn'[t]) /\ DOMAIN sn'[t].peer = Peers(t)
    BY <2>1, <2>2, <2>3 DEF VoteInv, SentinelsInv
  <2>8. SentinelsInv'
    BY <1>2, <2>3, <2>4, <2>5, <2>6, <2>7 DEF VoteInv, SentinelsInv, OneVotePerEpoch
  <2>9. QED BY <1>2, <2>8, HistoryKept
<1>6. QED BY <1>3, <1>4, <1>5

\* The remaining steps give no vote and keep the epoch of the last one.
LEMMA OtherSteps ==
    ASSUME VoteInv, NEW s \in Sentinels,
           \/ \E a \in Instances : sentinelRefreshSlaveInfo(s, a)
           \/ sentinelRefreshMasterInfo(s)
           \/ SentinelFailover(s)
           \/ FailoverOfOther(s)
           \/ Restart(s)
    PROVE  VoteInv'
<1>1. Sound(sn[s]) /\ SentinelsInv
  BY DEF VoteInv, SentinelsInv
<1>2. votes' = votes /\ net' \subseteq net /\ elected' = elected
  BY DEF sentinelRefreshSlaveInfo, sentinelRefreshMasterInfo, SentinelFailover,
         FailoverOfOther, Restart
<1>3. ASSUME NEW new, sn' = [sn EXCEPT ![s] = new], Follows(new, sn[s]),
             new.leader_epoch = sn[s].leader_epoch
      PROVE  VoteInv'
  BY <1>1, <1>2, <1>3, OneSentinelStep, HistoryKept
<1>4. ASSUME NEW a \in Instances, sentinelRefreshSlaveInfo(s, a)
      PROVE  VoteInv'
  <2> DEFINE switched == [sn[s] EXCEPT !.config_epoch = sn[s].failover_epoch,
                                 !.failover_state = "RECONF_SLAVES"]
  <2>1. PICK x, y, z :
          \/ sn' = [sn EXCEPT ![s] = Promoted(sn[s])]
          \/ sn' = [sn EXCEPT ![s] = [sn[s] EXCEPT !.sent = x, !.inprog = y, !.done = z]]
    <3>1. PICK sane \in BOOLEAN, up \in BOOLEAN :
            LET isMaster == redis[a] = NoOne
                promotes == /\ isMaster /\ a = sn[s].promoted
                            /\ sn[s].failover_state = "WAIT_PROMOTION"
                inprog == ~isMaster /\ a \in sn[s].sent /\ redis[a] = sn[s].promoted
                done == ~isMaster /\ up /\ (inprog \/ a \in sn[s].inprog)
            IN sn' = [sn EXCEPT ![s] =
                        IF promotes THEN Promoted(sn[s])
                        ELSE [sn[s] EXCEPT
                                !.sent = IF inprog THEN sn[s].sent \ {a} ELSE sn[s].sent,
                                !.inprog = IF done THEN sn[s].inprog \ {a}
                                           ELSE IF inprog THEN sn[s].inprog \cup {a}
                                           ELSE sn[s].inprog,
                                !.done = IF done THEN sn[s].done \cup {a}
                                         ELSE sn[s].done]]
      BY <1>4 DEF sentinelRefreshSlaveInfo
    <3>2. QED BY <3>1, Zenon
  <2>2. Sound(switched) /\ KeepsVotes(switched, sn[s])
    BY <1>1 DEF Sound, Fields, KeepsVotes
  <2>3. Sound(Promoted(sn[s])) /\ KeepsVotes(Promoted(sn[s]), sn[s])
    <3>1. Promoted(sn[s]) = sentinelFlushConfig(switched)
      BY DEF Promoted
    <3> HIDE DEF switched
    <3>2. QED BY <2>2, <3>1, FlushSound DEF KeepsVotes, Sound
  <2> DEFINE flags == [sn[s] EXCEPT !.sent = x, !.inprog = y, !.done = z]
  <2>4. Sound(flags) /\ KeepsVotes(flags, sn[s])
    BY <1>1 DEF Sound, Fields, KeepsVotes
  <2> HIDE DEF flags
  <2>5. QED BY <1>3, <2>1, <2>3, <2>4, KeepingFollows DEF KeepsVotes, flags
<1>5. CASE sentinelRefreshMasterInfo(s)
  <2> DEFINE more == sn[s].slaves \cup
                       {a \in Instances \ {sn[s].addr} : redis[a] = sn[s].addr}
             new == [sn[s] EXCEPT !.slaves = more]
  <2>1. sn' = [sn EXCEPT ![s] = new]
    BY <1>5 DEF sentinelRefreshMasterInfo
  <2>2. Sound(new) /\ KeepsVotes(new, sn[s])
    <3> HIDE DEF more
    <3>1. QED BY <1>1 DEF Sound, Fields, KeepsVotes
  <2> HIDE DEF new
  <2>3. QED BY <1>3, <2>1, <2>2, KeepingFollows DEF KeepsVotes
<1>6. CASE SentinelFailover(s)
  <2> DEFINE new == [sentinelStartFailover(sn[s]) EXCEPT !.force = TRUE]
  <2>1. sn' = [sn EXCEPT ![s] = new]
    BY <1>6 DEF SentinelFailover
  <2>2. Sound(new) /\ KeepsVotes(new, sn[s])
    BY <1>1 DEF sentinelStartFailover, Sound, Fields, KeepsVotes
  <2> HIDE DEF new
  <2>3. QED BY <1>3, <2>1, <2>2, KeepingFollows DEF KeepsVotes
<1>7. CASE FailoverOfOther(s)
  <2> DEFINE up == [sn[s] EXCEPT !.current_epoch = sn[s].current_epoch + 1]
  <2>1. sn' = [sn EXCEPT ![s] = sentinelFlushConfig(up)]
    BY <1>7 DEF FailoverOfOther
  <2>2. Sound(up) /\ KeepsVotes(up, sn[s])
    BY <1>1 DEF Sound, Fields, KeepsVotes
  <2> HIDE DEF up
  <2>3. Sound(sentinelFlushConfig(up)) /\ KeepsVotes(sentinelFlushConfig(up), sn[s])
    BY <2>2, FlushSound DEF KeepsVotes, Sound
  <2>4. QED BY <1>3, <2>1, <2>3, KeepingFollows DEF KeepsVotes
<1>8. CASE Restart(s)
  <2>1. sn' = [sn EXCEPT ![s] = sentinelHandleConfiguration(sn[s].disk,
                                    sn[s].runid + 1, sn[s].peer)]
    BY <1>8 DEF Restart
  <2>2. sn[s].runid + 1 \in Nat
    BY <1>1 DEF Sound
  <2>3. QED BY <1>1, <1>3, <2>1, <2>2, RestartSound
<1>9. QED BY <1>4, <1>5, <1>6, <1>7, <1>8

\* The invariant is inductive: votes, what is told of them and the elections that
\* rest on them agree in every state.
LEMMA VoteInvInductive == Spec => []VoteInv
<1>1. Init => VoteInv
  <2> SUFFICES ASSUME Init PROVE VoteInv
    OBVIOUS
  <2>0. PICK slaves \in SUBSET (Instances \ {FirstMaster}) :
           /\ sn = [s \in Sentinels |->
                      sentinelHandleConfiguration(
                        [current_epoch |-> 0, config_epoch |-> 0, leader_epoch |-> 0,
                         slaves |-> slaves, addr |-> FirstMaster],
                        0, [t \in Peers(s) |-> NoVote(0)])]
           /\ redis = [a \in Instances |-> IF a \in slaves THEN FirstMaster ELSE NoOne]
    BY Zenon DEF Init
  <2> DEFINE disk == [current_epoch |-> 0, config_epoch |-> 0, leader_epoch |-> 0,
                      slaves |-> slaves, addr |-> FirstMaster]
             first(s) == [t \in Peers(s) |-> NoVote(0)]
             peer(s) == [t \in DOMAIN first(s) |-> NoVote(first(s)[t].runid)]
  <2>1. /\ DOMAIN sn = Sentinels /\ votes = {} /\ net = {} /\ elected = {}
        /\ \A s \in Sentinels : sn[s] = sentinelHandleConfiguration(disk, 0, first(s))
    BY <2>0 DEF Init
  <2>2. ASSUME NEW s \in Sentinels
        PROVE  /\ DOMAIN peer(s) = Peers(s)
               /\ \A t \in Peers(s) :
                    /\ peer(s)[t].leader = NoOne
                    /\ DOMAIN peer(s)[t] = {"runid", "leader", "leader_epoch"}
    BY DEF NoVote
  <2> HIDE DEF first
  <2>3. ASSUME NEW s \in Sentinels
        PROVE  /\ DOMAIN sn[s] = Fields /\ sn[s].disk = disk /\ sn[s].runid = 0
               /\ sn[s].current_epoch \in {disk.current_epoch, disk.config_epoch}
               /\ sn[s].config_epoch = disk.config_epoch
               /\ sn[s].leader_epoch = disk.leader_epoch /\ sn[s].leader = NoOne
               /\ sn[s].failover_epoch = 0 /\ sn[s].peer = peer(s)
    <3> HIDE DEF disk
    <3>1. QED BY <2>1, ConfigurationFields
  <2>4. disk.current_epoch = 0 /\ disk.config_epoch = 0 /\ disk.leader_epoch = 0
    OBVIOUS
  <2> HIDE DEF peer, disk
  <2>5. ASSUME NEW s \in Sentinels
        PROVE  /\ Sound(sn[s]) /\ DOMAIN sn[s].peer = Peers(s) /\ sn[s].leader = NoOne
               /\ \A t \in Peers(s) : sn[s].peer[t].leader = NoOne
    BY <2>2, <2>3, <2>4 DEF Sound
  <2>6. SentinelsInv
    BY <2>1, <2>5, Zenon DEF SentinelsInv, OneVotePerEpoch
  <2>7. QED BY <2>1, <2>6 DEF VoteInv, CallsInv, ElectedInv
<1>2. VoteInv /\ [Next]_vars => VoteInv'
  <2> SUFFICES ASSUME VoteInv, [Next]_vars PROVE VoteInv'
    OBVIOUS
  <2>1. ASSUME NEW s \in Sentinels, sentinelHandleRedisInstance(s) PROVE VoteInv'
    BY <2>1, TimerStep
  <2>2. ASSUME NEW s \in Sentinels, NEW t \in Sentinels,
               sentinelProcessHelloMessage(s, t)
        PROVE  VoteInv'
    BY <2>2, HelloStep
  <2>3. ASSUME NEW s \in Sentinels,
               \/ \E a \in Instances : sentinelRefreshSlaveInfo(s, a)
               \/ sentinelRefreshMasterInfo(s)
               \/ SentinelFailover(s)
               \/ FailoverOfOther(s)
               \/ Restart(s)
        PROVE  VoteInv'
    BY <2>3, OtherSteps
  <2>4. ASSUME NEW m \in net, is_master_down_by_addr(m) PROVE VoteInv'
    BY <2>4, AskStep
  <2>5. ASSUME NEW m \in net, sentinelReceiveIsMasterDownReply(m) PROVE VoteInv'
    BY <2>5, ReplyStep
  <2>6. ASSUME sn' = sn, votes' = votes, elected' = elected, net' \subseteq net
        PROVE  VoteInv'
    BY <2>6, HistoryKept DEF VoteInv, SentinelsInv, OneVotePerEpoch
  <2>7. ASSUME NEW m \in net, LinkBreaks(m) PROVE VoteInv'
    BY <2>6, <2>7 DEF LinkBreaks
  <2>8. ASSUME NEW c \in commands, RedisSlaveOf(c) PROVE VoteInv'
    BY <2>6, <2>8 DEF RedisSlaveOf
  <2>9. CASE UNCHANGED vars
    BY <2>6, <2>9 DEF vars
  <2>10. QED BY <2>1, <2>2, <2>3, <2>4, <2>5, <2>7, <2>8, <2>9 DEF Next
<1>3. QED BY <1>1, <1>2, PTL DEF Spec

\* A Sentinel never votes for two leaders in one epoch: sentinelVoteLeader
\* takes only newer epochs, and saves the vote before anything can be
\* forgotten.
THEOREM VotesOnce == Spec => []OneVotePerEpoch
<1>1. VoteInv => OneVotePerEpoch
  BY DEF VoteInv, SentinelsInv
<1>2. QED BY <1>1, VoteInvInductive, PTL

\* Two Sentinels that counted the votes of the epoch they started their failover
\* in were not both elected in it: sentinelGetLeader asks for a majority of all
\* the Sentinels, two majorities share one, and it voted once.
THEOREM OneElectedPerEpoch == Spec => []ElectionSafety
<1>1. VoteInv => ElectionSafety
  <2> SUFFICES ASSUME VoteInv, NEW e \in elected, NEW f \in elected,
                      e.epoch = f.epoch, e.current = e.epoch, f.current = f.epoch
               PROVE  e = f
    BY DEF ElectionSafety
  <2>1. PICK Q \in SUBSET Sentinels :
          Majority(Q) /\ \A q \in Q : VoteOf(q, e.epoch, e.leader) \in votes
    BY DEF VoteInv, ElectedInv
  <2>2. PICK R \in SUBSET Sentinels :
          Majority(R) /\ \A q \in R : VoteOf(q, f.epoch, f.leader) \in votes
    BY DEF VoteInv, ElectedInv
  <2>3. Q \cap R # {}
    <3>1. /\ IsFiniteSet(Sentinels) /\ Cardinality(Sentinels) \in Nat
          /\ Cardinality(Q) \in Nat /\ Cardinality(R) \in Nat
      BY ConstantsAssumption, FS_CardinalityType, FS_Subset
    <3>2. Cardinality(Q) + Cardinality(R) > Cardinality(Sentinels)
      BY <2>1, <2>2, <3>1 DEF Majority
    <3>3. QED BY <3>1, <3>2, FS_MajoritiesIntersect
  <2>4. PICK q : q \in Q /\ q \in R
    BY <2>3
  <2>5. VoteOf(q, e.epoch, e.leader) = VoteOf(q, f.epoch, f.leader)
    <3>1. /\ VoteOf(q, e.epoch, e.leader) \in votes
          /\ VoteOf(q, f.epoch, f.leader) \in votes
      BY <2>1, <2>2, <2>4
    <3>2. \A l : VoteOf(q, e.epoch, l).voter = q /\ VoteOf(q, e.epoch, l).epoch = e.epoch
      BY DEF VoteOf
    <3>3. QED BY <3>1, <3>2 DEF VoteInv, SentinelsInv, OneVotePerEpoch
  <2>6. e.leader = f.leader
    BY <2>5 DEF VoteOf
  <2>7. QED BY <2>6 DEF VoteInv, ElectedInv
<1>2. QED BY <1>1, VoteInvInductive, PTL

(***************************************************************************)
(* The configuration a Sentinel holds, announces and saves, and the slaves *)
(* it reconfigures.                                                        *)
(***************************************************************************)

PeerFields == {"runid", "leader", "leader_epoch"}

\* A Sentinel's record is whole and its fields, and those of its file, are of
\* their types; n bounds the times it was restarted.
Shape(st, n) ==
    /\ DOMAIN st = Fields
    /\ st.current_epoch \in Epochs /\ st.config_epoch \in Epochs
    /\ st.leader_epoch \in Epochs /\ st.failover_epoch \in Epochs
    /\ st.addr \in Instances /\ st.slaves \subseteq Instances
    /\ st.disk.current_epoch \in Epochs /\ st.disk.config_epoch \in Epochs
    /\ st.disk.leader_epoch \in Epochs
    /\ st.disk.addr \in Instances /\ st.disk.slaves \subseteq Instances
    /\ st.leader \in Leaders /\ st.runid \in 0..n
    /\ \A t \in DOMAIN st.peer : /\ DOMAIN st.peer[t] = PeerFields
                                 /\ st.peer[t].leader \in Leaders

\* promoted_slave is set from the selection of a slave to the end of the
\* failover, and slaves are reconfigured only after the promotion.
Promotion(st) ==
    /\ st.failover_state \in States
    /\ st.promoted # NoOne => st.promoted \in st.slaves
    /\ st.failover_state \in {"SEND_SLAVEOF_NOONE", "WAIT_PROMOTION",
                              "RECONF_SLAVES", "UPDATE_CONFIG"}
         => st.promoted # NoOne
    /\ st.sent \cup st.inprog \cup st.done \subseteq st.slaves
    /\ st.failover_state \notin {"RECONF_SLAVES", "UPDATE_CONFIG"}
         => st.sent = {} /\ st.inprog = {}

\* What SyncsBounded says of the marks, but for those of the step that ends a
\* failover, which the same timer resets.
Bounded(st) ==
    st.failover_state # "UPDATE_CONFIG"
      => /\ Cardinality(st.sent \cup st.inprog) <= ParallelSyncs
         /\ st.promoted \notin st.sent \cup st.inprog
         /\ st.sent \cap st.inprog = {}

Announced(st) == sentinelGetCurrentMasterAddress(st) = st.disk.addr

\* What holds of a Sentinel when it is about to rewrite its file, and always.
Unsaved(st, n) == Shape(st, n) /\ Promotion(st) /\ Bounded(st)
Good(st, n) == Unsaved(st, n) /\ Announced(st)

\* The inductive invariant.
ConfigInv ==
    /\ events \in 0..MaxEvents
    /\ DOMAIN sn = Sentinels
    /\ \A s \in Sentinels : /\ Good(sn[s], events) /\ DOMAIN sn[s].peer = Peers(s)
                            /\ sn[s].failover_state # "UPDATE_CONFIG"
    /\ \A m \in net : /\ m.caller \in Sentinels /\ m.callee \in Peers(m.caller)
                      /\ m.epoch \in Epochs /\ m.leader \in Leaders
    /\ redis \in [Instances -> Addresses]
    /\ \A c \in commands : c.to \in Instances /\ c.of \in Addresses

\* A rewrite of the file saves the address that is announced.
LEMMA FlushGood ==
    ASSUME NEW st, NEW n, Unsaved(st, n)
    PROVE  Good(sentinelFlushConfig(st), n)
<1> DEFINE addr == sentinelGetCurrentMasterAddress(st)
           disk == [current_epoch |-> st.current_epoch, config_epoch |-> st.config_epoch,
                    leader_epoch |-> st.leader_epoch, slaves |-> st.slaves, addr |-> addr]
           new == [st EXCEPT !.disk = disk]
<1>1. addr \in Instances
  BY DEF Unsaved, Shape, Promotion, sentinelGetCurrentMasterAddress
<1>2. sentinelFlushConfig(st) = new
  BY DEF sentinelFlushConfig, rewriteConfigSentinelOption
<1>3. /\ disk.current_epoch = st.current_epoch /\ disk.config_epoch = st.config_epoch
      /\ disk.leader_epoch = st.leader_epoch /\ disk.slaves = st.slaves
      /\ disk.addr = addr
  OBVIOUS
<1>4. sentinelGetCurrentMasterAddress(new) = addr
  <2> HIDE DEF disk
  <2>1. QED BY DEF sentinelGetCurrentMasterAddress, Unsaved, Shape, Fields
<1> HIDE DEF disk, addr
<1>5. Shape(new, n)
  BY <1>1, <1>3 DEF Unsaved, Shape, Fields
<1>6. Promotion(new) /\ Bounded(new)
  BY DEF Unsaved, Shape, Fields, Promotion, Bounded
<1>7. new.disk = disk
  BY DEF Unsaved, Shape, Fields
<1>8. QED BY <1>2, <1>3, <1>4, <1>5, <1>6, <1>7 DEF Good, Unsaved, Announced

\* No slave is reconfigured when no flag is set.
LEMMA NoneBounded ==
    ASSUME NEW st, st.sent = {}, st.inprog = {}
    PROVE  Bounded(st)
BY ConstantsAssumption, FS_EmptySet DEF Bounded

\* A change of address leaves no failover under way.
LEMMA ChangeAddressGood ==
    ASSUME NEW st, NEW n, NEW addr \in Instances, Shape(st, n)
    PROVE  LET new == sentinelResetMasterAndChangeAddress(st, addr)
           IN Good(new, n) /\ new.failover_state = "NONE" /\ new.peer = st.peer
<1> DEFINE slaves == (st.slaves \cup {st.addr}) \ {addr}
           new == [st EXCEPT !.slaves = slaves, !.leader = NoOne,
                             !.failover_state = "NONE", !.force = FALSE,
                             !.promoted = NoOne, !.sent = {}, !.inprog = {},
                             !.done = {}, !.addr = addr]
<1>1. sentinelResetMasterAndChangeAddress(st, addr) = sentinelFlushConfig(new)
  <2>1. [sentinelResetMaster(st) EXCEPT !.addr = addr, !.slaves = slaves] = new
    BY DEF sentinelResetMaster, Shape, Fields
  <2>2. QED BY <2>1 DEF sentinelResetMasterAndChangeAddress
<1>2. slaves \subseteq Instances
  BY DEF Shape
<1> HIDE DEF slaves
<1>3. /\ new.failover_state = "NONE" /\ new.sent = {} /\ new.inprog = {}
      /\ new.done = {} /\ new.promoted = NoOne /\ new.peer = st.peer
  BY DEF Shape, Fields
<1>4. Shape(new, n)
  BY <1>2 DEF Shape, Fields, Leaders
<1> HIDE DEF new
<1>5. Unsaved(new, n)
  BY <1>3, <1>4, NoneBounded DEF Unsaved, Promotion, States
<1>6. /\ sentinelFlushConfig(new).failover_state = "NONE"
      /\ sentinelFlushConfig(new).peer = st.peer
  BY <1>3, <1>4 DEF sentinelFlushConfig, Shape, Fields
<1>7. QED BY <1>1, <1>5, <1>6, FlushGood

\* A vote changes the epochs and the leader only.
LEMMA VoteGood ==
    ASSUME NEW st, NEW n, NEW e \in Epochs, NEW c \in Leaders, Good(st, n)
    PROVE  LET new == sentinelVoteLeader(st, e, c)
           IN /\ Good(new, n) /\ new.failover_state = st.failover_state
              /\ new.peer = st.peer /\ new.sent = st.sent /\ new.inprog = st.inprog
<1> DEFINE Same(x) == /\ x.failover_state = st.failover_state
                      /\ x.peer = st.peer /\ x.sent = st.sent /\ x.inprog = st.inprog
           up == [st EXCEPT !.current_epoch = e]
           seen == IF e > st.current_epoch THEN sentinelFlushConfig(up) ELSE st
           new == [seen EXCEPT !.leader = c, !.leader_epoch = seen.current_epoch]
<1>0. ASSUME NEW x, DOMAIN x = Fields, Same(x)
      PROVE  Same(sentinelFlushConfig(x))
  BY <1>0 DEF sentinelFlushConfig, Fields
<1>1. Unsaved(up, n) /\ Same(up) /\ DOMAIN up = Fields
  BY DEF Good, Unsaved, Shape, Promotion, Bounded, Fields
<1> HIDE DEF up
<1>2. Good(seen, n) /\ Same(seen)
  BY <1>0, <1>1, FlushGood
<1>3. sentinelVoteLeader(st, e, c) =
        IF seen.leader_epoch < e /\ seen.current_epoch <= e
        THEN sentinelFlushConfig(new) ELSE seen
  BY DEF sentinelVoteLeader, up
<1> HIDE DEF seen
<1>4. Unsaved(new, n) /\ Same(new) /\ DOMAIN new = Fields
  BY <1>2 DEF Good, Unsaved, Shape, Promotion, Bounded, Fields
<1> HIDE DEF new
<1>5. Good(sentinelFlushConfig(new), n) /\ Same(sentinelFlushConfig(new))
  BY <1>0, <1>4, FlushGood
<1> HIDE DEF Same
<1>6. Good(sentinelVoteLeader(st, e, c), n) /\ Same(sentinelVoteLeader(st, e, c))
  BY <1>2, <1>3, <1>5
<1>7. QED BY <1>6 DEF Same

\* A failover is aborted before any slave is reconfigured.
LEMMA AbortGood ==
    ASSUME NEW st, NEW n, Good(st, n),
           st.failover_state \notin {"RECONF_SLAVES", "UPDATE_CONFIG"}
    PROVE  LET new == sentinelAbortFailover(st)
           IN Good(new, n) /\ new.failover_state = "NONE" /\ new.peer = st.peer
<1> DEFINE new == [st EXCEPT !.failover_state = "NONE", !.force = FALSE,
                             !.promoted = NoOne]
<1>1. /\ Shape(new, n) /\ new.sent = {} /\ new.inprog = {} /\ new.done = st.done
      /\ new.slaves = st.slaves /\ new.promoted = NoOne /\ new.failover_state = "NONE"
      /\ new.addr = st.addr /\ new.disk = st.disk /\ new.peer = st.peer
  BY DEF Good, Unsaved, Shape, Promotion, Fields
<1>2. sentinelAbortFailover(st) = new
  BY DEF sentinelAbortFailover
<1> HIDE DEF new
<1>3. Promotion(new) /\ Bounded(new)
  BY <1>1, NoneBounded DEF Good, Unsaved, Promotion, States
<1>4. Announced(new)
  BY <1>1 DEF Good, Announced, sentinelGetCurrentMasterAddress
<1>5. QED BY <1>1, <1>2, <1>3, <1>4 DEF Good, Unsaved

\* A failover starts with nothing under way.
LEMMA StartGood ==
    ASSUME NEW st, NEW n, Good(st, n), st.failover_state = "NONE",
           st.current_epoch < MaxEpoch
    PROVE  LET new == sentinelStartFailover(st)
           IN /\ Good(new, n) /\ new.failover_state = "WAIT_START"
              /\ new.peer = st.peer
<1> DEFINE e == st.current_epoch + 1
           new == [st EXCEPT !.failover_state = "WAIT_START",
                             !.current_epoch = e, !.failover_epoch = e]
<1>1. e \in Epochs
  BY ConstantsAssumption DEF Good, Unsaved, Shape, Epochs
<1>2. sentinelStartFailover(st) = new
  BY DEF sentinelStartFailover
<1> HIDE DEF e
<1>3. /\ Shape(new, n) /\ new.sent = {} /\ new.inprog = {} /\ new.done = st.done
      /\ new.slaves = st.slaves /\ new.promoted = st.promoted
      /\ new.failover_state = "WAIT_START"
      /\ new.addr = st.addr /\ new.disk = st.disk /\ new.peer = st.peer
  BY <1>1 DEF Good, Unsaved, Shape, Promotion, Fields
<1> HIDE DEF new
<1>4. Promotion(new) /\ Bounded(new)
  BY <1>3, NoneBounded DEF Good, Unsaved, Promotion, States
<1>5. Announced(new)
  BY <1>3 DEF Good, Announced, sentinelGetCurrentMasterAddress
<1>6. QED BY <1>2, <1>3, <1>4, <1>5 DEF Good, Unsaved

SlaveOfs == [to : Instances, of : Addresses]

\* A result of the state machine on st.
GoodResult(r, st, n) ==
    /\ Good(r.st, n) /\ r.st.peer = st.peer /\ r.send \subseteq SlaveOfs

\* A result that sends nothing.
LEMMA QuietResult ==
    ASSUME NEW new, NEW st, NEW n, NEW won, Good(new, n), new.peer = st.peer
    PROVE  /\ GoodResult(Result(new), st, n)
           /\ GoodResult([Result(new) EXCEPT !.won = won], st, n)
BY DEF GoodResult, Result

\* Counting the votes gives a vote for this Sentinel or one that others voted for.
LEMMA GetLeaderGood ==
    ASSUME NEW s \in Sentinels, NEW st, NEW n, n <= MaxEvents, n \in Nat, Good(st, n),
           NEW e \in Epochs, NEW o \in sentinelGetLeader(s, st, e)
    PROVE  /\ Good(o.st, n) /\ o.st.failover_state = st.failover_state
           /\ o.st.peer = st.peer
<1> DEFINE reported == {st.peer[t].leader : t \in DOMAIN st.peer}
<1>1. PICK c \in {NoOne} \cup reported : o = CountOwnVote(s, st, e, c)
  BY DEF sentinelGetLeader
<1> DEFINE d == IF c = NoOne THEN <<s, st.runid>> ELSE c
<1>2. o.st = sentinelVoteLeader(st, e, d)
  BY <1>1 DEF CountOwnVote
<1>3. d \in Leaders
  <2>1. reported \subseteq Leaders
    BY DEF Good, Unsaved, Shape
  <2>2. <<s, st.runid>> \in Leaders
    BY ConstantsAssumption DEF Good, Unsaved, Shape, Leaders, RunIds
  <2>3. QED BY <2>1, <2>2
<1> HIDE DEF d
<1>4. QED BY <1>2, <1>3, VoteGood

\* Waiting for the election.
LEMMA WaitStartGood ==
    ASSUME NEW s \in Sentinels, NEW st, NEW n, n <= MaxEvents, n \in Nat, Good(st, n),
           st.failover_state = "WAIT_START",
           NEW r \in sentinelFailoverWaitStart(s, st)
    PROVE  GoodResult(r, st, n)
<1>1. PICK o \in sentinelGetLeader(s, st, st.failover_epoch) :
          \/ r = [Result([o.st EXCEPT !.failover_state = "SELECT_SLAVE"])
                     EXCEPT !.won = (o.winner = <<s, st.runid>>)]
          \/ r = Result(o.st)
          \/ r = Result(sentinelAbortFailover(o.st))
  BY Zenon DEF sentinelFailoverWaitStart
<1>2. /\ Good(o.st, n) /\ o.st.failover_state = "WAIT_START"
      /\ o.st.peer = st.peer
  BY GetLeaderGood DEF Good, Unsaved, Shape
<1> DEFINE old == o.st
           new == [old EXCEPT !.failover_state = "SELECT_SLAVE"]
<1>3. Good(new, n) /\ new.peer = st.peer
  <2> HIDE DEF old
  <2>1. /\ Shape(new, n) /\ new.sent = {} /\ new.inprog = {} /\ new.done = old.done
        /\ new.slaves = old.slaves /\ new.promoted = old.promoted
        /\ new.failover_state = "SELECT_SLAVE"
        /\ new.addr = old.addr /\ new.disk = old.disk /\ new.peer = old.peer
    BY <1>2 DEF old, Good, Unsaved, Shape, Promotion, Fields
  <2> HIDE DEF new
  <2>2. Promotion(new) /\ Bounded(new)
    BY <1>2, <2>1, NoneBounded DEF old, Good, Unsaved, Promotion, States
  <2>3. Announced(new)
    BY <1>2, <2>1 DEF old, Good, Announced, sentinelGetCurrentMasterAddress
  <2>4. QED BY <1>2, <2>1, <2>2, <2>3 DEF old, Good, Unsaved
<1> HIDE DEF new
<1>4. Good(sentinelAbortFailover(old), n) /\ sentinelAbortFailover(old).peer = st.peer
  BY <1>2, AbortGood
<1>5. CASE r = [Result(new) EXCEPT !.won = (o.winner = <<s, st.runid>>)]
  BY <1>3, <1>5, QuietResult
<1>6. CASE r = Result(old) \/ r = Result(sentinelAbortFailover(old))
  BY <1>2, <1>4, <1>6, QuietResult
<1>7. QED BY <1>1, <1>5, <1>6 DEF new

\* From the selection of a slave to its promotion.
LEMMA PromotionStatesGood ==
    ASSUME NEW st, NEW n, Good(st, n), NEW r,
           \/ /\ st.failover_state = "SELECT_SLAVE"
              /\ r \in sentinelFailoverSelectSlave(st)
           \/ /\ st.failover_state = "SEND_SLAVEOF_NOONE"
              /\ r \in sentinelFailoverSendSlaveOfNoOne(st)
           \/ /\ st.failover_state = "WAIT_PROMOTION"
              /\ r \in sentinelFailoverWaitPromotion(st)
    PROVE  GoodResult(r, st, n)
<1>1. \/ r = Result(st)
      \/ r = Result(sentinelAbortFailover(st))
      \/ \E a \in st.slaves :
           /\ st.failover_state = "SELECT_SLAVE"
           /\ r = Result([st EXCEPT !.promoted = a,
                                    !.failover_state = "SEND_SLAVEOF_NOONE"])
      \/ /\ st.failover_state = "SEND_SLAVEOF_NOONE"
         /\ r = [Result([st EXCEPT !.failover_state = "WAIT_PROMOTION"])
                   EXCEPT !.send = {SlaveOf(st.promoted, NoOne)}]
  BY Zenon DEF sentinelFailoverSelectSlave, sentinelFailoverSendSlaveOfNoOne,
         sentinelFailoverWaitPromotion
<1>2. CASE r = Result(st) \/ r = Result(sentinelAbortFailover(st))
  BY <1>2, AbortGood, QuietResult
<1>3. ASSUME NEW a \in st.slaves, st.failover_state = "SELECT_SLAVE",
             r = Result([st EXCEPT !.promoted = a,
                                   !.failover_state = "SEND_SLAVEOF_NOONE"])
      PROVE  GoodResult(r, st, n)
  <2> DEFINE new == [st EXCEPT !.promoted = a, !.failover_state = "SEND_SLAVEOF_NOONE"]
  <2>1. /\ Shape(new, n) /\ new.sent = {} /\ new.inprog = {} /\ new.done = st.done
        /\ new.slaves = st.slaves /\ new.promoted = a
        /\ new.failover_state = "SEND_SLAVEOF_NOONE"
        /\ new.addr = st.addr /\ new.disk = st.disk /\ new.peer = st.peer
    BY <1>3 DEF Good, Unsaved, Shape, Promotion, Fields
  <2> HIDE DEF new
  <2>2. a # NoOne
    BY ConstantsAssumption DEF Good, Unsaved, Shape
  <2>3. Promotion(new) /\ Bounded(new)
    BY <2>1, <2>2, NoneBounded DEF Good, Unsaved, Promotion, States
  <2>4. Announced(new)
    BY <1>3, <2>1 DEF Good, Announced, sentinelGetCurrentMasterAddress
  <2>5. QED BY <1>3, <2>1, <2>3, <2>4, QuietResult DEF Good, Unsaved, new
<1>4. CASE /\ st.failover_state = "SEND_SLAVEOF_NOONE"
           /\ r = [Result([st EXCEPT !.failover_state = "WAIT_PROMOTION"])
                     EXCEPT !.send = {SlaveOf(st.promoted, NoOne)}]
  <2> DEFINE new == [st EXCEPT !.failover_state = "WAIT_PROMOTION"]
  <2>1. /\ Shape(new, n) /\ new.sent = {} /\ new.inprog = {} /\ new.done = st.done
        /\ new.slaves = st.slaves /\ new.promoted = st.promoted
        /\ new.failover_state = "WAIT_PROMOTION"
        /\ new.addr = st.addr /\ new.disk = st.disk /\ new.peer = st.peer
    BY <1>4 DEF Good, Unsaved, Shape, Promotion, Fields
  <2>2. r.st = new /\ r.send = {SlaveOf(st.promoted, NoOne)}
    BY <1>4 DEF Result
  <2> HIDE DEF new
  <2>3. Promotion(new) /\ Bounded(new)
    BY <1>4, <2>1, NoneBounded DEF Good, Unsaved, Promotion, States
  <2>4. Announced(new)
    BY <1>4, <2>1 DEF Good, Announced, sentinelGetCurrentMasterAddress
  <2>5. SlaveOf(st.promoted, NoOne) \in SlaveOfs
    BY <1>4 DEF Good, Unsaved, Shape, Promotion, SlaveOf, SlaveOfs, Addresses
  <2>6. QED BY <2>1, <2>2, <2>3, <2>4, <2>5 DEF GoodResult, Good, Unsaved
<1>5. QED BY <1>1, <1>2, <1>3, <1>4

\* One SLAVEOF is sent to each of the slaves.
LEMMA OneCommandEach ==
    ASSUME NEW S, IsFiniteSet(S), NEW of
    PROVE  Cardinality({SlaveOf(a, of) : a \in S}) = Cardinality(S)
<1> DEFINE T == {SlaveOf(a, of) : a \in S}
           f == [a \in S |-> SlaveOf(a, of)]
<1>1. f \in Bijection(S, T)
  <2>1. f \in [S -> T] /\ \A b \in T : \E a \in S : f[a] = b
    OBVIOUS
  <2>2. \A a, b \in S : f[a] = f[b] => a = b
    BY DEF SlaveOf
  <2>3. QED BY <2>1, <2>2, Zenon DEF Bijection, Injection, Surjection, IsInjective
<1>2. QED BY <1>1, FS_Bijection DEF ExistsBijection

\* A pass of the loop over the slaves leaves no more of them in progress than
\* there was room for.
LEMMA LoopGood ==
    ASSUME NEW st, NEW n, Good(st, n), st.failover_state = "RECONF_SLAVES",
           NEW v \in SUBSET Unfinished(st), NEW late, NEW away, NEW p,
           p = ReconfLoop(st, v, late, away),
           \/ Cardinality(p.send) = ParallelSyncs - InProgress(st)
           \/ Cardinality(p.send) < ParallelSyncs - InProgress(st)
    PROVE  /\ GoodResult(p, st, n) /\ p.st.failover_state = "RECONF_SLAVES"
           /\ DOMAIN p = {"st", "send", "won"}
<1> DEFINE expired == v \cap late \cap st.sent
           send == v \ (away \cup st.inprog \cup (st.sent \ expired))
           sent == (st.sent \ expired) \cup send
           done == st.done \cup expired
           of == {SlaveOf(a, st.promoted) : a \in send}
           new == [st EXCEPT !.sent = sent, !.done = done]
<1>1. p = [Result(new) EXCEPT !.send = of]
  BY DEF ReconfLoop
<1>2. p.st = new /\ p.send = of /\ DOMAIN p = {"st", "send", "won"}
  <2> HIDE DEF new, of
  <2>1. QED BY <1>1 DEF Result
<1>0. v \subseteq st.slaves \ {st.promoted}
  BY DEF Unfinished
<1>3. /\ sent \subseteq st.slaves /\ done \subseteq st.slaves /\ send \subseteq st.slaves
      /\ sent \cup st.inprog \subseteq (st.sent \cup st.inprog) \cup send
      /\ st.promoted \notin sent \cup st.inprog /\ sent \cap st.inprog = {}
  BY <1>0 DEF Good, Unsaved, Promotion, Bounded
<1>4. IsFiniteSet(st.slaves) /\ IsFiniteSet(send) /\ IsFiniteSet(st.sent \cup st.inprog)
  <2>1. IsFiniteSet(st.slaves)
    BY ConstantsAssumption, FS_Subset DEF Good, Unsaved, Shape
  <2>2. st.sent \cup st.inprog \in SUBSET st.slaves /\ send \in SUBSET st.slaves
    BY <1>0 DEF Good, Unsaved, Promotion
  <2>3. QED BY <2>1, <2>2, FS_Subset
<1>5. Cardinality(of) = Cardinality(send)
  BY <1>4, OneCommandEach
<1>6. of \subseteq SlaveOfs
  BY <1>3 DEF Good, Unsaved, Shape, Promotion, SlaveOf, SlaveOfs, Addresses
<1> HIDE DEF sent, done, of, send, expired
<1>7. Cardinality(sent \cup st.inprog) <= ParallelSyncs
  <2> DEFINE A == st.sent \cup st.inprog
  <2>1. /\ IsFiniteSet(A \cup send) /\ Cardinality(A) \in Nat /\ Cardinality(send) \in Nat
        /\ Cardinality(A \cup send) \in Nat
        /\ Cardinality(A \cap send) \in Nat
        /\ Cardinality(A \cup send) =
             Cardinality(A) + Cardinality(send) - Cardinality(A \cap send)
    BY <1>4, FS_Union, FS_Intersection, FS_CardinalityType
  <2>2. /\ Cardinality(sent \cup st.inprog) \in Nat
        /\ Cardinality(sent \cup st.inprog) <= Cardinality(A \cup send)
    BY <1>3, <2>1, FS_Subset, FS_CardinalityType
  <2>3. \/ Cardinality(send) = ParallelSyncs - Cardinality(A)
        \/ Cardinality(send) < ParallelSyncs - Cardinality(A)
    BY <1>2, <1>5 DEF InProgress
  <2>4. QED BY <2>1, <2>2, <2>3, ConstantsAssumption
<1>8. /\ Shape(new, n) /\ new.sent = sent /\ new.inprog = st.inprog /\ new.done = done
      /\ new.slaves = st.slaves /\ new.promoted = st.promoted
      /\ new.failover_state = "RECONF_SLAVES"
      /\ new.addr = st.addr /\ new.disk = st.disk /\ new.peer = st.peer
  BY DEF Good, Unsaved, Shape, Fields
<1> HIDE DEF new
<1>9. Promotion(new) /\ Bounded(new)
  BY <1>3, <1>7, <1>8 DEF Good, Unsaved, Promotion, States, Bounded
<1>10. Announced(new)
  BY <1>8 DEF Good, Announced, sentinelGetCurrentMasterAddress
<1>11. QED BY <1>2, <1>6, <1>8, <1>9, <1>10 DEF GoodResult, Good, Unsaved

\* The end of the failover keeps to the promoted slave.
LEMMA DetectEndGood ==
    ASSUME NEW p, NEW st, NEW n, NEW away, NEW down, NEW over \in BOOLEAN,
           GoodResult(p, st, n), p.st.failover_state = "RECONF_SLAVES",
           DOMAIN p = {"st", "send", "won"}
    PROVE  GoodResult(sentinelFailoverDetectEnd(p, away, down, over), st, n)
<1> DEFINE old == p.st
           left == old.slaves \ ({old.promoted} \cup old.done \cup down)
           best == IF over THEN LeftAtTimeout(old, away) ELSE {}
           f == IF left = {} \/ over THEN "UPDATE_CONFIG" ELSE old.failover_state
           sent == old.sent \cup best
           send == p.send \cup {SlaveOf(a, old.promoted) : a \in best}
           new == [old EXCEPT !.failover_state = f, !.sent = sent]
<1>1. sentinelFailoverDetectEnd(p, away, down, over) =
        IF old.promoted = NoOne \/ old.promoted \in down
        THEN p ELSE [p EXCEPT !.st = new, !.send = send]
  BY DEF sentinelFailoverDetectEnd
<1>2. Good(old, n) /\ old.failover_state = "RECONF_SLAVES" /\ old.peer = st.peer
  BY DEF GoodResult
<1>3. /\ best \subseteq old.slaves
      /\ f = "UPDATE_CONFIG" \/ (f = "RECONF_SLAVES" /\ best = {})
  BY <1>2 DEF LeftAtTimeout
<1>4. send \subseteq SlaveOfs
  <2>1. old.promoted \in Instances /\ old.slaves \subseteq Instances
    BY <1>2 DEF Good, Unsaved, Shape, Promotion
  <2> HIDE DEF best, old
  <2>2. \A a \in best : SlaveOf(a, old.promoted) \in SlaveOfs
    BY <1>3, <2>1 DEF SlaveOf, SlaveOfs, Addresses
  <2>3. QED BY <2>2 DEF GoodResult
<1>5. [p EXCEPT !.st = new, !.send = send].st = new
      /\ [p EXCEPT !.st = new, !.send = send].send = send
  <2> HIDE DEF new, send
  <2>1. QED OBVIOUS
<1> HIDE DEF f, best, send
<1>6. /\ Shape(new, n) /\ new.sent = sent /\ new.inprog = old.inprog
      /\ new.done = old.done /\ new.failover_state = f
      /\ new.slaves = old.slaves /\ new.promoted = old.promoted
      /\ new.addr = old.addr /\ new.disk = old.disk /\ new.peer = old.peer
  <2> HIDE DEF old, sent
  <2>1. QED BY <1>2 DEF Good, Unsaved, Shape, Fields
<1> HIDE DEF new, old
<1>7. Promotion(new)
  BY <1>2, <1>3, <1>6 DEF Good, Unsaved, Promotion, States
<1>8. Bounded(new)
  <2>1. CASE f = "UPDATE_CONFIG"
    BY <1>6, <2>1 DEF Bounded
  <2>2. CASE f = "RECONF_SLAVES" /\ best = {}
    <3>1. new.sent = old.sent
      BY <1>6, <2>2
    <3>2. QED BY <1>2, <1>6, <3>1 DEF Bounded, Good, Unsaved
  <2>3. QED BY <1>3, <2>1, <2>2
<1>9. Announced(new)
  BY <1>2, <1>3, <1>6 DEF Good, Announced, sentinelGetCurrentMasterAddress
<1>10. QED BY <1>1, <1>2, <1>4, <1>5, <1>6, <1>7, <1>8, <1>9 DEF GoodResult, Good, Unsaved

\* Reconfiguring the slaves.
LEMMA ReconfGood ==
    ASSUME NEW st, NEW n, Good(st, n), st.failover_state = "RECONF_SLAVES",
           NEW r \in sentinelFailoverReconfNextSlave(st)
    PROVE  GoodResult(r, st, n)
<1>1. PICK p, away, down, over :
        /\ over \in BOOLEAN
        /\ r = sentinelFailoverDetectEnd(p, away, down, over)
        /\ \/ p = Result(st)
           \/ \E v, late :
                /\ v \in SUBSET Unfinished(st)
                /\ p = ReconfLoop(st, v, late, away)
                /\ \/ Cardinality(p.send) = ParallelSyncs - InProgress(st)
                   \/ Cardinality(p.send) < ParallelSyncs - InProgress(st)
  BY DEF sentinelFailoverReconfNextSlave
<1>2. CASE p = Result(st)
  <2>1. GoodResult(p, st, n) /\ p.st = st /\ DOMAIN p = {"st", "send", "won"}
    BY <1>2, QuietResult DEF Result
  <2>2. QED BY <1>1, <2>1, DetectEndGood
<1>3. ASSUME NEW v \in SUBSET Unfinished(st), NEW late, p = ReconfLoop(st, v, late, away),
             \/ Cardinality(p.send) = ParallelSyncs - InProgress(st)
             \/ Cardinality(p.send) < ParallelSyncs - InProgress(st)
      PROVE  GoodResult(r, st, n)
  <2>1. /\ GoodResult(p, st, n) /\ p.st.failover_state = "RECONF_SLAVES"
        /\ DOMAIN p = {"st", "send", "won"}
    BY <1>3, LoopGood
  <2>2. QED BY <1>1, <2>1, DetectEndGood
<1>4. QED BY <1>1, <1>2, <1>3

\* The state machine as a whole.
LEMMA StateMachineGood ==
    ASSUME NEW s \in Sentinels, NEW st, NEW n, n <= MaxEvents, n \in Nat, Good(st, n),
           NEW r \in sentinelFailoverStateMachine(s, st)
    PROVE  GoodResult(r, st, n)
<1>1. CASE st.failover_state = "WAIT_START"
  BY <1>1, WaitStartGood DEF sentinelFailoverStateMachine
<1>2. CASE st.failover_state = "SELECT_SLAVE"
  BY <1>2, PromotionStatesGood DEF sentinelFailoverStateMachine
<1>3. CASE st.failover_state = "SEND_SLAVEOF_NOONE"
  BY <1>3, PromotionStatesGood DEF sentinelFailoverStateMachine
<1>4. CASE st.failover_state = "WAIT_PROMOTION"
  BY <1>4, PromotionStatesGood DEF sentinelFailoverStateMachine
<1>5. CASE st.failover_state = "RECONF_SLAVES"
  BY <1>5, ReconfGood DEF sentinelFailoverStateMachine
<1>6. CASE st.failover_state \in {"NONE", "UPDATE_CONFIG"}
  <2>1. r = Result(st)
    BY <1>6 DEF sentinelFailoverStateMachine
  <2>2. QED BY <2>1, QuietResult
<1>7. QED BY <1>1, <1>2, <1>3, <1>4, <1>5, <1>6 DEF Good, Unsaved, Promotion, States

\* The end of a timer leaves no failover that is over.
LEMMA TimerEndGood ==
    ASSUME NEW st, NEW n, Good(st, n), NEW old
    PROVE  LET new == sentinelFailoverSwitchToPromotedSlave(ForgetReplies(st, old))
           IN /\ Good(new, n) /\ new.failover_state # "UPDATE_CONFIG"
              /\ DOMAIN new.peer = DOMAIN st.peer
<1> DEFINE peer == [t \in DOMAIN st.peer |->
                      IF t \in old THEN [st.peer[t] EXCEPT !.leader = NoOne] ELSE st.peer[t]]
           new == [st EXCEPT !.peer = peer]
<1>1. ForgetReplies(st, old) = new
  BY DEF ForgetReplies
<1>2. /\ DOMAIN peer = DOMAIN st.peer
      /\ \A t \in DOMAIN peer : DOMAIN peer[t] = PeerFields /\ peer[t].leader \in Leaders
  BY DEF Good, Unsaved, Shape, PeerFields, Leaders
<1> HIDE DEF peer
<1>3. Shape(new, n) /\ Promotion(new) /\ Bounded(new) /\ new.peer = peer
  BY <1>2 DEF Good, Unsaved, Shape, Fields, Promotion, Bounded
<1>4. Announced(new)
  BY DEF Good, Unsaved, Shape, Fields, Announced, sentinelGetCurrentMasterAddress
<1> HIDE DEF new
<1>5. Good(new, n)
  BY <1>3, <1>4 DEF Good, Unsaved
<1>6. CASE new.failover_state = "UPDATE_CONFIG"
  <2> DEFINE addr == IF new.promoted # NoOne THEN new.promoted ELSE new.addr
             to == sentinelResetMasterAndChangeAddress(new, addr)
  <2>1. addr \in Instances
    BY <1>5 DEF Good, Unsaved, Shape, Promotion
  <2>2. sentinelFailoverSwitchToPromotedSlave(new) = to
    BY <1>6 DEF sentinelFailoverSwitchToPromotedSlave
  <2> HIDE DEF addr
  <2>3. Good(to, n) /\ to.failover_state = "NONE" /\ to.peer = new.peer
    BY <1>3, <2>1, ChangeAddressGood
  <2>4. QED BY <1>1, <1>2, <1>3, <2>2, <2>3
<1>7. CASE new.failover_state # "UPDATE_CONFIG"
  BY <1>1, <1>2, <1>3, <1>5, <1>7 DEF sentinelFailoverSwitchToPromotedSlave
<1>8. QED BY <1>6, <1>7

\* A Sentinel that is started again announces what its file says.
LEMMA RestartGood ==
    ASSUME NEW st, NEW n \in Nat, NEW k \in 0..n, Good(st, n)
    PROVE  LET new == sentinelHandleConfiguration(st.disk, k, st.peer)
           IN /\ Good(new, n) /\ new.failover_state = "NONE"
              /\ DOMAIN new.peer = DOMAIN st.peer
<1> DEFINE new == sentinelHandleConfiguration(st.disk, k, st.peer)
           peer == [t \in DOMAIN st.peer |-> NoVote(st.peer[t].runid)]
<1>1. /\ DOMAIN peer = DOMAIN st.peer
      /\ \A t \in DOMAIN peer : DOMAIN peer[t] = PeerFields /\ peer[t].leader \in Leaders
  BY DEF NoVote, PeerFields, Leaders
<1>2. /\ DOMAIN new = Fields /\ new.disk = st.disk /\ new.runid = k
      /\ new.current_epoch \in {st.disk.current_epoch, st.disk.config_epoch}
      /\ new.config_epoch = st.disk.config_epoch
      /\ new.leader_epoch = st.disk.leader_epoch /\ new.leader = NoOne
      /\ new.failover_epoch = 0 /\ new.peer = peer
  BY ConfigurationFields
<1>3. /\ new.addr = st.disk.addr /\ new.slaves = st.disk.slaves
      /\ new.failover_state = "NONE" /\ new.promoted = NoOne
      /\ new.sent = {} /\ new.inprog = {} /\ new.done = {}
  BY DEF sentinelHandleConfiguration
<1> HIDE DEF new, peer
<1>4. Shape(new, n)
  BY <1>1, <1>2, <1>3, ConstantsAssumption DEF Good, Unsaved, Shape, Leaders, Epochs
<1>5. Promotion(new) /\ Bounded(new)
  BY <1>3, NoneBounded DEF Promotion, States
<1>6. Announced(new)
  BY <1>2, <1>3 DEF Announced, sentinelGetCurrentMasterAddress
<1>7. QED BY <1>1, <1>2, <1>3, <1>4, <1>5, <1>6 DEF Good, Unsaved, new

\* The promotion is saved with the address it announces.
LEMMA PromotedGood ==
    ASSUME NEW st, NEW n, Good(st, n), st.failover_state = "WAIT_PROMOTION"
    PROVE  LET new == Promoted(st)
           IN /\ Good(new, n) /\ new.failover_state = "RECONF_SLAVES"
              /\ new.peer = st.peer
<1> DEFINE new == [st EXCEPT !.config_epoch = st.failover_epoch,
                             !.failover_state = "RECONF_SLAVES"]
<1>1. Promoted(st) = sentinelFlushConfig(new)
  BY DEF Promoted
<1>2. /\ Shape(new, n) /\ new.sent = {} /\ new.inprog = {} /\ new.done = st.done
      /\ new.slaves = st.slaves /\ new.promoted = st.promoted
      /\ new.failover_state = "RECONF_SLAVES" /\ new.peer = st.peer
  BY DEF Good, Unsaved, Shape, Promotion, Fields
<1> HIDE DEF new
<1>3. Unsaved(new, n)
  BY <1>2, NoneBounded DEF Good, Unsaved, Promotion, States
<1>4. /\ sentinelFlushConfig(new).failover_state = "RECONF_SLAVES"
      /\ sentinelFlushConfig(new).peer = st.peer
  BY <1>2 DEF sentinelFlushConfig, Shape, Fields
<1>5. QED BY <1>1, <1>3, <1>4, FlushGood

\* Slave a has moved on, or nothing has.
MovesOn(new, st, a) ==
    \E sent \in SUBSET st.sent,
       inprog \in SUBSET (st.inprog \cup (st.sent \cap {a})),
       done \in SUBSET (st.done \cup {a}) :
         /\ sent \cap inprog \subseteq st.inprog
         /\ new = [st EXCEPT !.sent = sent, !.inprog = inprog, !.done = done]

\* An INFO that moves a slave on leaves no more of them in progress.
LEMMA ProgressGood ==
    ASSUME NEW st, NEW n, Good(st, n), NEW a \in st.slaves, NEW new, MovesOn(new, st, a)
    PROVE  Good(new, n) /\ new.failover_state = st.failover_state /\ new.peer = st.peer
<1>0. PICK sent \in SUBSET st.sent,
           inprog \in SUBSET (st.inprog \cup (st.sent \cap {a})),
           done \in SUBSET (st.done \cup {a}) :
         /\ sent \cap inprog \subseteq st.inprog
         /\ new = [st EXCEPT !.sent = sent, !.inprog = inprog, !.done = done]
  BY DEF MovesOn
<1>1. /\ Shape(new, n) /\ new.sent = sent /\ new.inprog = inprog /\ new.done = done
      /\ new.slaves = st.slaves /\ new.promoted = st.promoted
      /\ new.failover_state = st.failover_state
      /\ new.addr = st.addr /\ new.disk = st.disk /\ new.peer = st.peer
  BY <1>0 DEF Good, Unsaved, Shape, Fields
<1>2. Promotion(new)
  BY <1>1 DEF Good, Unsaved, Promotion
<1>3. Bounded(new)
  <2>1. sent \cup inprog \in SUBSET (st.sent \cup st.inprog)
    OBVIOUS
  <2>2. IsFiniteSet(st.slaves)
    BY ConstantsAssumption, FS_Subset DEF Good, Unsaved, Shape
  <2>3. IsFiniteSet(st.sent \cup st.inprog)
    <3>1. st.sent \cup st.inprog \in SUBSET st.slaves
      BY DEF Good, Unsaved, Promotion
    <3>2. QED BY <2>2, <3>1, FS_Subset
  <2>4. /\ Cardinality(sent \cup inprog) <= Cardinality(st.sent \cup st.inprog)
        /\ Cardinality(sent \cup inprog) \in Nat
        /\ Cardinality(st.sent \cup st.inprog) \in Nat
    BY <2>1, <2>3, FS_Subset, FS_CardinalityType
  <2>5. ASSUME st.failover_state # "UPDATE_CONFIG"
        PROVE  /\ Cardinality(st.sent \cup st.inprog) <= ParallelSyncs
               /\ st.promoted \notin sent \cup inprog /\ sent \cap inprog = {}
    <3>1. sent \cap inprog \subseteq st.sent \cap st.inprog
      BY <1>0
    <3>2. QED BY <2>1, <2>5, <3>1 DEF Good, Unsaved, Bounded
  <2>6. Cardinality(st.sent \cup st.inprog) <= ParallelSyncs
          => Cardinality(sent \cup inprog) <= ParallelSyncs
    BY <2>4, ConstantsAssumption
  <2>7. QED BY <1>1, <2>5, <2>6 DEF Bounded
<1>4. Announced(new)
  BY <1>1 DEF Good, Announced, sentinelGetCurrentMasterAddress
<1>5. QED BY <1>1, <1>2, <1>3, <1>4 DEF Good, Unsaved

\* A step that makes one Sentinel into another good one.
LEMMA OneGoodStep ==
    ASSUME ConfigInv, NEW s \in Sentinels, NEW new, sn' = [sn EXCEPT ![s] = new],
           events' \in 0..MaxEvents, events <= events',
           Good(new, events'), DOMAIN new.peer = DOMAIN sn[s].peer,
           new.failover_state # "UPDATE_CONFIG",
           \A m \in net' : /\ m.caller \in Sentinels /\ m.callee \in Peers(m.caller)
                           /\ m.epoch \in Epochs /\ m.leader \in Leaders,
           redis' = redis,
           \A c \in commands' : c \in commands \/ c \in SlaveOfs
    PROVE  ConfigInv'
<1>1. /\ DOMAIN sn' = Sentinels /\ sn'[s] = new
      /\ \A t \in Sentinels : t # s => sn'[t] = sn[t]
  BY DEF ConfigInv
<1>2. ASSUME NEW t \in Sentinels
      PROVE  Good(sn[t], events')
  BY ConstantsAssumption DEF ConfigInv, Good, Unsaved, Shape
<1>3. \A t \in Sentinels : /\ Good(sn'[t], events') /\ DOMAIN sn'[t].peer = Peers(t)
                           /\ sn'[t].failover_state # "UPDATE_CONFIG"
  BY <1>1, <1>2 DEF ConfigInv
<1>4. \A c \in commands' : c.to \in Instances /\ c.of \in Addresses
  BY DEF ConfigInv, SlaveOfs
<1>5. QED BY <1>1, <1>3, <1>4 DEF ConfigInv

\* The timer.
LEMMA TimerGood ==
    ASSUME ConfigInv, NEW s \in Sentinels, sentinelHandleRedisInstance(s)
    PROVE  ConfigInv'
<1>1. PICK start \in BOOLEAN, asked \in SUBSET Peers(s), old \in SUBSET Peers(s) :
        /\ start => sn[s].failover_state = "NONE" /\ sn[s].current_epoch < MaxEpoch
        /\ LET st == IF start THEN sentinelStartFailover(sn[s]) ELSE sn[s]
           IN \E r \in sentinelFailoverStateMachine(s, st) :
                /\ sentinelAskMasterStateToOtherSentinels(s,
                       IF start THEN st ELSE r.st, asked)
                /\ sn' = [sn EXCEPT ![s] = sentinelFailoverSwitchToPromotedSlave(
                                               ForgetReplies(r.st, old))]
                /\ Send(r.send)
  BY DEF sentinelHandleRedisInstance
<1>0. redis' = redis /\ events' = events
  BY DEF sentinelHandleRedisInstance
<1> DEFINE st == IF start THEN sentinelStartFailover(sn[s]) ELSE sn[s]
<1>2. /\ Good(sn[s], events) /\ events \in Nat /\ events <= MaxEvents
      /\ events \in 0..MaxEvents
  BY ConstantsAssumption DEF ConfigInv
<1>3. Good(st, events) /\ st.peer = sn[s].peer
  BY <1>1, <1>2, StartGood
<1>4. PICK r \in sentinelFailoverStateMachine(s, st) :
        /\ sentinelAskMasterStateToOtherSentinels(s, IF start THEN st ELSE r.st, asked)
        /\ sn' = [sn EXCEPT ![s] = sentinelFailoverSwitchToPromotedSlave(
                                      ForgetReplies(r.st, old))]
        /\ Send(r.send)
  BY <1>1
<1> HIDE DEF st
<1>5. Good(r.st, events) /\ r.st.peer = st.peer /\ r.send \subseteq SlaveOfs
  BY <1>2, <1>3, StateMachineGood DEF GoodResult
<1> DEFINE new == sentinelFailoverSwitchToPromotedSlave(ForgetReplies(r.st, old))
           asker == IF start THEN st ELSE r.st
<1>6. /\ Good(new, events) /\ new.failover_state # "UPDATE_CONFIG"
      /\ DOMAIN new.peer = DOMAIN sn[s].peer
  BY <1>3, <1>5, TimerEndGood
<1>7. sn' = [sn EXCEPT ![s] = new]
  BY <1>4
<1>8. asker.current_epoch \in Epochs /\ <<s, asker.runid>> \in Leaders
  BY <1>2, <1>3, <1>5, ConstantsAssumption
     DEF Good, Unsaved, Shape, Leaders, RunIds
<1>9. net' = net \cup {[type |-> "ask", caller |-> s, callee |-> t,
                        addr |-> asker.addr, epoch |-> asker.current_epoch,
                        leader |-> <<s, asker.runid>>] : t \in asked}
  BY <1>4 DEF sentinelAskMasterStateToOtherSentinels
<1> HIDE DEF new, asker
<1>10. \A m \in net' : /\ m.caller \in Sentinels /\ m.callee \in Peers(m.caller)
                       /\ m.epoch \in Epochs /\ m.leader \in Leaders
  <2>1. ASSUME NEW m \in net', m \notin net
        PROVE  /\ m.caller = s /\ m.callee \in asked
               /\ m.epoch = asker.current_epoch /\ m.leader = <<s, asker.runid>>
    BY <1>9, <2>1
  <2>2. asked \subseteq Peers(s)
    OBVIOUS
  <2>3. QED BY <1>8, <2>1, <2>2 DEF ConfigInv
<1>11. commands' = commands \cup r.send
  BY <1>4 DEF Send
<1>12. \A c \in commands' : c \in commands \/ c \in SlaveOfs
  BY <1>5, <1>11
<1>13. events' \in 0..MaxEvents /\ events <= events' /\ Good(new, events')
  BY <1>0, <1>2, <1>6
<1>14. QED BY <1>0, <1>6, <1>7, <1>10, <1>12, <1>13, OneGoodStep

\* HELLO messages.
LEMMA HelloGood ==
    ASSUME ConfigInv, NEW s \in Sentinels, NEW t \in Sentinels,
           sentinelProcessHelloMessage(s, t)
    PROVE  ConfigInv'
<1> DEFINE h == sn[t]
           addr == sentinelGetCurrentMasterAddress(h)
           peer == [sn[s].peer EXCEPT ![t] = NoVote(h.runid)]
           renewed == [sn[s] EXCEPT !.peer = peer]
           known == IF sn[s].peer[t].runid # h.runid
                    THEN sentinelFlushConfig(renewed) ELSE sn[s]
           raised == [known EXCEPT !.current_epoch = h.current_epoch]
           seen == IF h.current_epoch > known.current_epoch
                   THEN sentinelFlushConfig(raised) ELSE known
           newer == [seen EXCEPT !.config_epoch = h.config_epoch]
           conf == IF seen.config_epoch < h.config_epoch THEN newer ELSE seen
           new == IF seen.config_epoch < h.config_epoch /\ addr # seen.addr
                  THEN sentinelResetMasterAndChangeAddress(conf, addr) ELSE conf
           Fit(x) == /\ x.failover_state # "UPDATE_CONFIG"
                     /\ DOMAIN x.peer = DOMAIN sn[s].peer
<1>1. /\ sn' = [sn EXCEPT ![s] = new] /\ net' \subseteq net
      /\ UNCHANGED <<redis, commands, events>>
  BY DEF sentinelProcessHelloMessage
<1>2. Good(h, events) /\ Good(sn[s], events) /\ Fit(sn[s])
  BY DEF ConfigInv
<1>3. addr \in Instances
  BY <1>2 DEF Good, Unsaved, Shape, Announced
<1>4. /\ DOMAIN peer = DOMAIN sn[s].peer
      /\ \A u \in DOMAIN peer : peer[u] = sn[s].peer[u] \/ peer[u] = NoVote(h.runid)
  OBVIOUS
<1>5. NoVote(h.runid).leader \in Leaders /\ DOMAIN NoVote(h.runid) = PeerFields
  BY DEF NoVote, PeerFields, Leaders
<1> HIDE DEF peer, h, addr
<1>6. ASSUME NEW x, DOMAIN x = Fields, Fit(x)
      PROVE  Fit(sentinelFlushConfig(x))
  BY <1>6 DEF sentinelFlushConfig, Fields
<1>7. Unsaved(renewed, events) /\ Fit(renewed) /\ DOMAIN renewed = Fields
  <2>1. Shape(renewed, events) /\ renewed.peer = peer
    BY <1>2, <1>4, <1>5 DEF Good, Unsaved, Shape, Fields
  <2>2. Promotion(renewed) /\ Bounded(renewed)
    BY <1>2 DEF Good, Unsaved, Shape, Fields, Promotion, Bounded
  <2>3. renewed.failover_state = sn[s].failover_state
    BY <1>2 DEF Good, Unsaved, Shape, Fields
  <2> HIDE DEF renewed
  <2>4. QED BY <1>2, <1>4, <2>1, <2>2, <2>3 DEF Unsaved, Shape
<1> HIDE DEF renewed
<1>8. Good(known, events) /\ Fit(known)
  BY <1>2, <1>6, <1>7, FlushGood
<1> HIDE DEF known
<1>9. Unsaved(raised, events) /\ Fit(raised) /\ DOMAIN raised = Fields
  BY <1>2, <1>8 DEF Good, Unsaved, Shape, Fields, Promotion, Bounded
<1> HIDE DEF raised
<1>10. Good(seen, events) /\ Fit(seen)
  BY <1>6, <1>8, <1>9, FlushGood
<1> HIDE DEF seen
<1>11. Good(newer, events) /\ Fit(newer)
  <2>1. Unsaved(newer, events) /\ Fit(newer)
    BY <1>2, <1>10 DEF Good, Unsaved, Shape, Fields, Promotion, Bounded
  <2>2. Announced(newer)
    BY <1>10 DEF Good, Unsaved, Shape, Fields, Announced, sentinelGetCurrentMasterAddress
  <2>3. QED BY <2>1, <2>2 DEF Good
<1> HIDE DEF newer
<1>12. Good(conf, events) /\ Fit(conf)
  BY <1>10, <1>11
<1> HIDE DEF conf
<1>13. Good(new, events) /\ Fit(new)
  BY <1>3, <1>12, ChangeAddressGood DEF Good, Unsaved
<1> HIDE DEF new
<1>14. events \in 0..MaxEvents /\ events <= events
  BY ConstantsAssumption DEF ConfigInv
<1>15. QED BY <1>1, <1>13, <1>14, OneGoodStep DEF ConfigInv

\* A vote that is asked for, and its reply.
LEMMA AskGood ==
    ASSUME ConfigInv, NEW m \in net, is_master_down_by_addr(m)
    PROVE  ConfigInv'
<1> DEFINE t == m.callee
           known == sn[t].addr = m.addr
           new == IF known THEN sentinelVoteLeader(sn[t], m.epoch, m.leader) ELSE sn[t]
           reply == [type |-> "reply", caller |-> m.caller, callee |-> t,
                     leader |-> IF known THEN new.leader ELSE NoOne,
                     epoch |-> IF known THEN new.leader_epoch ELSE 0]
<1>1. /\ sn' = [sn EXCEPT ![t] = new] /\ net' = (net \ {m}) \cup {reply}
      /\ UNCHANGED <<redis, commands, events>>
  BY DEF is_master_down_by_addr
<1>2. /\ t \in Peers(m.caller) /\ t \in Sentinels /\ m.caller \in Sentinels
      /\ m.epoch \in Epochs /\ m.leader \in Leaders
      /\ Good(sn[t], events) /\ sn[t].failover_state # "UPDATE_CONFIG"
      /\ events \in 0..MaxEvents /\ events <= events
  BY ConstantsAssumption DEF ConfigInv, Peers
<1>3. /\ Good(new, events) /\ new.failover_state # "UPDATE_CONFIG"
      /\ DOMAIN new.peer = DOMAIN sn[t].peer
  BY <1>2, VoteGood
<1>4. /\ reply.caller = m.caller /\ reply.callee = t
      /\ reply.leader \in {new.leader, NoOne} /\ reply.epoch \in {new.leader_epoch, 0}
  OBVIOUS
<1> HIDE DEF new, reply, t
<1>5. reply.leader \in Leaders /\ reply.epoch \in Epochs
  BY <1>3, <1>4, ConstantsAssumption DEF Good, Unsaved, Shape, Leaders, Epochs
<1>6. QED BY <1>1, <1>2, <1>3, <1>4, <1>5, OneGoodStep DEF ConfigInv

\* A reply that is taken over.
LEMMA ReplyGood ==
    ASSUME ConfigInv, NEW m \in net, sentinelReceiveIsMasterDownReply(m)
    PROVE  ConfigInv'
<1> DEFINE s == m.caller
           entry == [sn[s].peer[m.callee] EXCEPT !.leader = m.leader,
                                                 !.leader_epoch = m.epoch]
           peer == [sn[s].peer EXCEPT ![m.callee] = entry]
           new == [sn[s] EXCEPT !.peer = peer]
<1>1. /\ s \in Sentinels /\ m.callee \in DOMAIN sn[s].peer /\ m.leader \in Leaders
      /\ Good(sn[s], events) /\ sn[s].failover_state # "UPDATE_CONFIG"
      /\ events \in 0..MaxEvents /\ events <= events
  BY ConstantsAssumption DEF ConfigInv
<1>2. net' \subseteq net /\ UNCHANGED <<redis, commands, events>>
  BY DEF sentinelReceiveIsMasterDownReply
<1>3. sn' = sn \/ sn' = [sn EXCEPT ![s] = new]
  BY <1>1 DEF sentinelReceiveIsMasterDownReply, ConfigInv
<1>4. CASE sn' = sn
  BY <1>2, <1>4 DEF ConfigInv
<1>5. CASE sn' = [sn EXCEPT ![s] = new]
  <2>1. DOMAIN entry = PeerFields /\ entry.leader \in Leaders
    BY <1>1 DEF Good, Unsaved, Shape, PeerFields
  <2> HIDE DEF entry
  <2>2. /\ DOMAIN peer = DOMAIN sn[s].peer
        /\ \A u \in DOMAIN peer : peer[u] = sn[s].peer[u] \/ peer[u] = entry
    OBVIOUS
  <2> HIDE DEF peer, s
  <2>3. Shape(new, events) /\ new.peer = peer
    BY <1>1, <2>1, <2>2 DEF Good, Unsaved, Shape, Fields
  <2>4. /\ Promotion(new) /\ Bounded(new) /\ Announced(new)
        /\ new.failover_state = sn[s].failover_state
    BY <1>1 DEF Good, Unsaved, Shape, Fields, Promotion, Bounded, Announced,
                sentinelGetCurrentMasterAddress
  <2> HIDE DEF new
  <2>5. QED BY <1>1, <1>2, <1>5, <2>2, <2>3, <2>4, OneGoodStep
            DEF Good, Unsaved, ConfigInv
<1>6. QED BY <1>3, <1>4, <1>5

\* INFO of a slave.
LEMMA SlaveInfoGood ==
    ASSUME ConfigInv, NEW s \in Sentinels, NEW a \in Instances,
           sentinelRefreshSlaveInfo(s, a)
    PROVE  ConfigInv'
<1> DEFINE st == sn[s]
           isMaster == redis[a] = NoOne
           promotes == /\ isMaster /\ a = st.promoted
                       /\ st.failover_state = "WAIT_PROMOTION"
           inprog == ~isMaster /\ a \in st.sent /\ redis[a] = st.promoted
           done(up) == ~isMaster /\ up /\ (inprog \/ a \in st.inprog)
           Sent == IF inprog THEN st.sent \ {a} ELSE st.sent
           InProg(up) == IF done(up) THEN st.inprog \ {a}
                         ELSE IF inprog THEN st.inprog \cup {a} ELSE st.inprog
           Done(up) == IF done(up) THEN st.done \cup {a} ELSE st.done
<1>1. PICK sane \in BOOLEAN, up \in BOOLEAN :
        /\ sn' = [sn EXCEPT ![s] =
                    IF promotes THEN Promoted(st)
                    ELSE [st EXCEPT !.sent = Sent, !.inprog = InProg(up), !.done = Done(up)]]
        /\ \E x \in {{}, {SlaveOf(a, st.addr)}} : Send(x)
  BY DEF sentinelRefreshSlaveInfo
<1>2. /\ net' = net /\ redis' = redis /\ events' = events /\ a \in st.slaves
  BY DEF sentinelRefreshSlaveInfo
<1>3. /\ Good(st, events) /\ st.failover_state # "UPDATE_CONFIG"
      /\ events' \in 0..MaxEvents /\ events <= events'
  BY <1>2, ConstantsAssumption DEF ConfigInv
<1>4. \A c \in commands' : c \in commands \/ c \in SlaveOfs
  <2>1. SlaveOf(a, st.addr) \in SlaveOfs
    BY <1>3 DEF Good, Unsaved, Shape, SlaveOf, SlaveOfs, Addresses
  <2>2. QED BY <1>1, <2>1 DEF Send
<1>5. /\ Sent \subseteq st.sent /\ InProg(up) \subseteq st.inprog \cup (st.sent \cap {a})
      /\ Done(up) \subseteq st.done \cup {a} /\ Sent \cap InProg(up) \subseteq st.inprog
  OBVIOUS
<1>6. ASSUME NEW new, sn' = [sn EXCEPT ![s] = new], Good(new, events),
             new.failover_state # "UPDATE_CONFIG", new.peer = st.peer
      PROVE  ConfigInv'
  <2>1. \A m \in net' : /\ m.caller \in Sentinels /\ m.callee \in Peers(m.caller)
                        /\ m.epoch \in Epochs /\ m.leader \in Leaders
    BY <1>2 DEF ConfigInv
  <2>2. QED BY <1>2, <1>3, <1>4, <1>6, <2>1, OneGoodStep
<1>7. CASE promotes
  <2>1. Good(Promoted(st), events) /\ Promoted(st).peer = st.peer
        /\ Promoted(st).failover_state = "RECONF_SLAVES"
    BY <1>3, <1>7, PromotedGood
  <2>2. QED BY <1>1, <1>6, <1>7, <2>1
<1>8. CASE ~promotes
  <2> HIDE DEF Sent, InProg, Done, promotes, st
  <2> DEFINE new == [st EXCEPT !.sent = Sent, !.inprog = InProg(up), !.done = Done(up)]
  <2>0. MovesOn(new, st, a)
    BY <1>5 DEF MovesOn
  <2>1. sn' = [sn EXCEPT ![s] = new]
    BY <1>1, <1>8
  <2> HIDE DEF new
  <2>2. /\ Good(new, events) /\ new.failover_state = st.failover_state
        /\ new.peer = st.peer
    BY <1>2, <1>3, <2>0, ProgressGood
  <2>3. QED BY <1>3, <1>6, <2>1, <2>2
<1>9. QED BY <1>7, <1>8

\* The other steps of a Sentinel.
LEMMA OtherGood ==
    ASSUME ConfigInv, NEW s \in Sentinels,
           \/ sentinelRefreshMasterInfo(s)
           \/ SentinelFailover(s)
           \/ FailoverOfOther(s)
           \/ Restart(s)
    PROVE  ConfigInv'
<1>1. /\ Good(sn[s], events) /\ sn[s].failover_state # "UPDATE_CONFIG"
      /\ events \in Nat /\ events \in 0..MaxEvents
  BY ConstantsAssumption DEF ConfigInv
<1>2. /\ net' \subseteq net /\ redis' = redis /\ commands' = commands
      /\ events' \in 0..MaxEvents /\ events <= events'
  BY <1>1, ConstantsAssumption DEF sentinelRefreshMasterInfo, SentinelFailover,
         FailoverOfOther, Restart, Event
<1>3. ASSUME NEW st, Good(st, events)
      PROVE  Good(st, events')
  BY <1>1, <1>2, <1>3 DEF Good, Unsaved, Shape
<1>4. ASSUME NEW new, sn' = [sn EXCEPT ![s] = new], Good(new, events'),
             new.failover_state # "UPDATE_CONFIG", DOMAIN new.peer = DOMAIN sn[s].peer
      PROVE  ConfigInv'
  <2>1. \A m \in net' : /\ m.caller \in Sentinels /\ m.callee \in Peers(m.caller)
                        /\ m.epoch \in Epochs /\ m.leader \in Leaders
    BY <1>2 DEF ConfigInv
  <2>2. QED BY <1>2, <1>4, <2>1, OneGoodStep
<1>5. CASE sentinelRefreshMasterInfo(s)
  <2> DEFINE more == sn[s].slaves \cup
                       {a \in Instances \ {sn[s].addr} : redis[a] = sn[s].addr}
             new == [sn[s] EXCEPT !.slaves = more]
  <2>1. sn' = [sn EXCEPT ![s] = new]
    BY <1>5 DEF sentinelRefreshMasterInfo
  <2>2. sn[s].slaves \subseteq more /\ more \subseteq Instances
    BY <1>1 DEF Good, Unsaved, Shape
  <2> HIDE DEF more
  <2>3. /\ Shape(new, events) /\ new.sent = sn[s].sent /\ new.inprog = sn[s].inprog
        /\ new.done = sn[s].done /\ new.slaves = more /\ new.promoted = sn[s].promoted
        /\ new.failover_state = sn[s].failover_state
        /\ new.addr = sn[s].addr /\ new.disk = sn[s].disk /\ new.peer = sn[s].peer
    BY <1>1, <2>2 DEF Good, Unsaved, Shape, Fields
  <2> HIDE DEF new
  <2>4. Promotion(new) /\ Bounded(new)
    BY <1>1, <2>2, <2>3 DEF Good, Unsaved, Promotion, Bounded
  <2>5. Announced(new)
    BY <1>1, <2>3 DEF Good, Announced, sentinelGetCurrentMasterAddress
  <2>6. QED BY <1>1, <1>3, <1>4, <2>1, <2>3, <2>4, <2>5 DEF Good, Unsaved
<1>6. CASE SentinelFailover(s)
  <2> DEFINE old == sentinelStartFailover(sn[s])
             new == [old EXCEPT !.force = TRUE]
  <2>1. sn' = [sn EXCEPT ![s] = new]
    BY <1>6 DEF SentinelFailover
  <2>2. Good(old, events) /\ old.failover_state = "WAIT_START" /\ old.peer = sn[s].peer
    BY <1>1, <1>6, StartGood DEF SentinelFailover
  <2> HIDE DEF old
  <2>3. /\ Good(new, events) /\ new.failover_state = old.failover_state
        /\ new.peer = old.peer
    BY <2>2 DEF Good, Unsaved, Shape, Fields, Promotion, Bounded, Announced,
                sentinelGetCurrentMasterAddress
  <2> HIDE DEF new
  <2>4. QED BY <1>3, <1>4, <2>1, <2>2, <2>3
<1>7. CASE FailoverOfOther(s)
  <2> DEFINE e == sn[s].current_epoch + 1
             up == [sn[s] EXCEPT !.current_epoch = e]
             new == sentinelFlushConfig(up)
  <2>1. sn' = [sn EXCEPT ![s] = new]
    BY <1>7 DEF FailoverOfOther
  <2>2. e \in Epochs
    BY <1>1, <1>7, ConstantsAssumption DEF FailoverOfOther, Good, Unsaved, Shape, Epochs
  <2> HIDE DEF e
  <2>3. /\ Unsaved(up, events) /\ up.failover_state = sn[s].failover_state
        /\ up.peer = sn[s].peer /\ DOMAIN up = Fields
    BY <1>1, <2>2 DEF Good, Unsaved, Shape, Fields, Promotion, Bounded
  <2> HIDE DEF up
  <2>4. /\ new.failover_state = sn[s].failover_state /\ new.peer = sn[s].peer
    BY <2>3 DEF sentinelFlushConfig, Fields
  <2>5. QED BY <1>1, <1>3, <1>4, <2>1, <2>3, <2>4, FlushGood
<1>8. CASE Restart(s)
  <2> DEFINE k == sn[s].runid + 1
             new == sentinelHandleConfiguration(sn[s].disk, k, sn[s].peer)
  <2>1. sn' = [sn EXCEPT ![s] = new] /\ events' = events + 1
    BY <1>8 DEF Restart, Event
  <2>2. k \in 0..events' /\ events' \in Nat
    BY <1>1, <2>1 DEF Good, Unsaved, Shape
  <2> HIDE DEF k
  <2>3. /\ Good(new, events') /\ new.failover_state = "NONE"
        /\ DOMAIN new.peer = DOMAIN sn[s].peer
    BY <1>1, <1>3, <2>2, RestartGood
  <2> HIDE DEF new
  <2>4. QED BY <1>4, <2>1, <2>3
<1>9. QED BY <1>5, <1>6, <1>7, <1>8

\* The configuration of every Sentinel is good in every state.
LEMMA ConfigInvInductive == Spec => []ConfigInv
<1>1. Init => ConfigInv
  <2> SUFFICES ASSUME Init PROVE ConfigInv
    OBVIOUS
  <2>0. PICK slaves \in SUBSET (Instances \ {FirstMaster}) :
           /\ sn = [s \in Sentinels |->
                      sentinelHandleConfiguration(
                        [current_epoch |-> 0, config_epoch |-> 0, leader_epoch |-> 0,
                         slaves |-> slaves, addr |-> FirstMaster],
                        0, [t \in Peers(s) |-> NoVote(0)])]
           /\ redis = [a \in Instances |-> IF a \in slaves THEN FirstMaster ELSE NoOne]
    BY Zenon DEF Init
  <2> DEFINE disk == [current_epoch |-> 0, config_epoch |-> 0, leader_epoch |-> 0,
                      slaves |-> slaves, addr |-> FirstMaster]
             first(s) == [t \in Peers(s) |-> NoVote(0)]
             peer(s) == [t \in DOMAIN first(s) |-> NoVote(first(s)[t].runid)]
  <2>1. /\ DOMAIN sn = Sentinels /\ net = {} /\ commands = {} /\ events = 0
        /\ \A s \in Sentinels : sn[s] = sentinelHandleConfiguration(disk, 0, first(s))
    BY <2>0 DEF Init
  <2>2. redis \in [Instances -> Addresses]
    BY <2>0, ConstantsAssumption DEF Addresses
  <2>3. ASSUME NEW s \in Sentinels
        PROVE  /\ Good(sn[s], 0) /\ DOMAIN sn[s].peer = Peers(s)
               /\ sn[s].failover_state = "NONE"
    <3> DEFINE new == sentinelHandleConfiguration(disk, 0, first(s))
    <3>1. /\ DOMAIN peer(s) = Peers(s)
          /\ \A t \in DOMAIN peer(s) :
               DOMAIN peer(s)[t] = PeerFields /\ peer(s)[t].leader \in Leaders
      BY DEF NoVote, PeerFields, Leaders
    <3>2. /\ disk.current_epoch = 0 /\ disk.config_epoch = 0 /\ disk.leader_epoch = 0
          /\ disk.slaves \subseteq Instances /\ disk.addr \in Instances
      BY ConstantsAssumption
    <3> HIDE DEF first, disk
    <3>3. /\ DOMAIN new = Fields /\ new.disk = disk /\ new.runid = 0
          /\ new.current_epoch \in {disk.current_epoch, disk.config_epoch}
          /\ new.config_epoch = disk.config_epoch
          /\ new.leader_epoch = disk.leader_epoch /\ new.leader = NoOne
          /\ new.failover_epoch = 0 /\ new.peer = peer(s)
      BY ConfigurationFields
    <3>4. /\ new.addr = disk.addr /\ new.slaves = disk.slaves
          /\ new.failover_state = "NONE" /\ new.promoted = NoOne
          /\ new.sent = {} /\ new.inprog = {} /\ new.done = {}
      BY DEF sentinelHandleConfiguration
    <3> HIDE DEF new, peer
    <3>5. Shape(new, 0)
      BY <3>1, <3>2, <3>3, <3>4, ConstantsAssumption DEF Shape, Leaders, Epochs
    <3>6. Promotion(new) /\ Bounded(new)
      BY <3>4, NoneBounded DEF Promotion, States
    <3>7. Announced(new)
      BY <3>3, <3>4 DEF Announced, sentinelGetCurrentMasterAddress
    <3>8. sn[s] = new
      BY <2>1 DEF new
    <3>9. QED BY <3>1, <3>3, <3>4, <3>5, <3>6, <3>7, <3>8 DEF Good, Unsaved
  <2>4. 0 \in 0..MaxEvents
    BY ConstantsAssumption
  <2> HIDE DEF disk, first
  <2>5. QED BY <2>1, <2>2, <2>3, <2>4 DEF ConfigInv
<1>2. ConfigInv /\ [Next]_vars => ConfigInv'
  <2> SUFFICES ASSUME ConfigInv, [Next]_vars PROVE ConfigInv'
    OBVIOUS
  <2>1. ASSUME NEW s \in Sentinels, sentinelHandleRedisInstance(s) PROVE ConfigInv'
    BY <2>1, TimerGood
  <2>2. ASSUME NEW s \in Sentinels, NEW t \in Sentinels,
               sentinelProcessHelloMessage(s, t)
        PROVE  ConfigInv'
    BY <2>2, HelloGood
  <2>3. ASSUME NEW s \in Sentinels, NEW a \in Instances, sentinelRefreshSlaveInfo(s, a)
        PROVE  ConfigInv'
    BY <2>3, SlaveInfoGood
  <2>4. ASSUME NEW s \in Sentinels,
               \/ sentinelRefreshMasterInfo(s)
               \/ SentinelFailover(s)
               \/ FailoverOfOther(s)
               \/ Restart(s)
        PROVE  ConfigInv'
    BY <2>4, OtherGood
  <2>5. ASSUME NEW m \in net, is_master_down_by_addr(m) PROVE ConfigInv'
    BY <2>5, AskGood
  <2>6. ASSUME NEW m \in net, sentinelReceiveIsMasterDownReply(m) PROVE ConfigInv'
    BY <2>6, ReplyGood
  <2>7. ASSUME NEW m \in net, LinkBreaks(m) PROVE ConfigInv'
    BY <2>7 DEF LinkBreaks, ConfigInv
  <2>8. ASSUME NEW c \in commands, RedisSlaveOf(c) PROVE ConfigInv'
    BY <2>8 DEF RedisSlaveOf, ConfigInv
  <2>9. CASE UNCHANGED vars
    BY <2>9 DEF vars, ConfigInv
  <2>10. QED BY <2>1, <2>2, <2>3, <2>4, <2>5, <2>6, <2>7, <2>8, <2>9 DEF Next
<1>3. QED BY <1>1, <1>2, PTL DEF Spec

\* Every field of the Sentinels has its type: the epochs of sentinel.c stay in
\* their bounds and the flags of slaves are on slaves that exist.
THEOREM SentinelTypes == Spec => []TypeOK
<1>1. ConfigInv => TypeOK
  <2> SUFFICES ASSUME ConfigInv PROVE TypeOK
    OBVIOUS
  <2>1. ASSUME NEW s \in Sentinels
        PROVE  /\ {sn[s].current_epoch, sn[s].config_epoch, sn[s].leader_epoch,
                   sn[s].failover_epoch} \subseteq Epochs
               /\ sn[s].addr \in Instances /\ sn[s].promoted \in Addresses
               /\ sn[s].leader \in Leaders
               /\ sn[s].failover_state \in States \ {"UPDATE_CONFIG"}
               /\ sn[s].sent \cup sn[s].inprog \cup sn[s].done \subseteq sn[s].slaves
               /\ sn[s].slaves \subseteq Instances
               /\ \A t \in Peers(s) : sn[s].peer[t].leader \in Leaders
    BY DEF ConfigInv, Good, Unsaved, Shape, Promotion, Addresses
  <2>2. QED BY <2>1 DEF TypeOK, ConfigInv
<1>2. QED BY <1>1, ConfigInvInductive, PTL

\* The master a Sentinel announces is the one its file names: every function that
\* changes what sentinelGetCurrentMasterAddress returns ends in a rewrite.
THEOREM SavedBeforeAnnounced == Spec => []AnnouncedIsSaved
<1>1. ConfigInv => AnnouncedIsSaved
  BY DEF ConfigInv, Good, Announced, AnnouncedIsSaved
<1>2. QED BY <1>1, ConfigInvInductive, PTL

\* promoted_slave is a slave that exists whenever the state machine or an INFO is
\* to follow the pointer.
THEOREM NoDanglingPromotion == Spec => []PromotedSafe
<1>1. ConfigInv => PromotedSafe
  BY DEF ConfigInv, Good, Unsaved, Promotion, PromotedSafe
<1>2. QED BY <1>1, ConfigInvInductive, PTL

\* While the slaves are reconfigured no more than parallel_syncs of them are
\* marked as told or resynchronizing, the promoted one is not among them, and no
\* mark outlives its failover: sentinelFailoverReconfNextSlave tells no more than
\* there is room for, a slave whose SLAVEOF timed out uses up room when it is told
\* again, and what the end of a failover by timeout tells beyond parallel_syncs
\* loses its marks with the reset of the same timer.
THEOREM ParallelSyncsKept == Spec => []SyncsBounded
<1>1. ConfigInv => SyncsBounded
  <2> SUFFICES ASSUME ConfigInv, NEW s \in Sentinels
               PROVE  LET st == sn[s]
                          marked == st.sent \cup st.inprog
                      IN  /\ Cardinality(marked) <= ParallelSyncs
                          /\ st.promoted \notin marked /\ st.sent \cap st.inprog = {}
                          /\ marked # {} => st.failover_state = "RECONF_SLAVES"
    BY DEF SyncsBounded
  <2>1. Bounded(sn[s]) /\ Promotion(sn[s]) /\ sn[s].failover_state # "UPDATE_CONFIG"
    BY DEF ConfigInv, Good, Unsaved
  <2>2. QED BY <2>1 DEF Bounded, Promotion
<1>2. QED BY <1>1, ConfigInvInductive, PTL
=================================================================================
