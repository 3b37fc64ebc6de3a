------------------------- MODULE XploraClient_proofs -------------------------
(***************************************************************************)
(* Proofs about XploraClient, for any watches, functions, attempts and     *)
(* rounds.  The verdict of a call follows from counting: while a call runs *)
(* the server has applied no more copies than requests were lost.  That a  *)
(* poll returns fresh lists follows from what is left of a finished round: *)
(* a failure, nothing at all, or nothing more to store.                    *)
(***************************************************************************)
EXTENDS XploraClient, TLAPS

\* loadWatchLocation makes one attempt less.
Limit(kind) == IF kind = "location" THEN Attempts - 1 ELSE Attempts

\* While a call runs every copy on the server goes back to a lost request, and
\* every lost request to an attempt.
CallInv ==
  user.at \in Running =>
    /\ copies <= losses /\ ~doubt
    /\ user.at = "asking"  => losses < user.tries /\ user.tries <= Limit(user.kind)
    /\ user.at = "pausing" => losses <= user.tries /\ user.tries < Limit(user.kind)

\* A read that pauses has an attempt left.
ReadInv == \A s \in Reads : read[s].at = "pausing" => read[s].tries < Attempts

TypeInv == TypeOK /\ CallInv /\ ReadInv

-----------------------------------------------------------------------------
(* A call                                                                  *)

\* The call waits for the attempt that ends, and only a gateway leaves a doubt.
LEMMA ServedDoubt ==
  ASSUME TypeInv, NEW kinds, NEW a, Served(kinds, a)
  PROVE  /\ user.at = "asking" /\ user.at \in Running /\ user.kind \in kinds
         /\ doubt' \in BOOLEAN
         /\ doubt' => user.kind \in Mutations /\ a = "empty"
         /\ user.kind \in Mutations /\ a = "empty" => doubt'
         /\ UNCHANGED <<session, poll, read, stored, device>>
<1>1. user.at = "asking" /\ user.at \in Running /\ user.kind \in kinds
  BY DEF Served, Running
<1>2. doubt \in BOOLEAN /\ ~doubt
  BY <1>1, Zenon DEF TypeInv, TypeOK, CallInv
<1>3. CASE user.kind \in Mutations
  <2>1. doubt' = (a = "empty")
    BY <1>3, Zenon DEF Served
  <2>. QED
    BY <1>1, <1>3, <2>1, Zenon DEF Served
<1>4. CASE user.kind \notin Mutations
  BY <1>1, <1>2, <1>4, Zenon DEF Served
<1>. QED
  BY <1>3, <1>4, Zenon

\* An attempt that ends keeps the numbers of copies and losses in order.
LEMMA ServedCounts ==
  ASSUME TypeInv, NEW kinds, NEW a, Served(kinds, a)
  PROVE  /\ copies' \in Nat /\ losses' \in Nat
         /\ copies' <= 1 + losses' /\ losses' <= user.tries
         /\ a = "lost" => copies' <= losses'
         /\ a # "lost" => losses' = losses /\ losses' < user.tries
         /\ a \notin {"lost", "empty", "garbled", "data"} => copies' <= losses'
         /\ user.kind \notin Mutations => copies' <= losses' /\ losses' = losses
         /\ user.kind \in Mutations /\ a = "data" => copies' > 0
         /\ user.kind \in Mutations /\ a = "lost" => losses' > 0
<1>1. user.at = "asking" /\ user.at \in Running
  BY DEF Served, Running
<1>2. /\ copies \in Nat /\ losses \in Nat /\ user.tries \in Nat
      /\ copies <= losses /\ losses < user.tries
  BY <1>1, ClientAssumption DEF TypeInv, TypeOK, CallInv
<1>3. CASE user.kind \in Mutations
  <2>1. /\ copies' \in CASE a = "data" -> {copies + 1}
                         [] a \in {"lost", "empty", "garbled"} -> {copies, copies + 1}
                         [] OTHER -> {copies}
        /\ losses' = IF a = "lost" THEN losses + 1 ELSE losses
    BY <1>3 DEF Served
  <2>2. CASE a = "data"
    BY <1>2, <1>3, <2>1, <2>2
  <2>3. CASE a \in {"lost", "empty", "garbled"}
    BY <1>2, <1>3, <2>1, <2>3
  <2>4. CASE a \notin {"data", "lost", "empty", "garbled"}
    BY <1>2, <1>3, <2>1, <2>4
  <2>. QED
    BY <2>2, <2>3, <2>4
<1>4. CASE user.kind \notin Mutations
  <2>1. copies' = copies /\ losses' = losses
    BY <1>4 DEF Served
  <2>. QED
    BY <1>2, <1>4, <2>1
<1>. QED
  BY <1>3, <1>4

\* The type of the user's call.
TypeCall ==
  /\ user \in [kind : Kinds, at : Running \union CallEnds, tries : 0 .. Attempts]
  /\ copies \in 0 .. Attempts /\ losses \in 0 .. Attempts /\ doubt \in BOOLEAN

CallOK == TypeCall /\ CallInv /\ VerdictIsHonest

\* A call that ends tells the truth if it reports a success only for the data
\* of a mutation, and a refusal only of a mutation that had no data but an
\* answer that could be read.
LEMMA EndKeepsCall ==
  ASSUME TypeInv, NEW kinds, NEW a, NEW how \in CallEnds, Served(kinds, a), Ends(how),
         how \in {"done", "refused"} => kinds \subseteq Mutations,
         how = "done" => a = "data",
         how = "refused" => a \notin {"data", "garbled"}
  PROVE  CallOK'
<1>1. /\ user'.at = how /\ user'.at \notin Running
      /\ user' \in [kind : Kinds, at : Running \union CallEnds, tries : 0 .. Attempts]
  BY ClientAssumption DEF Ends, CallEnds, Running, Kinds
<1>2. user.tries \in Nat /\ user.tries <= Attempts
  BY ClientAssumption DEF TypeInv, TypeOK
<1>3. /\ copies' \in Nat /\ losses' \in Nat
      /\ copies' <= 1 + losses' /\ copies' <= Attempts /\ losses' <= Attempts
  BY <1>2, ServedCounts, ClientAssumption
<1>4. how = "done" => copies' > 0
  BY ServedCounts, ServedDoubt
<1>5. how = "refused" /\ losses' = 0 /\ ~doubt' => copies' = 0
  <2>. SUFFICES ASSUME how = "refused", losses' = 0, ~doubt' PROVE copies' = 0
    OBVIOUS
  <2>1. user.kind \in Mutations /\ a \notin {"data", "garbled"}
    BY ServedDoubt
  <2>2. a # "empty"
    BY <2>1, ServedDoubt
  <2>3. a # "lost"
    BY <2>1, ServedCounts
  <2>4. copies' <= losses' /\ copies' \in Nat
    BY <2>1, <2>2, <2>3, ServedCounts
  <2>. QED
    BY <2>4
<1>6. TypeCall'
  BY <1>1, <1>3, ServedDoubt, ClientAssumption DEF TypeCall
<1>7. CallInv'
  BY <1>1 DEF CallInv
<1>8. VerdictIsHonest'
  BY <1>1, <1>3, <1>4, <1>5, Zenon DEF VerdictIsHonest
<1>. QED
  BY <1>6, <1>7, <1>8 DEF CallOK

\* A call goes on only after a loss, or when it is no mutation.
LEMMA AgainKeepsCall ==
  ASSUME TypeInv, NEW kinds, NEW a, NEW where \in Running, NEW how, Served(kinds, a),
         Again(Limit(user.kind), where, how), user.tries # Limit(user.kind),
         kinds \intersect Mutations = {} \/ a = "lost"
  PROVE  CallOK'
<1>1. /\ user.at = "asking" /\ user.kind \in kinds /\ user.kind \in Kinds
      /\ user.tries \in Nat /\ user.tries < Limit(user.kind)
      /\ Limit(user.kind) \in Nat /\ Limit(user.kind) <= Attempts
  BY ServedDoubt, ClientAssumption DEF TypeInv, TypeOK, CallInv, Limit, Running
<1>2. user' = [user EXCEPT !.at = where, !.tries = IF where = "asking" THEN @ + 1 ELSE @]
  BY <1>1 DEF Again
<1>3. user \in [kind : Kinds, at : Running \union CallEnds, tries : 0 .. Attempts]
  BY DEF TypeInv, TypeOK
<1>4. /\ user'.kind = user.kind /\ user'.at = where
      /\ user'.tries = IF where = "asking" THEN user.tries + 1 ELSE user.tries
  BY <1>2, <1>3
<1>5. user' \in [kind : Kinds, at : Running \union CallEnds, tries : 0 .. Attempts]
  <2>1. (IF where = "asking" THEN user.tries + 1 ELSE user.tries) \in 0 .. Attempts
    BY <1>1, ClientAssumption
  <2>2. user' = [user EXCEPT !.at = where,
                             !.tries = IF where = "asking" THEN user.tries + 1 ELSE user.tries]
    BY <1>2
  <2>. QED
    BY <1>3, <2>1, <2>2
<1>6. ~doubt' /\ doubt' \in BOOLEAN
  BY ServedDoubt
<1>7. /\ copies' \in Nat /\ losses' \in Nat
      /\ copies' <= losses' /\ losses' <= user.tries /\ copies' <= 1 + losses'
  BY <1>1, ServedCounts
<1>8. TypeCall'
  BY <1>1, <1>5, <1>6, <1>7, ClientAssumption DEF TypeCall
<1>9. CallInv'
  <2>1. user'.at = "asking" => losses' < user'.tries /\ user'.tries <= Limit(user'.kind)
    BY <1>1, <1>4, <1>7
  <2>2. user'.at = "pausing" => losses' <= user'.tries /\ user'.tries < Limit(user'.kind)
    BY <1>1, <1>4, <1>7
  <2>. QED
    BY <1>6, <1>7, <2>1, <2>2, Zenon DEF CallInv
<1>10. VerdictIsHonest'
  <2>1. user'.at \notin {"done", "refused"}
    BY <1>4 DEF Running
  <2>. QED
    BY <1>7, <2>1, Zenon DEF VerdictIsHonest
<1>. QED
  BY <1>8, <1>9, <1>10 DEF CallOK

\* What a call makes of an answer.
LEMMA AnswerKeepsCall == ASSUME TypeInv, NEW a, CallAnswered(a) PROVE CallOK'
<1>. USE DEF CallEnds, Mutations, Running, CommandVerdict, Uncaught
<1>1. CASE ControlAnswered(a)
  <2>1. Served({"control"}, a) /\ user.kind = "control"
    BY <1>1, ServedDoubt DEF ControlAnswered
  <2>2. CASE a = "lost"
    <3>1. Again(Limit(user.kind), "pausing", "refused")
      BY <1>1, <2>1, <2>2 DEF ControlAnswered, Limit
    <3>. QED
      BY <2>1, <2>2, <3>1, EndKeepsCall, AgainKeepsCall DEF Again
  <2>3. CASE a # "lost"
    BY <1>1, <2>1, <2>3, EndKeepsCall DEF ControlAnswered
  <2>. QED
    BY <2>2, <2>3
<1>2. CASE CommandAnswered(a)
  BY <1>2, EndKeepsCall DEF CommandAnswered
<1>3. CASE SendAnswered(a)
  BY <1>3, EndKeepsCall DEF SendAnswered
<1>4. CASE FlagAnswered(a)
  BY <1>4, EndKeepsCall DEF FlagAnswered
<1>5. CASE MediaAnswered(a)
  BY <1>5, EndKeepsCall DEF MediaAnswered
<1>6. CASE FeedAnswered(a)
  BY <1>6, EndKeepsCall DEF FeedAnswered
<1>7. CASE ChatsAnswered(a)
  <2>1. Served({"chats"}, a) /\ Limit(user.kind) = Attempts
    BY <1>7, ServedDoubt DEF ChatsAnswered, Limit
  <2>2. CASE Ends("answered") \/ Ends("raised")
    BY <2>1, <2>2, EndKeepsCall
  <2>3. CASE Again(Attempts, "asking", "answered") \/ Again(Attempts, "pausing", "answered")
    BY <2>1, <2>3, EndKeepsCall, AgainKeepsCall DEF Again
  <2>. QED
    BY <1>7, <2>2, <2>3 DEF ChatsAnswered
<1>8. CASE LocationAnswered(a)
  <2>1. Served({"location"}, a) /\ Limit(user.kind) = Attempts - 1
    BY <1>8, ServedDoubt DEF LocationAnswered, Limit
  <2>2. CASE Again(Attempts - 1, "pausing", "answered")
    BY <2>1, <2>2, EndKeepsCall, AgainKeepsCall DEF Again
  <2>3. CASE Ends("answered") \/ Ends("crashed") \/ Ends("raised")
    BY <2>1, <2>3, EndKeepsCall
  <2>. QED
    BY <1>8, <2>2, <2>3 DEF LocationAnswered
<1>. QED
  BY <1>1, <1>2, <1>3, <1>4, <1>5, <1>6, <1>7, <1>8 DEF CallAnswered

\* A pause ends.
LEMMA PauseKeepsCall == ASSUME TypeInv, VerdictIsHonest, CallAgain PROVE CallOK'
<1>1. /\ user.at = "pausing" /\ user' = [user EXCEPT !.at = "asking", !.tries = @ + 1]
      /\ user \in [kind : Kinds, at : Running \union CallEnds, tries : 0 .. Attempts]
      /\ copies \in Nat /\ losses \in Nat /\ losses <= user.tries
      /\ user.tries < Limit(user.kind)
      /\ UNCHANGED <<copies, losses, doubt>>
  BY ClientAssumption DEF CallAgain, TypeInv, TypeOK, CallInv, Running
<1>2. /\ user'.at = "asking" /\ user'.tries = user.tries + 1 /\ user'.kind = user.kind
      /\ user.tries \in Nat /\ Limit(user.kind) \in Nat /\ Limit(user.kind) <= Attempts
  BY <1>1, ClientAssumption DEF Limit
<1>3. losses' < user'.tries /\ user'.tries <= Limit(user'.kind)
  BY <1>1, <1>2
<1>4. copies' <= losses' /\ ~doubt'
  BY <1>1, Zenon DEF TypeInv, CallInv, Running
<1>5. CallInv'
  BY <1>2, <1>3, <1>4 DEF CallInv
<1>6. TypeCall'
  <2>1. user' \in [kind : Kinds, at : Running \union CallEnds, tries : 0 .. Attempts]
    <3>1. user.tries + 1 \in 0 .. Attempts
      BY <1>1, <1>2, ClientAssumption
    <3>2. "asking" \in Running
      BY DEF Running
    <3>3. user' = [user EXCEPT !.at = "asking", !.tries = user.tries + 1]
      BY <1>1
    <3>. QED
      BY <1>1, <3>1, <3>2, <3>3
  <2>2. copies' \in 0 .. Attempts /\ losses' \in 0 .. Attempts
    BY <1>1 DEF TypeInv, TypeOK
  <2>3. doubt' \in BOOLEAN
    BY <1>1, Zenon DEF TypeInv, TypeOK
  <2>. QED
    BY <2>1, <2>2, <2>3, Zenon DEF TypeCall
<1>7. VerdictIsHonest'
  <2>1. user'.at \notin {"done", "refused"} /\ copies' <= 1 + losses'
    BY <1>1, <1>2, <1>3, <1>4
  <2>. QED
    BY <2>1, Zenon DEF VerdictIsHonest
<1>. QED
  BY <1>5, <1>6, <1>7 DEF CallOK

\* A call begins: of one of the kinds.
LEMMA CallKeepsCall == ASSUME TypeInv, NEW op \in Operations, UserCalls(op) PROVE CallOK'
<1>1. KindOf(op) \in Kinds
  BY DEF KindOf, Kinds, Operations, WatchCommands, Controls, Commands, Sends, Deletions, Asks,
         Media, Feeds, Chats, Locations
<1>2. /\ user'.kind = KindOf(op) /\ user'.at = "asking" /\ user'.tries = 1
      /\ user' \in [kind : Kinds, at : Running \union CallEnds, tries : 0 .. Attempts]
      /\ copies' = 0 /\ losses' = 0 /\ doubt' = FALSE
  BY <1>1, ClientAssumption DEF UserCalls, Running
<1>3. CallInv'
  BY <1>2, ClientAssumption DEF CallInv, Limit
<1>4. TypeCall'
  <2>1. 0 \in 0 .. Attempts /\ FALSE \in BOOLEAN
    BY ClientAssumption
  <2>. QED
    BY <1>2, <2>1, Zenon DEF TypeCall
<1>5. VerdictIsHonest'
  BY <1>2 DEF VerdictIsHonest
<1>. QED
  BY <1>3, <1>4, <1>5 DEF CallOK

-----------------------------------------------------------------------------
(* A poll                                                                  *)

\* No read of a round that has not begun, or has not listed its devices yet.
Unstarted ==
  \A s \in Reads : s[1] > round \/ (s[1] = round /\ phase = "listing") => read[s].at = "off"

\* A task has stored its watch after its reads.
Gathered ==
  \A r \in Rounds, w \in Watches :
    <<r, w>> \in stored => \A f \in Functions : read[<<r, w, f>>].at = "ready"

\* What the client has of a watch was stored by a task.
Written == \A w \in Watches : device[w] # 0 => <<device[w], w>> \in stored

\* A round that is over failed, or stored all its watches, or never began.
Finished ==
  \A r \in Rounds : r < round \/ (r = round /\ phase \in {"idle", "recovering"}) =>
    \/ Fails(r) # {}
    \/ \A w \in Watches : <<r, w>> \in stored
    \/ \A s \in Reads : s[1] = r => read[s].at = "off"

\* Once the latest round has stored a watch, only a failed one writes it again.
Newest ==
  \A w \in Watches : <<round, w>> \in stored =>
    device[w] = round \/ (device[w] # 0 /\ Fails(device[w]) # {})

\* A poll that returned has stored every watch.
Returned ==
  phase = "idle" /\ polled = "ok" => \A w \in Watches : <<round, w>> \in stored

FreshInv == Unstarted /\ Gathered /\ Written /\ Finished /\ Newest /\ Returned

TypePoll ==
  /\ session \in {"valid", "expired"}
  /\ round \in 0 .. MaxRounds /\ retried \in BOOLEAN
  /\ phase \in {"idle", "listing", "gathering", "recovering"}
  /\ polled \in {"none", "ok", "failed"}
  /\ read \in [Reads -> [at : {"off"} \union Running \union ReadEnds, tries : 0 .. Attempts]]
  /\ stored \subseteq Rounds \X Watches
  /\ device \in [Watches -> 0 .. MaxRounds]

PollOK == TypePoll /\ ReadInv

\* A round failed when one of its reads did.
LEMMA FailsIff ==
  ASSUME NEW r
  PROVE  Fails(r) # {} <=> \E s \in Reads : s[1] = r /\ read[s].at \in Uncaught
  BY DEF Fails

\* The same of the next state.
LEMMA FailsIffNext ==
  ASSUME NEW r
  PROVE  Fails(r)' # {} <=> \E s \in Reads : s[1] = r /\ read'[s].at \in Uncaught
  BY DEF Fails

\* A round that has failed stays so.
LEMMA FailsStays ==
  ASSUME NEW r, Fails(r) # {}, \A s \in Reads : read[s].at \in Uncaught => read'[s].at \in Uncaught
  PROVE  Fails(r)' # {}
  BY FailsIff, FailsIffNext

\* A round that has stored a watch has begun, and is past its listing.
LEMMA StoredBegan ==
  ASSUME TypePoll, Unstarted, NEW r \in Rounds, NEW w \in Watches,
         \A f \in Functions : read[<<r, w, f>>].at = "ready"
  PROVE  r <= round /\ ~(r = round /\ phase = "listing")
<1>1. PICK f \in Functions : TRUE
  BY ClientAssumption
<1>2. <<r, w, f>> \in Reads /\ read[<<r, w, f>>].at # "off"
  BY DEF Reads
<1>3. r \in Nat /\ round \in Nat
  BY ClientAssumption DEF TypePoll, Rounds
<1>. QED
  BY <1>2, <1>3 DEF Unstarted

\* A round begins.
LEMMA NewRoundFresh ==
  ASSUME TypePoll, FreshInv, NEW again, NewRound(again), phase \in {"idle", "recovering"},
         UNCHANGED <<read, stored, device>>
  PROVE  FreshInv'
<1>. USE DEF FreshInv
<1>1. round \in Nat /\ round' = round + 1 /\ phase' = "listing" /\ Rounds \subseteq Nat
  BY ClientAssumption DEF TypePoll, NewRound, Rounds
<1>2. Unstarted'
  <2>. SUFFICES ASSUME NEW s \in Reads, s[1] > round' \/ s[1] = round' PROVE read[s].at = "off"
    BY DEF Unstarted
  <2>1. s[1] \in Nat
    BY <1>1 DEF Reads
  <2>. QED
    BY <1>1, <2>1 DEF Unstarted
<1>3. Gathered' /\ Written'
  BY DEF Gathered, Written
<1>4. Finished'
  BY <1>1 DEF Finished, Fails
<1>5. \A w \in Watches : <<round', w>> \notin stored
  <2>. SUFFICES ASSUME NEW w \in Watches, <<round', w>> \in stored PROVE FALSE
    OBVIOUS
  <2>1. round' \in Rounds
    BY DEF TypePoll
  <2>. QED
    BY <1>1, <2>1, StoredBegan DEF Gathered
<1>6. Newest' /\ Returned'
  BY <1>1, <1>5 DEF Newest, Returned
<1>. QED
  BY <1>2, <1>3, <1>4, <1>6

\* A round ends: it failed, or stored all its watches, or had not begun.
LEMMA RoundEndsFresh ==
  ASSUME TypePoll, FreshInv, phase' \in {"idle", "recovering"}, UNCHANGED <<round, read, stored, device>>,
         phase' = "idle" /\ polled' = "ok" => \A w \in Watches : <<round, w>> \in stored,
         \/ phase \in {"listing", "recovering"}
         \/ Fails(round) # {}
         \/ \A w \in Watches : <<round, w>> \in stored
  PROVE  FreshInv'
<1>. USE DEF FreshInv
<1>1. Unstarted' /\ Gathered' /\ Written' /\ Returned'
  BY DEF Unstarted, Gathered, Written, Returned
<1>2. Newest'
  BY DEF Newest, Fails
<1>3. Finished'
  BY DEF Finished, Fails, Unstarted
<1>. QED
  BY <1>1, <1>2, <1>3

\* A read goes on.
LEMMA ReadFresh ==
  ASSUME TypePoll, FreshInv, NEW s \in Reads, ReadStep(s)
  PROVE  FreshInv'
<1>. USE DEF FreshInv
<1>1. /\ UNCHANGED <<round, phase, polled, stored, device>>
      /\ \A t \in Reads \ {s} : read'[t] = read[t]
      /\ read[s].at \in Running
      /\ read'[s].at # "off"
  BY DEF ReadStep, ReadAgain, ReadAnswered, poll, TypePoll, Running, Uncaught
<1>2. read[s].at \notin {"off", "ready"} \union Uncaught
  BY <1>1 DEF Running, Uncaught
<1>3. \A r : Fails(r) # {} => Fails(r)' # {}
  BY <1>1, <1>2, FailsStays
<1>4. Unstarted' /\ Written' /\ Returned'
  BY <1>1, <1>2 DEF Unstarted, Written, Returned
<1>5. Gathered'
  <2>. SUFFICES ASSUME NEW r \in Rounds, NEW w \in Watches, <<r, w>> \in stored, NEW f \in Functions
                PROVE  read'[<<r, w, f>>].at = "ready"
    BY <1>1 DEF Gathered
  <2>1. <<r, w, f>> \in Reads /\ read[<<r, w, f>>].at = "ready"
    BY DEF Gathered, Reads
  <2>. QED
    BY <1>1, <1>2, <2>1
<1>6. Finished'
  BY <1>1, <1>2, <1>3 DEF Finished
<1>7. Newest'
  BY <1>1, <1>3 DEF Newest
<1>. QED
  BY <1>4, <1>5, <1>6, <1>7

\* The devices are listed and the reads of the round begin.
LEMMA ListingFresh ==
  ASSUME TypePoll, FreshInv, NEW a, NEW wanted, DevicesListed(a, wanted)
  PROVE  FreshInv'
<1>. USE DEF FreshInv
<1>1. /\ UNCHANGED <<round, polled, stored, device>> /\ phase = "listing" /\ phase' = "gathering"
      /\ \A t \in Reads : t[1] # round => read'[t] = read[t]
  BY DEF DevicesListed
<1>2. \A t \in Reads : read[t].at # "off" => read'[t] = read[t]
  BY <1>1 DEF Unstarted
<1>3. \A r : Fails(r) # {} => Fails(r)' # {}
  BY <1>2, FailsStays DEF Uncaught
<1>4. round \in Nat /\ Rounds \subseteq Nat
  BY ClientAssumption DEF TypePoll, Rounds
<1>5. Unstarted'
  BY <1>1, <1>4 DEF Unstarted, Reads
<1>6. Written' /\ Returned'
  BY <1>1 DEF Written, Returned
<1>7. Gathered'
  <2>. SUFFICES ASSUME NEW r \in Rounds, NEW w \in Watches, <<r, w>> \in stored, NEW f \in Functions
                PROVE  read'[<<r, w, f>>].at = "ready"
    BY <1>1 DEF Gathered
  <2>1. <<r, w, f>> \in Reads /\ read[<<r, w, f>>].at = "ready"
    BY DEF Gathered, Reads
  <2>. QED
    BY <1>2, <2>1
<1>8. Finished'
  BY <1>1, <1>3, <1>4 DEF Finished
<1>9. Newest'
  BY <1>1, <1>3 DEF Newest
<1>. QED
  BY <1>5, <1>6, <1>7, <1>8, <1>9

\* A task stores its watch: one of the latest round, or of one that failed.
LEMMA StoreFresh ==
  ASSUME TypePoll, FreshInv, NEW r \in Rounds, NEW w \in Watches, DeviceStored(r, w)
  PROVE  FreshInv'
<1>. USE DEF FreshInv
<1>1. /\ UNCHANGED <<round, phase, polled, read>> /\ <<r, w>> \notin stored
      /\ stored' = stored \union {<<r, w>>}
      /\ device' = [device EXCEPT ![w] = r]
      /\ \A f \in Functions : read[<<r, w, f>>].at = "ready"
  BY DEF DeviceStored, poll
<1>2. r \in Nat /\ r # 0 /\ round \in Nat /\ r <= round
  BY <1>1, StoredBegan, ClientAssumption DEF TypePoll, Rounds
<1>3. \A q : Fails(q)' = Fails(q)
  BY <1>1 DEF Fails
<1>4. Unstarted' /\ Returned'
  BY <1>1 DEF Unstarted, Returned
<1>5. Gathered'
  BY <1>1 DEF Gathered
<1>6. Written'
  BY <1>1 DEF Written, TypePoll
<1>7. Finished'
  BY <1>1, <1>3 DEF Finished
<1>8. r < round => Fails(r) # {}
  <2>. SUFFICES ASSUME r < round PROVE Fails(r) # {}
    OBVIOUS
  <2>1. PICK f \in Functions : TRUE
    BY ClientAssumption
  <2>2. <<r, w, f>> \in Reads /\ <<r, w, f>>[1] = r /\ read[<<r, w, f>>].at # "off"
    BY <1>1 DEF Reads
  <2>. QED
    BY <1>1, <2>2 DEF Finished
<1>9. Newest'
  <2>. SUFFICES ASSUME NEW v \in Watches, <<round, v>> \in stored'
                PROVE  device'[v] = round \/ (device'[v] # 0 /\ Fails(device'[v]) # {})
    BY <1>1, <1>3 DEF Newest
  <2>1. CASE v = w
    <3>1. device'[v] = r
      BY <1>1, <2>1 DEF TypePoll
    <3>. QED
      BY <1>2, <1>8, <3>1
  <2>2. CASE v # w
    <3>1. device'[v] = device[v] /\ <<round, v>> \in stored
      BY <1>1, <2>2 DEF TypePoll
    <3>. QED
      BY <3>1 DEF Newest
  <2>. QED
    BY <2>1, <2>2
<1>. QED
  BY <1>4, <1>5, <1>6, <1>7, <1>9

\* A read goes on within its attempts.
LEMMA ReadTyped ==
  ASSUME PollOK, NEW s \in Reads, ReadStep(s)
  PROVE  PollOK'
<1>1. UNCHANGED <<session, poll, stored, device>>
  BY DEF ReadStep, ReadAgain, ReadAnswered
<1>2. read \in [Reads -> [at : {"off"} \union Running \union ReadEnds, tries : 0 .. Attempts]]
  BY DEF PollOK, TypePoll
<1>3. PICK n \in [at : {"off"} \union Running \union ReadEnds, tries : 0 .. Attempts] :
        /\ read' = [read EXCEPT ![s] = n]
        /\ n.at = "pausing" => n.tries < Attempts
  <2>1. CASE ReadAgain(s)
    <3>1. /\ read[s].tries \in 0 .. Attempts /\ read[s].tries < Attempts
          /\ read' = [read EXCEPT ![s] = [at |-> "asking", tries |-> read[s].tries + 1]]
      BY <1>2, <2>1 DEF ReadAgain, PollOK, ReadInv
    <3>2. read[s].tries + 1 \in 0 .. Attempts /\ "asking" \in Running
      BY <3>1, ClientAssumption DEF Running
    <3>3. [at |-> "asking", tries |-> read[s].tries + 1]
            \in [at : {"off"} \union Running \union ReadEnds, tries : 0 .. Attempts]
      BY <3>2
    <3>. QED
      BY <3>1, <3>3
  <2>2. ASSUME NEW a, ReadAnswered(s, a)
        PROVE  \E n \in [at : {"off"} \union Running \union ReadEnds, tries : 0 .. Attempts] :
                 /\ read' = [read EXCEPT ![s] = n]
                 /\ n.at = "pausing" => n.tries < Attempts
    <3>. DEFINE n == [read[s] EXCEPT !.at = read'[s].at]
    <3>1. /\ read' = [read EXCEPT ![s] = n]
          /\ read'[s].at \in {"ready", "pausing"} \union Uncaught
          /\ n.at = read'[s].at /\ n.tries = read[s].tries /\ n.tries \in 0 .. Attempts
          /\ n.at = "pausing" => n.tries # Attempts
      BY <1>2, <2>2 DEF ReadAnswered, LastTry, Uncaught
    <3>2. n.at = "pausing" => n.tries < Attempts
      BY <3>1, ClientAssumption
    <3>3. n \in [at : {"off"} \union Running \union ReadEnds, tries : 0 .. Attempts]
      BY <1>2, <3>1 DEF Running, ReadEnds, Uncaught
    <3>. QED
      BY <3>1, <3>2, <3>3
  <2>. QED
    BY <2>1, <2>2 DEF ReadStep
<1>. QED
  BY <1>1, <1>2, <1>3 DEF PollOK, TypePoll, ReadInv, poll

\* The reads of a round begin with their first attempt.
LEMMA ListingTyped ==
  ASSUME PollOK, NEW a, NEW wanted, DevicesListed(a, wanted)
  PROVE  PollOK'
<1>1. /\ [at |-> "asking", tries |-> 1] \in [at : {"off"} \union Running \union ReadEnds, tries : 0 .. Attempts]
      /\ [at |-> "ready", tries |-> 0] \in [at : {"off"} \union Running \union ReadEnds, tries : 0 .. Attempts]
  BY ClientAssumption DEF Running, ReadEnds
<1>. QED
  BY <1>1 DEF DevicesListed, PollOK, TypePoll, ReadInv

\* A poll keeps its types, and what is left of its rounds.
LEMMA PollKeeps ==
  ASSUME PollOK, FreshInv, Poll \/ PollStep \/ TokenExpires
  PROVE  PollOK' /\ FreshInv'
<1>. USE DEF PollOK
<1>1. ASSUME NEW again \in BOOLEAN, NewRound(again)
      PROVE  round' \in 0 .. MaxRounds /\ retried' \in BOOLEAN /\ phase' = "listing"
  BY <1>1, ClientAssumption DEF NewRound, TypePoll
<1>2. CASE Poll
  BY <1>1, <1>2, NewRoundFresh DEF Poll, TypePoll, ReadInv
<1>3. CASE Recovered
  BY <1>1, <1>3, NewRoundFresh DEF Recovered, TypePoll, ReadInv
<1>4. ASSUME NEW a, ListingFails(a) PROVE PollOK' /\ FreshInv'
  <2>1. /\ phase = "listing" /\ phase' \in {"idle", "recovering"} /\ polled' \in {polled, "failed"}
        /\ phase' = "idle" => polled' = "failed"
        /\ UNCHANGED <<session, round, retried, read, stored, device>>
    BY <1>4 DEF ListingFails, PollFails
  <2>. QED
    BY <2>1, RoundEndsFresh DEF TypePoll, ReadInv
<1>5. CASE PollBreaks
  <2>1. /\ Fails(round) # {} /\ phase' \in {"idle", "recovering"} /\ polled' \in {polled, "failed"}
        /\ phase' = "idle" => polled' = "failed"
        /\ UNCHANGED <<session, round, retried, read, stored, device>>
    BY <1>5 DEF PollBreaks, PollFails
  <2>. QED
    BY <2>1, RoundEndsFresh DEF TypePoll, ReadInv
<1>6. CASE PollReturns
  BY <1>6, RoundEndsFresh DEF PollReturns, TypePoll, ReadInv
<1>7. CASE RecoveryFails
  BY <1>7, RoundEndsFresh DEF RecoveryFails, TypePoll, ReadInv
<1>8. ASSUME NEW a, NEW wanted, DevicesListed(a, wanted) PROVE PollOK' /\ FreshInv'
  BY <1>8, ListingTyped, ListingFresh
<1>9. CASE TokenExpires
  BY <1>9 DEF TokenExpires, poll, TypePoll, ReadInv, FreshInv, Unstarted, Gathered, Written,
              Finished, Newest, Returned, Fails
<1>. QED
  BY <1>2, <1>3, <1>4, <1>5, <1>6, <1>7, <1>8, <1>9 DEF PollStep

-----------------------------------------------------------------------------
(* The theorems                                                            *)

IInv == TypeInv /\ FreshInv /\ VerdictIsHonest

\* The two halves of the state.
LEMMA Halves == TypeInv /\ VerdictIsHonest <=> PollOK /\ CallOK
  BY DEF TypeInv, TypeOK, PollOK, TypePoll, CallOK, TypeCall

\* The initial states have the inductive invariant.
LEMMA InitInv == Init => IInv
<1>. SUFFICES ASSUME Init PROVE IInv
  OBVIOUS
<1>1. [at |-> "off", tries |-> 0] \in [at : {"off"} \union Running \union ReadEnds, tries : 0 .. Attempts]
  BY ClientAssumption
<1>2. PollOK
  <2>1. read \in [Reads -> [at : {"off"} \union Running \union ReadEnds, tries : 0 .. Attempts]]
    BY <1>1 DEF Init
  <2>2. /\ session \in {"valid", "expired"} /\ round \in 0 .. MaxRounds
        /\ phase \in {"idle", "listing", "gathering", "recovering"}
        /\ polled \in {"none", "ok", "failed"}
        /\ stored \subseteq Rounds \X Watches
        /\ device \in [Watches -> 0 .. MaxRounds]
    BY ClientAssumption DEF Init
  <2>3. retried \in BOOLEAN
    BY Zenon DEF Init
  <2>4. ReadInv
    BY DEF Init, ReadInv
  <2>. QED
    BY <2>1, <2>2, <2>3, <2>4, Zenon DEF PollOK, TypePoll
<1>3. CallOK
  <2>1. /\ [kind |-> "none", at |-> "answered", tries |-> 0]
             \in [kind : Kinds, at : Running \union CallEnds, tries : 0 .. Attempts]
        /\ 0 \in 0 .. Attempts
    BY ClientAssumption DEF Kinds, CallEnds
  <2>2. TypeCall
    BY <2>1, Zenon DEF Init, TypeCall
  <2>3. CallInv /\ VerdictIsHonest
    BY DEF Init, CallInv, VerdictIsHonest, Running
  <2>. QED
    BY <2>2, <2>3 DEF CallOK
<1>4. FreshInv
  BY ClientAssumption DEF Init, FreshInv, Unstarted, Gathered, Written, Finished, Newest, Returned,
                          Rounds, Fails
<1>. QED
  BY <1>2, <1>3, <1>4, Halves DEF IInv

\* Every step keeps it.
LEMMA StepInv == IInv /\ [Next]_vars => IInv'
<1>. SUFFICES ASSUME IInv, [Next]_vars PROVE IInv'
  OBVIOUS
<1>1. TypeInv /\ PollOK /\ FreshInv /\ CallOK /\ VerdictIsHonest
  BY Halves DEF IInv
<1>2. UNCHANGED <<session, poll, read, stored, device>> => PollOK' /\ FreshInv'
  BY <1>1 DEF poll, PollOK, TypePoll, ReadInv, FreshInv, Unstarted, Gathered, Written,
              Finished, Newest, Returned, Fails
<1>3. UNCHANGED calling => CallOK'
  BY <1>1 DEF calling, CallOK, TypeCall, CallInv, VerdictIsHonest
<1>4. (TypeInv /\ VerdictIsHonest)' <=> (PollOK /\ CallOK)'
  BY Halves, PTL
<1>5. CASE Poll \/ PollStep \/ TokenExpires
  <2>1. UNCHANGED calling
    BY <1>5 DEF Poll, PollStep, TokenExpires, ListingFails, DevicesListed, PollBreaks, PollReturns,
                Recovered, RecoveryFails
  <2>. QED
    BY <1>1, <1>3, <1>4, <1>5, <2>1, PollKeeps DEF IInv
<1>6. ASSUME NEW s \in Reads, ReadStep(s) PROVE IInv'
  <2>1. UNCHANGED calling
    BY <1>6 DEF ReadStep, ReadAgain, ReadAnswered
  <2>. QED
    BY <1>1, <1>3, <1>4, <1>6, <2>1, ReadTyped, ReadFresh DEF IInv, PollOK
<1>7. ASSUME NEW r \in Rounds, NEW w \in Watches, DeviceStored(r, w) PROVE IInv'
  <2>1. UNCHANGED calling
    BY <1>7 DEF DeviceStored
  <2>2. PollOK'
    BY <1>1, <1>7 DEF DeviceStored, PollOK, TypePoll, ReadInv, poll, Rounds
  <2>. QED
    BY <1>1, <1>3, <1>4, <1>7, <2>1, <2>2, StoreFresh DEF IInv, PollOK
<1>8. CASE CallAgain
  BY <1>1, <1>2, <1>4, <1>8, PauseKeepsCall DEF IInv, CallAgain
<1>9. ASSUME NEW a, CallAnswered(a) PROVE IInv'
  <2>1. UNCHANGED <<session, poll, read, stored, device>>
    BY <1>9 DEF CallAnswered, ControlAnswered, CommandAnswered, SendAnswered, FlagAnswered,
                MediaAnswered, FeedAnswered, ChatsAnswered, LocationAnswered, Served
  <2>. QED
    BY <1>1, <1>2, <1>4, <1>9, <2>1, AnswerKeepsCall DEF IInv
<1>10. ASSUME NEW op \in Operations, UserCalls(op) PROVE IInv'
  BY <1>1, <1>2, <1>4, <1>10, CallKeepsCall DEF IInv, UserCalls
<1>11. CASE UNCHANGED vars
  BY <1>1, <1>2, <1>3, <1>4, <1>11 DEF vars, IInv
<1>. QED
  BY <1>5, <1>6, <1>7, <1>8, <1>9, <1>10, <1>11 DEF Next, CallStep

\* The inductive invariant holds in every reachable state.
LEMMA Invariant == Spec => []IInv
  BY InitInv, StepInv, PTL DEF Spec

\* Every variable keeps its type; no read and no call exceeds its attempts.
THEOREM TypeCorrect == Spec => []TypeOK
<1>1. IInv => TypeOK
  BY DEF IInv, TypeInv
<1>. QED
  BY <1>1, Invariant, PTL

\* For any operations, attempts and answers: what a mutation tells its caller
\* is what the server did, up to the requests that were lost.
THEOREM VerdictsAreHonest == Spec => []VerdictIsHonest
<1>1. IInv => VerdictIsHonest
  BY DEF IInv
<1>. QED
  BY <1>1, Invariant, PTL

\* For any watches, functions and rounds: a poll that returns left the lists of
\* its last round, whatever the tasks of earlier rounds still do, unless one of
\* a failed round has written since.
THEOREM ReturnsFresh == Spec => []FreshOnReturn
<1>1. IInv => FreshOnReturn
  BY DEF IInv, FreshInv, Returned, Newest, FreshOnReturn
<1>. QED
  BY <1>1, Invariant, PTL
=============================================================================
