---------------------------- MODULE LyricResolution ----------------------------
(***************************************************************************)
(* LyricsResolver (lyrics/resolver.py) with the workflow in front of it    *)
(* (lyrics/workflow.py) and the cache behind it (LyricCache).              *)
(*                                                                         *)
(* A request is the workflow's task for one playback track; a newer one    *)
(* cancels it.  A lookup is the resolver's task for one request key: it is *)
(* shared by the requests that want the same, and it survives them.  A     *)
(* step of a task runs from one await to the next.  Each asks the sources  *)
(* of its plan, of which Live is the document of a connected player, which *)
(* has no cache, and the others are network providers.                     *)
(***************************************************************************)
EXTENDS SharedCache

CONSTANTS Live, Network,
          Local,        \* the provider of a hint that names a file
          LiveSong,     \* the document of the live source
          Worlds,       \* Worlds[w]: what the providers and the files hold
          Plans,        \* source orders the settings may choose
          Selectable,   \* artifacts the user may choose by hand
          Policies,     \* records [cache, best, fuzzy] they may choose
          HintsOf,      \* HintsOf[track]: hints the player may give, or None
          InitPolicies, InitPlans,      \* those the session begins with
          MaxRequests, MaxChanges       \* bounds of the model

VARIABLES world,      \* which of Worlds it is; constant during a behaviour
          negative,   \* <<source, track>> remembered as a miss
          policy, plan,
          heard,      \* the track the live source has a document for, or None
          lookups,    \* the shared lookups by request key
          request,    \* the newest request, or None
          running,    \* between start and close
          spent       \* what of the bounds is used up

resolverVars == <<world, cache, negative, policy, plan, heard, lookups, request, running, spent>>

\* Compared by confidence, then word timing, then source order.
Score(r, index) == 20 * r.conf + (IF Timed[r.song] THEN 10 ELSE 0) - index

Better(r, best) == best = None \/ Score(r.result, r.index) > Score(best.result, best.index)

\* What a provider may answer, and what else if one of its requests fails.
Replies ==
    [w \in DOMAIN Worlds, s \in Network, t \in Tracks, fuzzy \in BOOLEAN |->
        Fetch(s, Worlds[w].books[s, t], t, fuzzy, Calm)]

Disturbed ==
    [w \in DOMAIN Worlds, s \in Network, t \in Tracks, fuzzy \in BOOLEAN |->
        UNION {Fetch(s, Worlds[w].books[s, t], t, fuzzy, trouble) : trouble \in Troubles(Songs)}
            \ Replies[w, s, t, fuzzy]]

\* The same of a request by id.
ReplyById == [w \in DOMAIN Worlds, h \in Network, s \in Network |-> ById(s, Worlds[w].ids[h, s], Calm)]

DisturbedById ==
    [w \in DOMAIN Worlds, h \in Network, s \in Network |->
        {ById(s, Worlds[w].ids[h, s], trouble) : trouble \in Troubles(Songs)} \ {ReplyById[w, h, s]}]

Outcomes == {Raises, Nothing} \cup {Finds(song, conf) : song \in Songs, conf \in {Medium, High}}

\* What the resolver takes for granted of the providers: they answer.
ASSUME AnswersAssumption ==
    \A w \in DOMAIN Worlds :
        /\ \A s \in Network, t \in Tracks, fuzzy \in BOOLEAN :
               /\ Replies[w, s, t, fuzzy] # {}
               /\ Replies[w, s, t, fuzzy] \cup Disturbed[w, s, t, fuzzy] \subseteq Outcomes
        /\ \A h, s \in Network : ReplyById[w, h, s] \in Outcomes

\* What a lookup may find.
Results ==
    [source : Network \cup {Live} \cup {a.provider : a \in Artifacts}, song : Songs,
     conf : {NoMatch, Medium, High}]

\* A plan is shorter than what separates the scores of a timed and an untimed match.
ASSUME ResolverAssumption ==
    /\ None \notin Songs \cup Results /\ None \notin [result : Results, index : Nat]
    /\ {Live, Local, None} \cap Network = {} /\ LiveSong \in Songs
    /\ [provider : Network, song : Songs] \cup Selectable \subseteq Artifacts
    /\ \A p \in Plans \cup InitPlans : p \in Seq(Network \cup {Live}) /\ Len(p) < 10
    /\ Policies \cup InitPolicies \subseteq [cache : BOOLEAN, best : BOOLEAN, fuzzy : BOOLEAN]
    /\ \A t \in Tracks : HintsOf[t] \subseteq Network \cup {Local, None}
    /\ \A c \in InitCaches : Consistent(c) /\ \A a \in Stored(c) : c.rows[a].valid

\* The candidate a reply stands for, or None.
Candidate(source, reply) ==
    IF reply.song = None THEN None
    ELSE [source |-> source, song |-> reply.song, conf |-> reply.conf]

FromCache(found, conf) == [source |-> found.provider, song |-> found.song, conf |-> conf]

\* How the document of the live source is accepted for each track: a match of
\* medium confidence needs the title itself.
LiveConf ==
    LET Accepted(e) == IF e.conf = High \/ (e.conf = Medium /\ e.exact) THEN e.conf ELSE NoMatch
    IN  [t \in Tracks |-> Accepted(Evaluate(Metadata[LiveSong], Metadata[t], FALSE))]

LiveResult(track) ==
    IF heard = track THEN [source |-> Live, song |-> LiveSong, conf |-> LiveConf[track]]
    ELSE None

\* _store_result
Kept(c, r) == IF policy.cache THEN Store(c, [provider |-> r.source, song |-> r.song], r.conf) ELSE c

\* What the sources answered is stored in their order.
KeptInTurn(sources, answers) ==
    LET after[n \in 0 .. Len(sources)] ==
            IF n = 0 THEN cache
            ELSE IF sources[n] \in DOMAIN answers THEN Kept(after[n - 1], answers[sources[n]])
            ELSE after[n - 1]
    IN  after[Len(sources)]

Index(sources, s) == CHOOSE i \in DOMAIN sources : sources[i] = s
-------------------------------------------------------------------------------
(* A lookup: policy and plan are those of its key, but what a step reads of *)
(* the policy is the present one.                                           *)

Key(track, sources) ==
    [track |-> track, sources |-> sources,
     cache |-> policy.cache, best |-> policy.best, fuzzy |-> policy.fuzzy]

\* best: the best candidate and its index; fuzzy: the policy the providers were
\* asked under; skipped: those not asked because of a remembered miss.
NewLookup ==
    [phase |-> "manual", at |-> 1, best |-> None, resolved |-> {}, pending |-> {}, asked |-> {},
     skipped |-> {}, fuzzy |-> FALSE, failed |-> {}, result |-> None]

Done(task, result) == [task EXCEPT !.phase = "done", !.result = result, !.pending = {}]

Raised(task) == [task EXCEPT !.phase = "raised", !.pending = {}]

Ended(task) == task.phase \in {"done", "raised"}

\* The answer of a worker of the cache: an error is ignored, but the timeout of
\* the worker is no error of the cache and ends the lookup.
CacheFaults == {"none", "error", "timeout"}

Fault(fault) == /\ fault # "none" => spent.faults < MaxFaults
                /\ spent' = [spent EXCEPT !.faults = IF fault = "none" THEN @ ELSE @ + 1]

Becomes(k, task) == lookups' = [lookups EXCEPT ![k] = task]

\* What a read of the cache yields: nothing if it fails or is not made.
Unread == [hit |-> None, cache |-> cache, conf |-> NoMatch]

ReadManual(track, fault) ==
    IF policy.cache /\ fault = "none" THEN LookupManual(cache, track) ELSE Unread

ReadCached(source, track, fault) ==
    IF source # Live /\ policy.cache /\ fault = "none" THEN Lookup(cache, source, track) ELSE Unread

\* What a source has without asking anybody: its document, or a row of the cache.
Has(source, track, hit) ==
    IF source = Live THEN LiveResult(track) ELSE IF hit = None THEN None ELSE FromCache(hit, High)

\* _lookup_manual, before anything else.
LookupManualStep(k, fault) ==
    LET task == lookups[k]
        next == IF policy.best THEN "free" ELSE "turn"
    IN  /\ task.phase = "manual" /\ (fault # "none" => policy.cache) /\ Fault(fault)
        /\ \E found \in {ReadManual(k.track, fault)} :
              /\ cache' = found.cache
              /\ Becomes(k, IF fault = "timeout" THEN Raised(task)
                            ELSE IF found.hit # None THEN Done(task, FromCache(found.hit, found.conf))
                            ELSE IF k.sources = <<>> THEN Done(task, None)
                            ELSE [task EXCEPT !.phase = next])
        /\ UNCHANGED <<world, negative, policy, plan, heard, request, running>>

\* Mutant: an equal answer of a source ranked higher is not awaited.
CouldBeatOutright(best, index) == best = None \/ best.result.conf < High

\* What could still change the answer: the ceiling of a source is a timed match
\* of high confidence.
CouldBeat(best, index) == best = None \/ 20 * High + 10 - index > Score(best.result, best.index)

\* The network half of _resolve_best: everyone who could still win is asked.
Launched(task, k) ==
    LET open == {s \in (Network \cap ToSet(k.sources)) \ task.resolved :
                     CouldBeat(task.best, Index(k.sources, s))}
        skipped == {s \in open : <<s, k.track>> \in negative}
    IN  [task EXCEPT !.phase = "asking", !.pending = open \ skipped, !.asked = open \ skipped,
                     !.skipped = skipped, !.fuzzy = policy.fuzzy]

BestOf(task) == IF task.best = None THEN None ELSE task.best.result

\* _resolve_best collects what costs nothing, one source at a time: the live
\* document, and the rows of the cache.
FreeStep(k, fault) ==
    LET task == lookups[k]
        source == k.sources[task.at]
        Collected(result) ==
            LET candidate == [result |-> result, index |-> task.at]
            IN  IF result = None THEN task
                ELSE [task EXCEPT !.resolved = @ \cup {source},
                                  !.best = IF Better(candidate, @) THEN candidate ELSE @]
        Asking(all) == IF all.pending = {} THEN Done(all, BestOf(all)) ELSE all
    IN  /\ task.phase = "free" /\ Fault(fault)
        /\ (fault # "none" => source # Live /\ policy.cache)
        /\ \E found \in {ReadCached(source, k.track, fault)} :
           \E read \in {Collected(Has(source, k.track, found.hit))} :
              /\ cache' = found.cache
              /\ Becomes(k, IF fault = "timeout" THEN Raised(task)
                            ELSE IF task.at < Len(k.sources) THEN [read EXCEPT !.at = @ + 1]
                            ELSE Asking(Launched(read, k)))
        /\ UNCHANGED <<world, negative, policy, plan, heard, request, running>>

\* Nothing that is still out could win.
Settled(best, pending, sources) ==
    pending = {} \/ (best # None /\ \A s \in pending : ~CouldBeat(best, Index(sources, s)))

\* Mutant: a source that failed is remembered to have nothing.
MissesOf(batch, bad, found) == batch \ found

\* Who answered and had nothing; a failure is no miss.
Misses(batch, bad, found) == (batch \ bad) \ found

\* What the sources of a batch may reply, of which some have failing requests.
Answers(k, batch, failures) ==
    LET asked(s) == <<world, s, k.track, lookups[k].fuzzy>>
        OneOf(may) == {replies \in [batch -> UNION {may[s] : s \in batch}] :
                          \A s \in batch : replies[s] \in may[s]}
    IN  OneOf([s \in batch |-> IF s \in failures THEN Disturbed[asked(s)] ELSE Replies[asked(s)]])

\* Those that may answer at once: any of those asked together, or the one asked alone.
Batches(k) ==
    IF lookups[k].phase = "asked" THEN {{k.sources[lookups[k].at]}} ELSE SUBSET lookups[k].pending \ {{}}

\* Whether one of the failures of a batch is not told is remembered for the properties.
Spent(failures, replies, fault) ==
    [spent EXCEPT !.faults = @ + Cardinality(failures) + (IF fault = "none" THEN 0 ELSE 1),
                 !.swallowed = @ \/ \E s \in failures : ~replies[s].raised]

\* _resolve_best: a batch of providers has answered; some have failed.  Misses are
\* remembered and finds are kept; who cannot win is not awaited.
AnswersStep(k, replies, failures, fault) ==
    LET task == lookups[k]
        batch == DOMAIN replies
        bad == {s \in batch : replies[s].raised}
        answer(s) == Candidate(s, replies[s])
        found == {s \in batch : answer(s) # None}
        finds == {[result |-> answer(s), index |-> Index(k.sources, s)] : s \in found}
        first == {r \in finds : \A q \in finds : ~Better(q, r)}
        best == IF first = {} THEN task.best
                ELSE LET r == CHOOSE r \in first : TRUE IN IF Better(r, task.best) THEN r ELSE task.best
        kept == KeptInTurn(k.sources, [s \in found |-> answer(s)])
        next == [task EXCEPT !.pending = @ \ batch, !.failed = @ \cup bad, !.best = best]
    IN  /\ task.phase = "asking"
        /\ (fault # "none" => policy.cache /\ found # {} /\ failures = {})
        /\ spent' = Spent(failures, replies, fault) /\ spent'.faults <= MaxFaults
        /\ negative' = negative \cup {<<s, k.track>> : s \in Misses(batch, bad, found)}
        /\ cache' \in (IF fault = "none" THEN {kept} ELSE IF fault = "error" THEN {cache} ELSE {cache, kept})
        /\ Becomes(k, IF fault = "timeout" THEN Raised(next)
                      ELSE IF Settled(best, next.pending, k.sources) THEN Done(next, BestOf(next)) ELSE next)
        /\ UNCHANGED <<world, policy, plan, heard, request, running>>

\* _resolve_sequential goes on to the next source, if there is one.
Onward(task, k) ==
    IF task.at < Len(k.sources) THEN [task EXCEPT !.phase = "turn", !.at = @ + 1] ELSE Done(task, None)

\* _resolve_sequential: a source of the plan has its turn; a row of the cache or
\* the live document ends the lookup, and a provider not known to miss is asked.
TurnStep(k, fault) ==
    LET task == lookups[k]
        source == k.sources[task.at]
        missed == source # Live /\ <<source, k.track>> \in negative
        Turned(result) ==
            IF result # None THEN Done(task, result)
            ELSE IF source = Live THEN Onward(task, k)
            ELSE IF missed THEN Onward([task EXCEPT !.skipped = @ \cup {source}], k)
            ELSE [task EXCEPT !.phase = "asked", !.fuzzy = policy.fuzzy]
    IN  /\ task.phase = "turn" /\ Fault(fault)
        /\ (fault # "none" => source # Live /\ policy.cache)
        /\ \E found \in {ReadCached(source, k.track, fault)} :
              /\ cache' = found.cache
              /\ Becomes(k, IF fault = "timeout" THEN Raised(task)
                            ELSE Turned(Has(source, k.track, found.hit)))
        /\ UNCHANGED <<world, negative, policy, plan, heard, request, running>>

\* _resolve_sequential: the provider has answered, or failed.
AskedStep(k, replies, failures, fault) ==
    LET task == lookups[k]
        source == k.sources[task.at]
        bad == replies[source].raised
        result == Candidate(source, replies[source])
    IN  /\ task.phase = "asked"
        /\ (fault # "none" => policy.cache /\ result # None /\ failures = {})
        /\ spent' = Spent(failures, replies, fault) /\ spent'.faults <= MaxFaults
        /\ negative' = negative \cup {<<s, k.track>> : s \in Misses({source}, IF bad THEN {source} ELSE {},
                                                    IF result = None THEN {} ELSE {source})}
        /\ cache' \in (IF result = None \/ fault = "error" THEN {cache}
                       ELSE IF fault = "none" THEN {Kept(cache, result)} ELSE {cache, Kept(cache, result)})
        /\ Becomes(k, IF bad THEN Onward([task EXCEPT !.failed = @ \cup {source}], k)
                      ELSE IF result = None THEN Onward(task, k)
                      ELSE IF fault = "timeout" THEN Raised(task) ELSE Done(task, result))
        /\ UNCHANGED <<world, policy, plan, heard, request, running>>
-------------------------------------------------------------------------------
(* A request.                                                               *)

\* exact: the result of a hint while another is sought; wanted: the artifact
\* chosen by hand when the request began, while that stands.
NewRequest(track, hint) ==
    [track |-> track, hint |-> hint, phase |-> IF hint = None THEN "ask" ELSE "hint",
     sources |-> plan, exact |-> None, key |-> None, result |-> None, failed |-> {},
     wanted |-> IF policy.cache THEN Chosen(cache, track) ELSE None]

Waits(r) == r # None /\ r.phase = "waiting"

\* Mutant: a lookup that was left by its last caller stays registered.
LeftStuck(r) == IF Waits(r) THEN [lookups EXCEPT ![r.key].phase = "cancelled"] ELSE lookups

\* Whoever leaves a lookup removes it if it has ended; otherwise it goes on.
Left(r) == IF Waits(r) /\ Ended(lookups[r.key])
           THEN Restrict(lookups, DOMAIN lookups \ {r.key}) ELSE lookups

\* LyricsResolutionWorkflow.resolve: older requests are cancelled and joined.
Request(track, hint) ==
    /\ running /\ spent.requests < MaxRequests
    /\ request' = NewRequest(track, hint)
    /\ lookups' = Left(request)
    /\ spent' = [spent EXCEPT !.requests = @ + 1]
    /\ UNCHANGED <<world, cache, negative, policy, plan, heard, running>>

\* resolve_with_diagnostics: joins the lookup of the same key, or starts it.
Joined(r, sources) ==
    LET k == Key(r.track, sources)
        known == IF k \in DOMAIN lookups THEN lookups[k] ELSE NewLookup
    IN  /\ lookups' = [j \in DOMAIN lookups \cup {k} |-> IF j = k THEN known ELSE lookups[j]]
        /\ request' = [r EXCEPT !.phase = "waiting", !.key = k]

Ask ==
    /\ request # None /\ request.phase = "ask" /\ Joined(request, request.sources)
    /\ UNCHANGED <<world, cache, negative, policy, plan, heard, running, spent>>

AnsweredWith(r, result) == [r EXCEPT !.phase = "answered", !.result = result]

\* resolve_hint: what was chosen by hand comes first.
HintManual(fault) ==
    /\ request # None /\ request.phase = "hint" /\ (fault # "none" => policy.cache) /\ Fault(fault)
    /\ \E found \in {ReadManual(request.track, fault)} :
          /\ cache' = found.cache
          /\ request' = IF fault = "timeout" THEN [request EXCEPT !.phase = "raised"]
                        ELSE IF found.hit # None THEN AnsweredWith(request, FromCache(found.hit, found.conf))
                        ELSE [request EXCEPT !.phase = "exact"]
    /\ UNCHANGED <<world, negative, policy, plan, heard, lookups, running>>

\* LocalLyricsSource.resolve_exact
LocalResult(track) ==
    LET song == ReadLocal(Worlds[world].files[track])
    IN  IF song = None THEN None ELSE [source |-> Local, song |-> song, conf |-> High]

\* ExactLyricsSource: in best mode the first that times words, else the first; a
\* source that fails is passed over.
ExactResult(r, reply) ==
    LET Song(i) == reply[r.sources[i]].song
        holds == {i \in DOMAIN r.sources : r.sources[i] \in Network /\ Song(i) # None}
        timed == {i \in holds : Timed[Song(i)]}
        from == IF policy.best /\ timed # {} THEN timed ELSE holds
    IN  IF from = {} THEN None
        ELSE [source |-> r.sources[Min(from)], song |-> Song(Min(from)), conf |-> High]

\* The plan without the sources that were asked already.
Others(sources, gone) ==
    LET left[n \in 0 .. Len(sources)] ==
            IF n = 0 THEN <<>>
            ELSE IF sources[n] \in gone THEN left[n - 1] ELSE Append(left[n - 1], sources[n])
    IN  left[Len(sources)]

\* resolve_hint: without an answer the whole plan is asked; an answer that times
\* no words lets the other sources compete, in best mode.
Exact(troubled, disturbed, fault) ==
    LET reply == [s \in Network |-> IF s = troubled THEN disturbed ELSE ReplyById[world, request.hint, s]]
        found == IF request.hint # Local THEN ExactResult(request, reply)
                 ELSE IF troubled = None THEN LocalResult(request.track) ELSE None
    IN  /\ request # None /\ request.phase = "exact"
        /\ (troubled # None => fault = "none")
        /\ (troubled \in Network => /\ request.hint \in Network /\ troubled \in ToSet(request.sources)
                                   /\ disturbed \in DisturbedById[world, request.hint, troubled])
        /\ Fault(IF troubled # None THEN "error" ELSE fault)
        /\ \E exact \in {found} :
           LET stores == exact # None /\ exact.source # Local /\ policy.cache
               others == Others(request.sources, {request.hint, exact.source})
           IN  /\ (fault # "none" => stores)
               /\ cache' = IF stores /\ fault = "none" THEN Kept(cache, exact) ELSE cache
               /\ IF exact = None
                  THEN request' = [request EXCEPT !.phase = "ask"] /\ UNCHANGED lookups
                  ELSE IF fault = "timeout"
                  THEN request' = [request EXCEPT !.phase = "raised"] /\ UNCHANGED lookups
                  ELSE IF ~policy.best \/ Timed[exact.song]
                  THEN request' = AnsweredWith(request, exact) /\ UNCHANGED lookups
                  ELSE Joined([request EXCEPT !.exact = exact], others)
        /\ UNCHANGED <<world, negative, policy, plan, heard, running>>

\* An alternative replaces the exact result if it is better, sources aside.
Alternative(exact, other) ==
    IF exact = None \/ (other # None /\ Score(other, 0) > Score(exact, 0)) THEN other ELSE exact

\* The lookup has ended: the request has its answer, or the exception.
Collect ==
    /\ Waits(request) /\ Ended(lookups[request.key])
    /\ LET task == lookups[request.key]
           result == Alternative(request.exact, task.result)
       IN  request' = IF task.phase = "raised" THEN [request EXCEPT !.phase = "raised"]
                      ELSE [AnsweredWith(request, result) EXCEPT
                               !.failed = IF request.exact = None THEN task.failed ELSE {}]
    /\ lookups' = Left(request)
    /\ UNCHANGED <<world, cache, negative, policy, plan, heard, running, spent>>
-------------------------------------------------------------------------------
(* The others.                                                              *)

Changed == spent.changes < MaxChanges /\ spent' = [spent EXCEPT !.changes = @ + 1]

Unwanted == request' = IF request = None THEN None ELSE [request EXCEPT !.wanted = None]

\* set_prefer_best, set_fuzzy, set_cache_enabled
SetPolicy(p) ==
    /\ p # policy /\ Changed /\ policy' = p /\ negative' = {} /\ Unwanted
    /\ UNCHANGED <<world, cache, plan, heard, lookups, running>>

\* MprisResolutionSession.set_lyrics_sources
SetPlan(p) ==
    /\ p # plan /\ Changed /\ plan' = p /\ negative' = {}
    /\ UNCHANGED <<world, cache, policy, heard, lookups, request, running>>

\* The time to live of a remembered miss is over.
Expire(m) ==
    /\ m \in negative /\ negative' = negative \ {m}
    /\ UNCHANGED <<world, cache, policy, plan, heard, lookups, request, running, spent>>

\* The live source plays a track, with a document that matches it, or none.
Played(track) ==
    /\ track # heard /\ (track # None => LiveConf[track] # NoMatch) /\ Changed /\ heard' = track
    /\ UNCHANGED <<world, cache, negative, policy, plan, lookups, request, running>>

\* The user chooses lyrics in the search dialog.
Choose(track, a) ==
    /\ Changed /\ cache' = Select(cache, track, a) /\ Unwanted
    /\ UNCHANGED <<world, negative, policy, plan, heard, lookups, running>>

\* The user deletes rows in the cache dialog.
Forget(gone) ==
    /\ gone # {} /\ Changed
    /\ cache' = DeleteMany(cache, gone) /\ Unwanted
    /\ UNCHANGED <<world, negative, policy, plan, heard, lookups, running>>

\* close: the lookups are cancelled, and nobody joins them any more.
Cancelled == Restrict(lookups, {})

\* MprisResolutionSession.stop: the request is cancelled, and then the lookups.
Stop ==
    /\ running /\ Changed /\ running' = FALSE
    /\ request' = None /\ lookups' = Cancelled
    /\ UNCHANGED <<world, cache, negative, policy, plan, heard>>

Start ==
    /\ ~running /\ running' = TRUE
    /\ UNCHANGED <<world, cache, negative, policy, plan, heard, lookups, request, spent>>
-------------------------------------------------------------------------------
ResolverInit ==
    /\ world \in DOMAIN Worlds /\ cache \in InitCaches /\ negative = {}
    /\ policy \in InitPolicies /\ plan \in InitPlans /\ heard = None
    /\ lookups = Restrict([k \in {} |-> NewLookup], {}) /\ request = None
    /\ running = TRUE /\ spent = [requests |-> 0, changes |-> 0, faults |-> 0, swallowed |-> FALSE]

LookupStep(k) ==
    \/ \E fault \in CacheFaults :
           LookupManualStep(k, fault) \/ FreeStep(k, fault) \/ TurnStep(k, fault)
    \/ \E batch \in Batches(k) : \E failures \in SUBSET batch :
           /\ spent.faults + Cardinality(failures) <= MaxFaults
           /\ \E replies \in Answers(k, batch, failures), fault \in CacheFaults :
                 AnswersStep(k, replies, failures, fault) \/ AskedStep(k, replies, failures, fault)

RequestStep ==
    \/ Ask \/ Collect
    \/ \E fault \in CacheFaults :
           \/ HintManual(fault) \/ Exact(None, None, fault) \/ Exact(Local, None, fault)
           \/ \E troubled \in Network, disturbed \in {Raises, Nothing} \cup {Finds(song, High) : song \in Songs} :
                  Exact(troubled, disturbed, fault)

Environment ==
    \/ \E track \in Tracks : \E hint \in HintsOf[track] : Request(track, hint)
    \/ \E p \in Policies : SetPolicy(p)
    \/ \E p \in Plans : SetPlan(p)
    \/ \E track \in Tracks \cup {None} : Played(track)
    \/ \E track \in Tracks, a \in Selectable : Choose(track, a)
    \/ \E gone \in SUBSET Stored(cache) : Forget(gone)
    \/ Stop \/ Start

ResolverNext ==
    \/ \E k \in DOMAIN lookups : LookupStep(k)
    \/ RequestStep
    \/ Environment
    \/ \E m \in negative : Expire(m)

\* Tasks run and providers answer, if with a failure: every request of HTTP and
\* of the cache has a timeout.  Nobody has to ask or to change anything.
RequestCanStep ==
    request # None /\ (request.phase \in {"hint", "exact", "ask"}
                        \/ (Waits(request) /\ Ended(lookups[request.key])))

LookupCanStep ==
    \E k \in DOMAIN lookups : lookups[k].phase \in {"manual", "free", "turn", "asked"}
                                \/ lookups[k].pending # {}

\* Weak fairness, with the condition under which a step is possible spelt out.
Fairness ==
    /\ []<>~RequestCanStep \/ []<><<RequestStep>>_resolverVars
    /\ []<>~LookupCanStep \/ []<><<\E k \in DOMAIN lookups : LookupStep(k)>>_resolverVars

ResolverSpec == ResolverInit /\ [][ResolverNext]_resolverVars /\ Fairness
-------------------------------------------------------------------------------
(* Properties.                                                              *)

\* "Prefer best match" ends with the best there is: when a lookup that asked the
\* providers at once ends, with answers still out that it no longer awaits, no
\* provider that it did not see fail, and that was not remembered as a miss, had
\* an answer better than the result.  A cached row stands for its provider.  Not
\* so once a provider answered in spite of a request of its own that failed.
BestAnswerWins ==
    \A k \in DOMAIN lookups :
        LET task == lookups[k]
            reached == (Network \cap ToSet(k.sources)) \ (task.resolved \cup task.skipped \cup task.failed)
            wins(s, other) == other # None /\ Better([result |-> other, index |-> Index(k.sources, s)], task.best)
        IN  task.phase = "done" /\ task.asked # {} /\ ~spent.swallowed =>
                \A s \in reached : \E reply \in Replies[world, s, k.track, task.fuzzy] :
                    ~wins(s, Candidate(s, reply))

\* "No lyrics" without a failure to report is no invention, whatever was remembered
\* meanwhile: every provider of the plan was asked or missed within the time to live of
\* a miss, so each of them has nothing for a search of the track, strict or fuzzy.  It
\* says no more than that, for a miss of one kind is believed by the other: a fuzzy
\* search has more to find, and it misses what a strict one finds where loose finds
\* without lyrics use up its downloads.  Not so once a provider answered in spite of a
\* request of its own that failed.
NothingMeansNothing ==
    \A k \in DOMAIN lookups :
        LET task == lookups[k]
        IN  task.phase = "done" /\ task.result = None /\ task.failed = {} /\ ~spent.swallowed =>
                \A s \in Network \cap ToSet(k.sources) :
                    \E fuzzy \in BOOLEAN : Nothing \in Replies[world, s, k.track, fuzzy]

\* What the user chose by hand for a track stays chosen, and its row stays
\* readable, until the user chooses or deletes: no automatic store, eviction or
\* clean-up takes it.
SelectionsSurvive ==
    [][\A k \in DOMAIN cache.binds :
           LET a == cache.binds[k]
           IN  \/ k \in DOMAIN cache'.binds /\ cache'.binds[k] = a /\ cache'.rows[a].only
               \/ spent'.changes > spent.changes]_resolverVars

\* Every request ends: with an answer, with an exception, or because a newer one
\* or the end of the session took its place; a lookup that others have left
\* never keeps the next one waiting.  It is said of the wait for a shared lookup; the
\* hint and the exact lookup before it are single requests that answer, fail or time out.
RequestsEnd == [](Waits(request) => <>~Waits(request))
===============================================================================
