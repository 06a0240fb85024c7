--------------------------- MODULE InsightService ---------------------------
(***************************************************************************)
(* PortfolioInsightService.generate with CachedInsightGenerator around     *)
(* DeepSeekInsightGenerator: concurrent requests, each Redis call, model   *)
(* call and database transaction a step.  An input stands for the digest   *)
(* of a complete InsightInput; the cache keeps one narrative for each.     *)
(***************************************************************************)
EXTENDS Integers, Sequences, FiniteSets, FiniteSetsExt

CONSTANTS
  Workers, Inputs,
  NoInput, NoCopy,
  Garbage,        \* a cached payload _CachedInsight refuses
  MaxSnapshots    \* bound of the model: snapshots committed

(* What a completed response holds: "fine" passes every check; "rejected"  *)
(* is refused by _DeepSeekOutput; "padded" and "blank" have 20 characters  *)
(* or more, but fewer than 20 and none once they are stripped.             *)
Texts == {"fine", "padded", "blank", "rejected"}
Narrative == [about : Inputs, text : {"fine", "padded", "blank"}]

ASSUME InsightAssumption ==
  /\ MaxSnapshots \in Nat /\ IsFiniteSet(Workers)
  /\ NoInput \notin Inputs /\ NoCopy # Garbage /\ {NoCopy, Garbage} \cap Narrative = {}

VARIABLES
  cache,      \* [Inputs -> Narrative, NoCopy or Garbage]
  snapshots,  \* the committed analysis_snapshots: [about, generator]
  delivered,  \* the insights clients have received: [about, generator]
  req         \* the request in progress on each worker

vars == <<cache, snapshots, delivered, req>>

(* generated: what generate() returned; answer: the generator the insight  *)
(* names.                                                                  *)
Idle == [at |-> "idle", input |-> NoInput, available |-> TRUE, generated |-> NoCopy,
         answer |-> "none"]

Init ==
  /\ cache = [i \in Inputs |-> NoCopy]
  /\ snapshots = <<>> /\ delivered = <<>>
  /\ req = [w \in Workers |-> Idle]

At(w, step) == req[w].at = step
Become(w, r) == req' = [req EXCEPT ![w] = r]

(* analyze() returned; the deterministic insight is ready.                 *)
Analyze(w, i) ==
  /\ At(w, "idle") /\ Len(snapshots) < MaxSnapshots
  /\ Become(w, [Idle EXCEPT !.at = "get", !.input = i])
  /\ UNCHANGED <<cache, snapshots, delivered>>

(* validate_generated_insight.                                             *)
Accepted(narrative) == narrative.text = "fine"

(* Mutant: what the generator returns is trusted.                          *)
GeneratedUnchecked(r, narrative) ==
  [r EXCEPT !.at = "save", !.generated = narrative, !.answer = "deepseek"]

(* generate() returned to the service: the insight keeps the deterministic *)
(* text if the narrative does not validate.                                *)
Generated(r, narrative) ==
  [r EXCEPT !.at = "save", !.generated = narrative,
            !.answer = IF Accepted(narrative) THEN "deepseek" ELSE "risk-rules-v1"]

(* generate() raised, whatever it raised.                                  *)
FallBack(r) == [r EXCEPT !.at = "save", !.answer = "risk-rules-v1"]

Cached(i) == IF cache[i] \in Narrative THEN {cache[i]} ELSE {}

CacheGet(w) ==
  /\ At(w, "get")
  /\ \/ \E narrative \in Cached(req[w].input) : Become(w, Generated(req[w], narrative))
     \/ Cached(req[w].input) = {} /\ Become(w, [req[w] EXCEPT !.at = "call"])
     \/ Become(w, [req[w] EXCEPT !.at = "call", !.available = FALSE])  \* RedisError
  /\ UNCHANGED <<cache, snapshots, delivered>>

(* DeepSeekInsightGenerator.generate: an error, a timeout, an incomplete   *)
(* or refused response raises; another one is stripped.                    *)
ModelFails(w) ==
  /\ At(w, "call")
  /\ Become(w, FallBack(req[w]))
  /\ UNCHANGED <<cache, snapshots, delivered>>

(* The _CachedInsight built before the SET refuses an empty summary, and   *)
(* that ValidationError leaves generate().                                 *)
ModelAnswers(w, text) ==
  LET narrative == [about |-> req[w].input, text |-> text] IN
  /\ At(w, "call") /\ text # "rejected"
  /\ Become(w, CASE ~req[w].available -> Generated(req[w], narrative)
                 [] req[w].available /\ text = "blank" -> FallBack(req[w])
                 [] OTHER -> [req[w] EXCEPT !.at = "set", !.generated = narrative])
  /\ UNCHANGED <<cache, snapshots, delivered>>

CacheSet(w) ==
  /\ At(w, "set")
  /\ cache' = [cache EXCEPT ![req[w].input] = req[w].generated]
  /\ Become(w, Generated(req[w], req[w].generated))
  /\ UNCHANGED <<snapshots, delivered>>

(* A RedisError on the SET is a bypass.                                    *)
CacheSetFails(w) ==
  /\ At(w, "set")
  /\ Become(w, Generated(req[w], req[w].generated))
  /\ UNCHANGED <<cache, snapshots, delivered>>

Insight(r) == [about |-> r.input, generator |-> r.answer]

(* add and commit of the AnalysisSnapshot, in one transaction.             *)
Save(w) ==
  /\ At(w, "save") /\ Len(snapshots) < MaxSnapshots
  /\ snapshots' = Append(snapshots, Insight(req[w]))
  /\ Become(w, [req[w] EXCEPT !.at = "answered"])
  /\ UNCHANGED <<cache, delivered>>

(* Mutant: the snapshot is best effort, a failed commit is only logged.    *)
SaveBestEffort(w) ==
  /\ At(w, "save")
  /\ Become(w, [req[w] EXCEPT !.at = "answered"])
  /\ UNCHANGED <<cache, snapshots, delivered>>

(* The database fails, before or after the commit took effect.             *)
SaveFails(w) ==
  /\ At(w, "save")
  /\ \/ snapshots' = snapshots
     \/ Len(snapshots) < MaxSnapshots /\ snapshots' = Append(snapshots, Insight(req[w]))
  /\ Become(w, [req[w] EXCEPT !.at = "failed"])
  /\ UNCHANGED <<cache, delivered>>

Deliver(w) ==
  /\ At(w, "answered")
  /\ delivered' = Append(delivered, Insight(req[w]))
  /\ Become(w, Idle)
  /\ UNCHANGED <<cache, snapshots>>

(* The error reaches the client, or the request is cancelled or lost.      *)
Abandon(w) ==
  /\ ~At(w, "idle")
  /\ Become(w, Idle)
  /\ UNCHANGED <<cache, snapshots, delivered>>

(* A copy expires or is evicted, or another version wrote the key.         *)
Damage(i) ==
  /\ \E value \in {NoCopy, Garbage} : cache' = [cache EXCEPT ![i] = value]
  /\ UNCHANGED <<snapshots, delivered, req>>

Next ==
  \/ \E w \in Workers :
       \/ \E i \in Inputs : Analyze(w, i)
       \/ \E text \in Texts : ModelAnswers(w, text)
       \/ CacheGet(w) \/ ModelFails(w) \/ CacheSet(w) \/ CacheSetFails(w)
       \/ Save(w) \/ SaveFails(w) \/ Deliver(w) \/ Abandon(w)
  \/ \E i \in Inputs : Damage(i)

Spec == Init /\ [][Next]_vars

-----------------------------------------------------------------------------
InsightType == [about : Inputs, generator : {"deepseek", "risk-rules-v1"}]

(* Type invariant of the cache, the table, and generate's locals.          *)
TypeOK ==
  /\ cache \in [Inputs -> Narrative \cup {NoCopy, Garbage}]
  /\ snapshots \in Seq(InsightType) /\ delivered \in Seq(InsightType)
  /\ req \in [Workers ->
       [at : {"idle", "get", "call", "set", "save", "answered", "failed"},
        input : Inputs \cup {NoInput}, available : BOOLEAN,
        generated : Narrative \cup {NoCopy},
        answer : {"none", "deepseek", "risk-rules-v1"}]]

(* A model's text only reaches a client, or the history, if it validates   *)
(* and is about this request's own analytics, whether the model or the     *)
(* cache, which any request or release may have filled, delivered it.      *)
OnlyValidated == \A w \in Workers : req[w].answer = "deepseek" =>
  Accepted(req[w].generated) /\ req[w].generated.about = req[w].input

Times(list, insight) == Cardinality({k \in DOMAIN list : list[k] = insight})

(* "Persist every returned result as an AnalysisSnapshot with actual       *)
(* provenance": each insight ever delivered has a committed snapshot of its*)
(* own, through failed, cancelled and concurrent requests.                 *)
EveryInsightPersisted == \A insight \in InsightType :
  Times(delivered, insight) <= Times(snapshots, insight)

(* README.md: INSIGHT_CACHE_TTL_SECONDS is the "TTL for a validated        *)
(* generated narrative".                                                   *)
CacheHoldsValidated == \A i \in Inputs : cache[i] \in Narrative => Accepted(cache[i])
=============================================================================
