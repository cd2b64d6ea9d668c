---------------------------- MODULE FallbackWalk ----------------------------
(***************************************************************************)
(* One request on a profile's own chain of models: profileChain            *)
(* (profile-fallback.ts), the walk over it and the verdict when it is      *)
(* exhausted (walkProfileChainOnce, chatCompletionWithProfileFallback and  *)
(* failDynamicProfile of index.ts).                                        *)
(*                                                                         *)
(* What an attempt comes to is a matter of the world: providers and keys   *)
(* are as they are for the length of a walk, and so is what each group     *)
(* answers of its model to this request, which another group of the same   *)
(* model need not share.  The retries inside an attempt are RetryLoop's.   *)
(***************************************************************************)
EXTENDS Naturals, Sequences, SequencesExt

CONSTANTS
    Profiles,  \* "static", or a dynamic one: "free", "paid"
    Models,    \* the models of the profile
    Chains,    \* sequences of them: the head, then the others
    RoutesOf,  \* [Models -> Seq([url, key])]: the groups that serve a model
    Home,      \* the URL of the profile itself, for a model without a group
    NoKey,     \* such an entry names no credential
    Local,     \* the URLs where the local broker answers
    Refusals   \* what a group may answer of a model, its provider up and its
               \* key good: the request is refused (400, 413), or the model to
               \* this account (403), or there is no such model (404, 410), or
               \* it is overrun (429) or broken (5xx)

EntriesOf(m) ==
    IF RoutesOf[m] = <<>> THEN << [model |-> m, url |-> Home, key |-> NoKey] >>
    ELSE [i \in DOMAIN RoutesOf[m] |-> [model |-> m, url |-> RoutesOf[m][i].url,
                                        key |-> RoutesOf[m][i].key]]
AllEntries == UNION {Range(EntriesOf(m)) : m \in Models}
Urls == {e.url : e \in AllEntries}
Keys == {e.key : e \in AllEntries} \ {NoKey}

VARIABLES
    world,    \* how things are: profile, providers, keys, answers
    next,     \* the entry the walk comes to next
    failed,   \* the entries that were asked and failed, with their causes
    dead,     \* what the walk skips: [url, pair, credential, model]
    outcome   \* "walking", or how the request ended

walkVars == <<next, failed, dead>>
vars == <<world, walkVars, outcome>>

Worlds(answers) ==
    [chain      : Chains,
     profile    : Profiles,
     url        : [Urls -> {"up", "unreachable", "sick"}],
     key        : [Keys -> {"good", "refused", "unfunded"}],
     unloadable : SUBSET Models,         \* what the local broker cannot load
     says       : answers]               \* each entry, to this request

\* Model-major: the groups of the first model, then those of the next.
Entries == FlattenSeq([i \in DOMAIN world.chain |-> EntriesOf(world.chain[i])])

\* The entries of the chain whose provider and key are well.
Reached(w) ==
    {e \in UNION {Range(EntriesOf(m)) : m \in Range(w.chain)} :
       w.url[e.url] = "up" /\ (e.key # NoKey => w.key[e.key] = "good")}

\* What the chain does not meet is as it should be: nothing depends on it.
PlainElsewhere(w) ==
    LET met == UNION {Range(EntriesOf(m)) : m \in Range(w.chain)} IN
    /\ \A u \in Urls \ {e.url : e \in met} : w.url[u] = "up"
    /\ \A k \in Keys \ {e.key : e \in met} : w.key[k] = "good"
    /\ w.unloadable \subseteq {e.model : e \in {x \in Reached(w) : x.url \in Local}}

\* Providers, keys and broker are one thing, what the groups they let through
\* answer is another.
Init ==
    /\ \E w \in {v \in Worlds({[e \in AllEntries |-> "ok"]}) : PlainElsewhere(v)} :
       \E said \in [Reached(w) -> {"ok"} \cup Refusals] :
         world = [w EXCEPT !.says =
                    [e \in AllEntries |-> IF e \in Reached(w) THEN said[e] ELSE "ok"]]
    /\ next = 1 /\ failed = <<>>
    /\ dead = [url |-> {}, pair |-> {}, credential |-> {}, model |-> {}]
    /\ outcome = "walking"

-----------------------------------------------------------------------------
(* The attempt.                                                            *)

\* What the entry answers.  Every status is one the completion layer reports
\* as "API error <status>"; an unreachable URL is a network error.
Answer(e) ==
    CASE world.url[e.url] = "unreachable" -> "network"
      [] world.url[e.url] = "sick" -> "5xx"
      [] OTHER ->
         IF e.key # NoKey /\ world.key[e.key] = "refused" THEN "401"
         ELSE IF e.key # NoKey /\ world.key[e.key] = "unfunded" THEN "402"
         ELSE IF e.url \in Local /\ e.model \in world.unloadable THEN "broker"
         ELSE world.says[e]

\* How the walk reports a failure to the chain.
Kind(answer) ==
    CASE answer = "network" -> "endpoint"
      [] answer = "broker" -> "endpoint-model"
      [] answer = "402" -> "credit"
      [] OTHER -> "model"

\* credentialKeyOf: a key behind a URL.
\* Mutation of Credential: the URL alone.
UrlAlone(e) == <<e.url>>
Credential(e) == <<e.url, e.key>>

Skipped(e) == \/ e.model \in dead.model \/ e.url \in dead.url
              \/ <<e.url, e.model>> \in dead.pair
              \/ e.key # NoKey /\ Credential(e) \in dead.credential

Marked(e, kind) ==
    CASE kind = "endpoint" -> [dead EXCEPT !.url = @ \cup {e.url}]
      [] kind = "endpoint-model" -> [dead EXCEPT !.pair = @ \cup {<<e.url, e.model>>}]
      [] kind = "credit" -> [dead EXCEPT !.credential = @ \cup {Credential(e)}]
      [] OTHER -> [dead EXCEPT !.model = @ \cup {e.model}]

Walking == outcome = "walking" /\ next <= Len(Entries)

Skip ==
    /\ Walking /\ Skipped(Entries[next]) /\ next' = next + 1
    /\ UNCHANGED <<world, failed, dead, outcome>>

Answered ==
    /\ Walking /\ ~Skipped(Entries[next]) /\ Answer(Entries[next]) = "ok"
    /\ outcome' = "answered" /\ UNCHANGED <<world, walkVars>>

Fails ==
    /\ Walking /\ ~Skipped(Entries[next]) /\ Answer(Entries[next]) # "ok"
    /\ LET e == Entries[next]  answer == Answer(e) IN
         /\ failed' = Append(failed, [entry |-> e, cause |-> answer])
         /\ dead' = Marked(e, Kind(answer))
    /\ next' = next + 1 /\ UNCHANGED <<world, outcome>>

\* The dispatch's retry window closes under the attempt, or the command stops:
\* neither is a failure of the entry, and the walk ends.
CutShort ==
    /\ Walking /\ ~Skipped(Entries[next])
    /\ outcome' \in {"out of time", "stopped"} /\ UNCHANGED <<world, walkVars>>

-----------------------------------------------------------------------------
(* The verdict of an exhausted chain.                                      *)

Causes == {failed[i].cause : i \in DOMAIN failed}
FailedModels == {failed[i].entry.model : i \in DOMAIN failed}
FailedUrls == {failed[i].entry.url : i \in DOMAIN failed}

\* detectProviderOutage, confirmed by the probe.
\* Mutation of Outage: the pattern alone.
OutagePattern == /\ Causes # {} /\ Causes \subseteq {"5xx", "network"}
                 /\ \E u \in Urls : FailedUrls = {u}
                 /\ \E m, n \in FailedModels : m # n
Outage == OutagePattern /\ \E u \in FailedUrls : world.url[u] # "up"

\* SERVICE_LEVEL_STATUS_RE, and NON_TRANSIENT_4XX_RE with it.
ServiceLevel == {"401", "403", "404", "410"}
NonTransient == ServiceLevel \cup {"400", "413"}

\* The rules of failDynamicProfile, the first that matches.  A 402 of a group
\* is reported in words of its own, which name no status.
KeyError == "401" \in Causes /\ Causes \subseteq {"401", "402"}
NoCredit == world.profile = "paid" /\ Causes = {"402"}
ThisRequest == Causes \subseteq NonTransient /\ ~(Causes \subseteq ServiceLevel)

\* The first rule that matches.  The command may have been stopped, or be the
\* one retry after a repair, and an update may be impossible to start.
Verdict(stopped, retry, updater) ==
    IF world.profile = "static" THEN "exhausted"
    ELSE IF Outage THEN "outage"
    ELSE IF KeyError THEN "key"
    ELSE IF NoCredit THEN "credit"
    ELSE IF ThisRequest THEN "this request"
    ELSE IF stopped THEN "stopped"
    ELSE IF retry THEN "retry later"
    ELSE IF updater THEN "update" ELSE "exhausted"

Exhaust ==
    /\ outcome = "walking" /\ next > Len(Entries)
    /\ \E stopped, retry, updater \in BOOLEAN :
         outcome' = Verdict(stopped, retry, updater)
    /\ UNCHANGED <<world, walkVars>>

Next == Skip \/ Answered \/ Fails \/ CutShort \/ Exhaust
Spec == Init /\ [][Next]_vars

-----------------------------------------------------------------------------

\* The walk passes a working entry by only when another group refused its
\* model: a provider that cannot be reached, a key without credit or a broker
\* that cannot load never stands for an entry that works.  What has failed is
\* not asked again: the URL, the key behind it, the model at the broker, nor a
\* refused model at any group.
WalkIsThorough ==
    /\ \A k \in 1 .. (next - 1) :
         Answer(Entries[k]) = "ok" =>
           \E i \in DOMAIN failed :
             /\ failed[i].entry.model = Entries[k].model
             /\ failed[i].cause \notin {"network", "402", "broker"}
    /\ \A i, j \in DOMAIN failed :
         i < j =>
           LET e == failed[i].entry  f == failed[j].entry IN
           CASE failed[i].cause = "network" -> e.url # f.url
             [] failed[i].cause = "402" -> e.url # f.url \/ e.key # f.key
             [] failed[i].cause = "broker" -> e.url # f.url \/ e.model # f.model
             [] OTHER -> e.model # f.model

\* What no new list of models can mend.
Asked(e) == \E i \in DOMAIN Entries : Entries[i] = e
AllUp == \A e \in AllEntries : Asked(e) => world.url[e.url] = "up"
KeysRefused ==
    AllUp /\ \A e \in AllEntries :
               Asked(e) => e.key # NoKey /\ world.key[e.key] = "refused"
KeysEmpty ==
    /\ world.profile = "paid" /\ AllUp
    /\ \A e \in AllEntries : Asked(e) => e.key # NoKey /\ world.key[e.key] # "good"
RequestTooMuch == \A e \in AllEntries : Asked(e) => Answer(e) \in {"400", "413"}
OneProviderSick ==
    /\ \E u \in Urls : /\ world.url[u] = "sick"
                       /\ \A e \in AllEntries : Asked(e) => e.url = u
    /\ \E i, j \in DOMAIN world.chain : world.chain[i] # world.chain[j]

\* "an update cannot fix every failure": none is started for a refused key, an
\* empty account, a request that every group refuses, or a provider that is down; and what
\* is said instead is so.
VerdictFits ==
    /\ outcome = "update" =>
         ~(KeysRefused \/ KeysEmpty \/ RequestTooMuch \/ OneProviderSick)
    /\ outcome = "outage" => \E u \in Urls : world.url[u] # "up"
    /\ outcome = "this request" =>
         \E e \in AllEntries : Asked(e) /\ Answer(e) \in {"400", "413"}
=============================================================================
