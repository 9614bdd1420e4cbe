---------------------------- MODULE NativeServer ----------------------------
(***************************************************************************)
(* research/native_server_v3.py: the launches of a native server.  A       *)
(* launch materialises every frozen request, has the upstream runtime      *)
(* encode each of them without truncation, publishes that evidence once,   *)
(* and only then serves; its /health carries the digest of the evidence.   *)
(* A digest stands for what it is a digest of.                             *)
(***************************************************************************)
EXTENDS Integers, Sequences, FiniteSets, SequencesExt

CONSTANTS
    Launches,       \* processes started by the operator
    NoOne,          \* no process at the port, no evidence, no digest
    Paths,          \* names given as --evidence-output
    FullContext,    \* FULL_LEGAL_CONTEXT
    LegacyContext,  \* LEGACY_CONTEXT
    StrictContext,  \* max_state of Kev's encoder
    QuestionTokens, \* tokens a question adds to a state
    Prefix          \* tokens of a text cut to PREFIX_CHARS

ASSUME NativeAssumption ==
    /\ NoOne \notin Launches
    /\ {FullContext, LegacyContext, StrictContext, QuestionTokens, Prefix} \subseteq Nat

VARIABLES
    stage,      \* of each launch: "idle", "checked", "published", "frozen",
                \* "serving", "ended"
    config,     \* its command line
    digest,     \* its HealthEvidenceBinding
    published,  \* the evidence file at each path
    port        \* the process that answers at the loopback port, or NoOne

nativeVars == <<stage, config, digest, published, port>>

InitNative(configs, files, process) ==
    /\ stage = [l \in Launches |-> "idle"]
    /\ config = configs
    /\ digest = [l \in Launches |-> NoOne]
    /\ published = files
    /\ port = process

-----------------------------------------------------------------------------
(* The frozen requests *)

Request(i, arm, tokens) == [index |-> i, arm |-> arm, tokens |-> tokens]

\* Both arms of each row longer than the prefix, row by row.
LegacyRequests(rows) ==
    FlattenSeq([i \in DOMAIN rows |->
        IF rows[i].tokens > Prefix
        THEN <<Request(i, "prefix", Prefix), Request(i, "full", rows[i].tokens)>>
        ELSE <<>>])

FullRequests(rows) ==
    [i \in DOMAIN rows |-> Request(i, "full", rows[i].tokens)]

\* The rows of a prepared file against the data they were frozen from.
LegacyLoads(p, data) ==
    /\ Len(p.rows) = Len(data)
    /\ \A i \in DOMAIN data : p.rows[i].options = data[i].options

FullLegalLoads(p, data) ==
    /\ p.genuine
    /\ p.source = data
    /\ p.rows = data

CamaraLoads(p, data) ==
    /\ Len(p.rows) = Len(data)
    /\ \A i \in DOMAIN data : p.rows[i].options = data[i].options

DataLoads(c) ==
    \/ c.prepared.mode = "v1legacydiag" /\ LegacyLoads(c.prepared, c.data)
    \/ c.prepared.mode = "v3legalfull" /\ FullLegalLoads(c.prepared, c.data)
    \/ c.prepared.mode = "v3camara" /\ CamaraLoads(c.prepared, c.data)

Requests(c) == IF c.prepared.mode = "v1legacydiag"
               THEN LegacyRequests(c.data) ELSE FullRequests(c.data)

-----------------------------------------------------------------------------
(* The preflight of each runtime *)

IsFullLegal(c) == c.prepared.mode = "v3legalfull"

Budget(c) == IF IsFullLegal(c) THEN FullContext ELSE LegacyContext

\* What the model declares; zero when it declares none.
ContextLimit(c) == IF IsFullLegal(c) THEN c.limit ELSE LegacyContext

Width(r) == r.tokens + QuestionTokens

KevEncodes(c) ==
    /\ c.base
    /\ \A r \in ToSet(Requests(c)) : r.tokens <= StrictContext

DeciderEncodes(c) ==
    \A r \in ToSet(Requests(c)) :
        r.tokens <= Budget(c) /\ Width(r) <= ContextLimit(c)

LevEncodes(c) ==
    \A r \in ToSet(Requests(c)) : Width(r) <= ContextLimit(c)

LayaBudget(c) == IF ContextLimit(c) < Budget(c)
                 THEN ContextLimit(c) ELSE Budget(c)

\* The sequence upstream builds must be the complete one.
LayaComplete(c, r) == c.options /\ Width(r) <= LayaBudget(c)

LayaEncodes(c) == \A r \in ToSet(Requests(c)) : LayaComplete(c, r)

Preflight(c) ==
    /\ IsFullLegal(c) /\ c.kind # "kev" => c.limit > 0
    /\ \/ c.kind = "kev" /\ KevEncodes(c)
       \/ c.kind = "decider" /\ DeciderEncodes(c)
       \/ c.kind = "lev" /\ LevEncodes(c)
       \/ c.kind = "laya" /\ LayaEncodes(c)

\* The tokens of a state and its question that the runtime will take.
Takes(c) ==
    CASE c.kind = "kev" -> StrictContext + QuestionTokens
      [] c.kind = "laya" -> LayaBudget(c)
      [] OTHER -> ContextLimit(c)

\* Who launched it is in the evidence: the port, the runtime and its files.
EvidenceOf(l) ==
    [checkpoint |-> config[l].checkpoint, runtime |-> config[l].kind,
     context |-> Takes(config[l]), prompt |-> config[l].prepared,
     server |-> config[l].port, health |-> NoOne, checked |-> TRUE]

-----------------------------------------------------------------------------
(* A launch *)

End(l) == stage' = [stage EXCEPT ![l] = "ended"]

\* configure_environment, CUDA, the frozen requests and their preflight: for
\* Kev and Laya before uvicorn, for Decider and Lev in the lifespan, either
\* way before the port is bound.
StartServer(l) ==
    /\ stage[l] = "idle"
    /\ IF config[l].cuda /\ DataLoads(config[l]) /\ Preflight(config[l])
       THEN stage' = [stage EXCEPT ![l] = "checked"] ELSE End(l)
    /\ UNCHANGED <<config, digest, published, port>>

\* publish_immutable: a hard link, never a replacement.
Publish(l) ==
    /\ stage[l] = "checked"
    /\ IF published[config[l].path] = NoOne
       THEN /\ published' = [published EXCEPT ![config[l].path] = EvidenceOf(l)]
            /\ stage' = [stage EXCEPT ![l] = "published"]
       ELSE End(l) /\ UNCHANGED published
    /\ UNCHANGED <<config, digest, port>>

Freeze(l) ==
    /\ stage[l] = "published"
    /\ digest' = [digest EXCEPT ![l] = EvidenceOf(l)]
    /\ stage' = [stage EXCEPT ![l] = "frozen"]
    /\ UNCHANGED <<config, published, port>>

\* uvicorn ends when another process holds the port.
TakePort(l) ==
    /\ stage[l] = "frozen"
    /\ IF port = NoOne
       THEN stage' = [stage EXCEPT ![l] = "serving"] /\ port' = l
       ELSE End(l) /\ UNCHANGED port
    /\ UNCHANGED <<config, digest, published>>

\* Killed, once it has left something behind; a port is free again.
KillServer(l) ==
    /\ stage[l] \in {"published", "frozen", "serving"}
    /\ End(l)
    /\ port' = IF port = l THEN NoOne ELSE port
    /\ UNCHANGED <<config, digest, published>>

LaunchStep(l) == StartServer(l) \/ Publish(l) \/ Freeze(l) \/ TakePort(l)
=============================================================================
