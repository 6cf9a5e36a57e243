-------------------------- MODULE MCPureFunctions --------------------------
(* What Superset's configuration computes, for TLC: a behaviour writes SQL   *)
(* and takes its cache key, or takes one option through the charm into       *)
(* Superset, or sends one response through the rewriter.                     *)
EXTENDS CacheKeyNorm, WorkloadConfig, PermissionRewriter

Init ==
    \/ CacheInit /\ ConfigUnused /\ RewriterUnused
    \/ CacheUnused /\ ConfigInit /\ RewriterUnused
    \/ CacheUnused /\ ConfigUnused /\ RewriterInit

SqlInUse == option = "unused" /\ response = NoResponse

Next ==
    \/ SqlInUse /\ CacheNext /\ UNCHANGED <<configVars, rewriterVars>>
    \/ ConfigNext /\ UNCHANGED <<cacheVars, rewriterVars>>
    \/ RewriteResponse /\ UNCHANGED <<cacheVars, configVars>>

\* Operators of PostgreSQL that are made of two characters of the runs.
CompoundOperators == {<<"|", "|">>, <<"|", "/">>, <<"<", "=">>}

Spec == Init /\ [][Next]_<<cacheVars, configVars, rewriterVars>>
=============================================================================
