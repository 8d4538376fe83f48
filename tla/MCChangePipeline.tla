--------------------------- MODULE MCChangePipeline ---------------------------
(* A package and its __init__.py share a uid, one path is outside the scope, *)
(* and only the package's file exists.                                       *)
EXTENDS ChangePipeline, TLC

CONSTANTS r1, r2, package, init, env, pkgUid, envUid

MCPaths == {package, init, env}
MCUids == {pkgUid, envUid}
MCUidOf == [p \in MCPaths |-> IF p = env THEN envUid ELSE pkgUid]
MCDenied == {env}
MCExisting == {package, env}
MCOneRun == {r1}
MCTwoRuns == {r1, r2}
MCMaxCalls == (r1 :> 2) @@ (r2 :> 1)
MCOneCall == (r1 :> 1)
MCNoCalls == (r1 :> 0) @@ (r2 :> 0)
=============================================================================
