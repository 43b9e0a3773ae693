-------------------------- MODULE MCResourceManager --------------------------
(***************************************************************************)
(* Instance of ResourceManager for TLC: the calls of Acquire that a few    *)
(* parallel tests make for two shared resources.                           *)
(***************************************************************************)
EXTENDS ResourceManager, TLC

CONSTANTS h1, h2, h3, h4, crds, kong

(* Three tests share one resource, a fourth one uses another.              *)
MCKeyOf == (h1 :> crds) @@ (h2 :> crds) @@ (h3 :> crds) @@ (h4 :> kong)
=============================================================================
