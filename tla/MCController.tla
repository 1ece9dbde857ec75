---------------------------- MODULE MCController ------------------------------
(***************************************************************************)
(* Small instances of Controller: an adapter that claims and needs a       *)
(* Secret, one that only polls and needs none, one nobody registered.      *)
(***************************************************************************)
EXTENDS Controller, TLC

CONSTANTS hosted, capacity, typo, key, empty

MCConfigs   == {hosted, capacity, typo}
MCCreds     == {key, empty}
MCKnown     == {hosted, capacity}
MCReferring == {hosted}
MCWritten   == {<<FALSE, TRUE, hosted>>, <<FALSE, FALSE, hosted>>, <<TRUE, TRUE, hosted>>,
                <<FALSE, TRUE, capacity>>, <<FALSE, TRUE, typo>>}
MCBuilds    == {<<hosted, key>>, <<capacity, None>>}
=============================================================================
