--------------------------- MODULE MCModuleProxy ---------------------------
EXTENDS ModuleProxy, TLC

MCWanted == ("old" :> "v135") @@ ("new" :> "v136")
=============================================================================
