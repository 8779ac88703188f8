------------------------------ MODULE MC_Credits ------------------------------
(* Model-checking instance of Credits.  The action table is an instance of *)
(* the shape removebg_actions has (prices in mcredits; a larger size falls *)
(* back to a smaller one below its min_resolution; only the preview can be *)
(* a free API call), with a chain of three fallbacks so that the recursion   *)
(* of updateForResolution matters.  Resolutions are in megapixels.         *)
EXTENDS Credits

MCApis == {"full", "hd", "medium", "preview"}
MCActions ==
    [a \in MCApis |->
       CASE a = "full"    -> [mcredits |-> 1000, canBeFree |-> FALSE,
                              min_resolution |-> 4, alternative |-> "hd"]
         [] a = "hd"      -> [mcredits |-> 750, canBeFree |-> FALSE,
                              min_resolution |-> 3, alternative |-> "medium"]
         [] a = "medium"  -> [mcredits |-> 500, canBeFree |-> FALSE,
                              min_resolution |-> 2, alternative |-> "preview"]
         [] a = "preview" -> [mcredits |-> 250, canBeFree |-> TRUE,
                              min_resolution |-> NoMin, alternative |-> "preview"]]
MCBalances == {-250, 0, 250, 500, 1000}
MCRequestedSizes == {"undefined", "4k", "auto", "full", "hd", "medium", "other"}
=============================================================================
