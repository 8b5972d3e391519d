---------------------------- MODULE MCConfigSvc -----------------------------
(***************************************************************************)
(* Two devices with mappings of up to three entries, of which one is a       *)
(* default; adapters that come with no file or with one of an older version, *)
(* with mappings that are short, and longer than the latest version allows; *)
(* clients fill them up.                                                   *)
(***************************************************************************)
EXTENDS ConfigSvc, TLC

MCNvsMap == 0 :> "nvs"

OldMap(n) ==
    [size |-> n, ents |-> [j \in Index |-> IF j < n THEN "old" ELSE "none"]]

OldFile(v, n, m) ==
    Whole([Zero EXCEPT !.ver = v, !.bank = 1,
                       !.layout = CASE v = 0 -> "v0" [] v = 1 -> "v1" [] OTHER -> "v3",
                       !.maps = [i \in Dev |-> OldMap(IF i = 0 THEN n ELSE m)]])

MCFiles ==
    {NoFile, OldFile(0, 1, 1), OldFile(1, 2, 1), OldFile(1, 4, 1), OldFile(2, 1, 2)}

MCEntry == {"none", "default", "combo", "junk", "nvs", "old", "e1", "e2", "e3", "e4"}

MCEdits == {<<1, "e1">>, <<3, "e2", "e3", "e4">>}
=============================================================================
