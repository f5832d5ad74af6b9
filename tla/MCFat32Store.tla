---------------------------- MODULE MCFat32Store ----------------------------
(* The driver with its requests and the file store it implements.          *)
EXTENDS Fat32Store, TLC

CONSTANTS a, txt, root, noName, noExt, p1, p2

MCSize == (p1 :> 1) @@ (p2 :> 2)

(* Behaviours are followed up to the call that damages the disk.           *)
Undamaged == Sound

(* Bound: one entry bears the extension, a file a of one cluster, and only *)
(* while callers keep to the rules.                                        *)
OneExtension == \A s \in Listings : EntryAt(s).ext = txt =>
    /\ EntryAt(s).name = a /\ EntryAt(s).size = 1 /\ mishaps = {}
    /\ \A r \in Listings : EntryAt(r).ext = txt => r = s

(* The request is only told to the file store; which calls are possible    *)
(* does not depend on it.                                                  *)
WithoutRequest == vars
=============================================================================
