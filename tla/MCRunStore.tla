----------------------------- MODULE MCRunStore -----------------------------
(***************************************************************************)
(* Small instances of RunStore for TLC.                                    *)
(***************************************************************************)
EXTENDS RunStore, TLC

(* Requests differ in content, class, approval and operation; tool,        *)
(* resource and capability are the same throughout.                        *)
Write(op, content, class, approval) ==
    [operation |-> op, action |-> "write", resource |-> "server", payload |-> content,
     class |-> class, approval |-> approval, capability |-> "cap"]

NoRequests == {}

OneRemoteWrite == {Write("act", "c1", "ExternalWrite", FALSE)}

RemoteAndLocal == {Write("act", "c1", "ExternalWrite", FALSE),
                   Write("act", "c2", "LocalWrite", FALSE)}

TwoVariants == {Write("act", "c1", "ExternalWrite", TRUE),
                Write("act", "c2", "ExternalWrite", TRUE)}

(* A write behind approval next to a destructive one.                      *)
ApprovedWrites == {Write("act", "c1", "ExternalWrite", TRUE),
                   Write("drop", "c1", "Destructive", TRUE)}
=============================================================================
