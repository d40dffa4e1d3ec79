------------------------------ MODULE SdkInstall ------------------------------
(***************************************************************************)
(* The packages that npm has extracted are made fit by its postinstall     *)
(* scripts: rebuild-proto.mjs generates the protobuf modules anew, then    *)
(* patch-ats-readonly.mjs and patch-ats-wallet.mjs each change some files  *)
(* of the pinned ATS SDK.  A script may stop at any point, in the middle   *)
(* of writing a file too, and the scripts be run again from the first.     *)
(*                                                                         *)
(* A file is as it was published, as the scripts make it, or other: half   *)
(* written, or of another release.  The texts and their digests are not    *)
(* modelled.                                                               *)
(***************************************************************************)
EXTENDS Integers, Sequences

VARIABLES
    content,    \* what each file of each script is
    install     \* the script under way, and what is still to be written

vars == <<content, install>>

-----------------------------------------------------------------------------
(* Every name is there twice: in two packages, or for two kinds of module. *)
Twice(first, second, names) ==
    [i \in 1..Len(names) |-> <<first, names[i]>>] \o [i \in 1..Len(names) |-> <<second, names[i]>>]

outputs == Twice("@hashgraph/sdk", "@hiero-ledger/sdk", <<"src/proto.js", "lib/proto.js">>)

(* Reads may be handed a provider of the application.                      *)
patches ==
    Twice("esm", "cjs",
        <<"request/index.js", "request/index.d.ts", "JsonRpcRelay.d.ts", "RPCQueryAdapter.js",
          "RPCQueryAdapter.d.ts", "SetNetworkCommandHandler.js">>)

(* Transactions too, and the SDK itself then does not listen to the wallet. *)
walletPatches ==
    Twice("esm", "cjs",
        <<"index.js", "index.d.ts", "Network.js", "Network.d.ts", "RPCTransactionAdapter.js",
          "RPCTransactionAdapter.d.ts", "MetamaskService.js", "MetamaskService.d.ts">>)

Scripts == <<outputs, patches, walletPatches>>
Patchers == {2, 3}
Original == [s \in DOMAIN Scripts |-> [i \in DOMAIN Scripts[s] |-> "original"]]

Stopped == [step |-> "stopped"]
Installed == [step |-> "installed"]
Checking(s) == [step |-> "checking", script |-> s]
Writing(s, pending) == [step |-> "writing", script |-> s, pending |-> pending]

Init ==
    /\ content = Original
    /\ install = Stopped

(* npm ci, external, brings the published files back; at most one of them  *)
(* is not the one that the scripts were written for.                       *)
Extracts ==
    /\ install.step \in {"stopped", "installed"}
    /\ \/ content' = Original
       \/ \E s \in DOMAIN content : \E i \in DOMAIN content[s] :
            content' = [Original EXCEPT ![s][i] = "other"]
    /\ install' = Stopped

(* postinstall.                                                            *)
Starts ==
    /\ install.step \in {"stopped", "installed"}
    /\ install' = Checking(1)
    /\ UNCHANGED content

(* rebuild-proto stages every output before it replaces any.               *)
Stages ==
    /\ install = Checking(1)
    /\ install' = Writing(1, DOMAIN outputs)
    /\ UNCHANGED content

(* Mutant: a patch whose first file is patched counts as applied.          *)
UnpatchedFirst(s) ==
    {i \in DOMAIN content[s] : content[s][i] = "original" /\ content[s][1] = "original"}

(* What a patch has to change.                                             *)
Unpatched(s) == {i \in DOMAIN content[s] : content[s][i] = "original"}

(* Mutant: a file that is not expected is only left out.                   *)
Unlooked(s) == install.script = s

Expected(s) == \A i \in DOMAIN content[s] : content[s][i] # "other"

(* Every file is validated before any is written.                          *)
Valid(s) == install.script = s /\ Expected(s)

(* patchAtsReadonly, patchAtsWallet.  When a file is not expected, the     *)
(* script stops.                                                           *)
Validates ==
    /\ install.step = "checking"
    /\ \E s \in Patchers :
         /\ Valid(s)
         /\ install' = Writing(s, Unpatched(s))
    /\ UNCHANGED content

(* writeFileSync, one file after the other.                                *)
WriteStarts ==
    /\ install.step = "writing"
    /\ \E i \in install.pending :
         /\ \A j \in install.pending : i <= j
         /\ content' = [content EXCEPT ![install.script][i] = "other"]
         /\ install' = [step |-> "halfway", script |-> install.script, file |-> i,
                        pending |-> install.pending \ {i}]

WriteEnds ==
    /\ install.step = "halfway"
    /\ content' = [content EXCEPT ![install.script][install.file] = "patched"]
    /\ install' = Writing(install.script, install.pending)

ScriptEnds ==
    /\ install.step = "writing" /\ install.pending = {}
    /\ install' = IF install.script = Len(Scripts) THEN Installed ELSE Checking(install.script + 1)
    /\ UNCHANGED content

(* Killed, the disk full, or an assertion that fails.                      *)
Stops ==
    /\ install.step \in {"checking", "writing", "halfway"}
    /\ install' = Stopped
    /\ UNCHANGED content

Next ==
    \/ Extracts \/ Starts \/ Stages \/ Validates
    \/ WriteStarts \/ WriteEnds \/ ScriptEnds \/ Stops

-----------------------------------------------------------------------------
(* A patch changes published files only, and none while any file of its    *)
(* own is neither published nor patched, be it one that an earlier run     *)
(* left half written ("Validate every file before writing any",            *)
(* patch-ats-wallet.mjs 252).                                              *)
AllOrNothing ==
    [][install.step = "writing" =>
         \A s \in Patchers : \A i \in DOMAIN content[s] :
             content'[s][i] # content[s][i] => content[s][i] = "original" /\ Expected(s)]_vars
=============================================================================
