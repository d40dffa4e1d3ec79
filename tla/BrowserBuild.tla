----------------------------- MODULE BrowserBuild -----------------------------
(***************************************************************************)
(* From the packages to the pages: when postinstall has succeeded, the     *)
(* application is built from them, and pages of that build are served.     *)
(* What is installed later does not reach them.                            *)
(***************************************************************************)
EXTENDS WalletSession

VARIABLES
    content,    \* what each file of each script is
    install,    \* the installation under way
    served      \* whether pages are served

SdkInstall == INSTANCE SdkInstall
build == <<content, install, served>>

BuildInit ==
    /\ Init
    /\ SdkInstall!Init
    /\ served = FALSE

(* npm run build, which the workflow reaches only after npm ci.            *)
Serves ==
    /\ install = SdkInstall!Installed
    /\ served' = TRUE
    /\ UNCHANGED <<content, install, vars>>

Installs == SdkInstall!Next /\ UNCHANGED <<served, vars>>

BuildNext ==
    \/ ~served /\ Installs
    \/ ~served /\ Serves
    \/ served /\ Next /\ UNCHANGED build

BuildSpec == BuildInit /\ [][BuildNext]_<<vars, build>>

-----------------------------------------------------------------------------
(* No page has an SDK loaded that is patched in part: its reads go through *)
(* the provider that a check or a review hands over, and its transactions  *)
(* through the one that asks once.  prepareAts sees the exported names     *)
(* only (ats.ts 30-32), so a part of a patch would pass it.                *)
LoadedIsPatched ==
    loaded # {} => \A s \in DOMAIN content : \A i \in DOMAIN content[s] : content[s][i] = "patched"

(* See SdkInstall.                                                         *)
AllOrNothing == SdkInstall!AllOrNothing
=============================================================================
