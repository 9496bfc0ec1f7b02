---------------------------------- MODULE Platform ----------------------------------
(***************************************************************************)
(* What serves every part of the ledger: the change feed to the devices    *)
(* (ChangeFeed), who may come in (Access), reminders (Reminders) and the   *)
(* files of imports (ImportFiles).  They share no state here: a behaviour  *)
(* is one of one of them, `part' says which.  The variables of ChangeFeed  *)
(* stay as they were in the others; those of the others are None           *)
(* elsewhere.                                                              *)
(***************************************************************************)
EXTENDS ChangeFeed

CONSTANTS
    None,
    Worker,                                      \* requests, scans, purges
    User, Invite, Challenge, Code, Session, Device, Discord,
        MaxPasskeys, MaxRequests,                \* as in Access
    Once, Daily, Window, PerDay, Cooldown, Horizon, Preferences,   \* as in Reminders
    File                                         \* as in ImportFiles

VARIABLES
    part,
    mode, claimed, user, invite, challenge, passkeys, totp, codes, session, device,
        token, link, job, asked, crossed,
    now, prefs, settled, said, sent, scan, changed, together,
    stored, leftover, file, due, import, purge, orphaned

access == <<mode, claimed, user, invite, challenge, passkeys, totp, codes, session, device,
            token, link, job, asked, crossed>>
reminders == <<now, prefs, settled, said, sent, scan, changed, together>>
files == <<stored, leftover, file, due, import, purge, orphaned>>

X == INSTANCE Access
R == INSTANCE Reminders WITH Scan <- Worker, log <- said, crossed <- together
F == INSTANCE ImportFiles WITH Purger <- Worker, row <- file

\* None is the absence of a row, of a reference and of a device.
NoneAssumption ==
    /\ None \notin X!UserRow \cup X!ChallengeRow \cup X!SessionRow \cup X!DeviceRow \cup X!LinkRow
    /\ None \notin Device \cup R!Thing \cup {"discord", "web_push"}
    /\ None \notin File \cup {"parsed", "failed", "purged"}

\* Ids are not the words that stand for the other ways to become a user; a user may
\* have a passkey, and clients make some number of requests.
AccessAssumption ==
    /\ Invite \cap {"setup", "open"} = {}
    /\ MaxPasskeys \in Nat \ {0} /\ MaxRequests \in Nat

\* Every kind of reminder is said either once or daily (events.ts), and the hours of
\* the preferences are hours of a day.
RemindersAssumption ==
    /\ Once \cap Daily = {}
    /\ PerDay \in Nat \ {0} /\ Cooldown \in Nat /\ Horizon \in Nat
    /\ Preferences \subseteq [discord : BOOLEAN, push : BOOLEAN, muted : SUBSET R!Thing,
                              quietFrom : 0..PerDay - 1, quietTo : 0..PerDay - 1]

ASSUME PlatformAssumption == NoneAssumption /\ AccessAssumption /\ RemindersAssumption

-------------------------------------------------------------------------------
(* One of them.                                                            *)

\* The variables of a part that is not there.
NoAccess ==
    /\ mode = None /\ claimed = None /\ user = None /\ invite = None
    /\ challenge = None /\ passkeys = None /\ totp = None /\ codes = None
    /\ session = None /\ device = None /\ token = None /\ link = None /\ job = None
    /\ asked = None /\ crossed = None
NoReminders ==
    /\ now = None /\ prefs = None /\ settled = None /\ said = None /\ sent = None
    /\ scan = None /\ changed = None /\ together = None
NoFiles ==
    /\ stored = None /\ leftover = None /\ file = None /\ due = None /\ import = None
    /\ purge = None /\ orphaned = None

PlatformInit ==
    /\ Init
    /\ \/ part = "feed" /\ NoAccess /\ NoReminders /\ NoFiles
       \/ part = "access" /\ X!Init /\ NoReminders /\ NoFiles
       \/ part = "reminders" /\ R!Init /\ NoAccess /\ NoFiles
       \/ part = "files" /\ F!Init /\ NoAccess /\ NoReminders

PlatformNext ==
    \/ part = "feed" /\ Next /\ UNCHANGED <<part, access, reminders, files>>
    \/ part = "access" /\ X!Next /\ UNCHANGED <<part, vars, reminders, files>>
    \/ part = "reminders" /\ R!Next /\ UNCHANGED <<part, vars, access, files>>
    \/ part = "files" /\ F!Next /\ UNCHANGED <<part, vars, access, reminders>>

platformVars == <<part, vars, access, reminders, files>>

PlatformSpec == PlatformInit /\ [][PlatformNext]_platformVars

-------------------------------------------------------------------------------
(* Properties: those of ChangeFeed, and of the others about their part.    *)

\* The state of each part is of its type: sessions are of registered users, a file has
\* a row only once it is stored, what was delivered was recorded.
PlatformTypeOK ==
    /\ TypeOK
    /\ part = "access" => X!TypeOK
    /\ part = "reminders" => R!TypeOK
    /\ part = "files" => F!TypeOK

\* What may be used once - the first user's claim, an invitation, a challenge, a
\* recovery code - lets one request in, and a Discord account speaks for one user
\* (auth.ts, passkeys.ts, discord.ts; Access.UsedOnce and OneUserPerDiscord).
OneTimeThings == part = "access" => X!UsedOnce /\ X!OneUserPerDiscord

\* A revoked device has no live session, and whoever has a passkey has recovery codes
\* (sync.ts, passkey-routes.ts; Access.NoSessionOnRevokedDevice and PasskeyHasCodes).
DevicesAndPasskeys == part = "access" => X!NoSessionOnRevokedDevice /\ X!PasskeyHasCodes

\* Every file on the disk is one that retention will find (file-store.ts, retention.ts;
\* ImportFiles.EveryFileIsAccounted).
FilesAreAccounted == part = "files" => F!EveryFileIsAccounted

\* A reminder is said once a day at most, and not again within its cooldown
\* (notification-scheduler.ts; Reminders.SaidOnce and CooldownKept).
RemindersAreSaidOnce == part = "reminders" => R!SaidOnce /\ R!CooldownKept

\* The cooldown is kept, without the exception that RemindersAreSaidOnce makes (dedup.ts;
\* Reminders.NotSaidAgain).
CooldownIsKept == part = "reminders" => R!NotSaidAgain

\* What a step may not do: bring back a revoked device, an ended session or a used
\* code; begin a scan of reminders in the quiet hours (Access.EndedStaysEnded,
\* Reminders.QuietIsKept).
NothingComesBack ==
    [][/\ part = "access" => X!EndedStays
       /\ part = "reminders" => R!BeginsOutside]_platformVars

===============================================================================
