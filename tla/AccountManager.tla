--------------------------- MODULE AccountManager ---------------------------
(***************************************************************************)
(* WARP accounts: src/warp/account.rs, persistence.rs, identity_pool.rs.   *)
(*                                                                         *)
(* AccountManager keeps account.json on disk and, in memory, the instant   *)
(* of the last re-registration attempt.  IdentityPool hands out            *)
(* pre-registered account files round-robin.  The module gives the state   *)
(* and the state changes of each operation; the supervisor (and main, at   *)
(* start) calls them one after the other, so api_lock is never contended   *)
(* and is not modelled.                                                    *)
(*                                                                         *)
(* There are two clocks.  The attempt in memory is an Instant of the       *)
(* monotonic clock; account.json is stamped with the wall clock, in whole  *)
(* seconds, and compared with it.  The wall clock may be set, forwards or  *)
(* back, at any time.  An operation reads both at once: its argument t is  *)
(* the monotonic one, in ticks.                                            *)
(***************************************************************************)
EXTENDS Integers, Sequences

CONSTANTS
    RegisterCooldown,   \* warp.register_cooldown
    PoolFiles,          \* the files of data/identities, in sorted order
    Second,             \* ticks of the clock in a second
    Skews               \* how far the wall clock may be ahead of the monotonic one

NoInstant == -1         \* Option<Instant>::None

Credentials == [origin : {"registered", "pool", "none"}, n : Nat]

AccountFile == [credentials : Credentials, registered_at : Nat]

NoCredentials == [origin |-> "none", n |-> 0]

\* persistence::load returning Ok(None): there is no account.json.
NoFile == [credentials |-> NoCredentials, registered_at |-> 0]

ASSUME AccountAssumption ==
    /\ RegisterCooldown \in Nat
    /\ PoolFiles \in Seq(AccountFile)
    /\ NoFile \notin {PoolFiles[i] : i \in 1 .. Len(PoolFiles)}
    /\ Second \in Nat \ {0}
    /\ Skews \subseteq Nat /\ Skews # {}

VARIABLES
    disk,          \* account.json, or NoFile
    lastAttempt,   \* last_register_attempt
    nextIdx,       \* IdentityPool::next_idx
    skew,          \* how far the wall clock is ahead of the monotonic one
    calls          \* history: number of register() calls, the last one's instant,
                   \* and whether the wall clock has been set since

accountVars == <<disk, lastAttempt, nextIdx, skew, calls>>

Calls == [n : Nat, last : Nat \cup {NoInstant}, wallSet : BOOLEAN]

AccountTypeOK ==
    /\ disk \in AccountFile
    /\ lastAttempt \in Nat \cup {NoInstant}
    /\ nextIdx \in Nat
    /\ skew \in Skews
    /\ calls \in Calls

AccountInit ==
    /\ disk \in {NoFile, [credentials |-> [origin |-> "registered", n |-> 0],
                          registered_at |-> 0]}
    /\ lastAttempt = NoInstant
    /\ nextIdx = 0
    /\ skew \in Skews
    /\ calls = [n |-> 0, last |-> NoInstant, wallSet |-> FALSE]

\* SystemTime::now since the epoch, in ticks.
Wall(t) == t + skew

\* The wall clock is set: by its user, or by a time service.
SetWallClock ==
    /\ skew' \in Skews \ {skew}
    /\ calls' = [calls EXCEPT !.wallSet = TRUE]
    /\ UNCHANGED <<disk, lastAttempt, nextIdx>>

\* A file stamped in the future (the wall clock went back) does not block:
\* duration_since is an Err then.
DiskCooldownActive(t) ==
    LET last == Second * disk.registered_at
    IN  /\ disk # NoFile
        /\ last <= Wall(t)
        /\ Wall(t) - last < RegisterCooldown

AttemptCooldownActive(t) ==
    /\ lastAttempt # NoInstant
    /\ t - lastAttempt < RegisterCooldown

\* The register() request leaves for the WARP API.
CallRegister(t) == calls' = [n |-> calls.n + 1, last |-> t, wallSet |-> FALSE]

\* Mutant of PrepareReregister: the attempt is not recorded before the call.
PrepareReregisterUnstamped(t) ==
    /\ ~ DiskCooldownActive(t)
    /\ ~ AttemptCooldownActive(t)
    /\ CallRegister(t)
    /\ UNCHANGED <<disk, lastAttempt, nextIdx, skew>>

\* prepare_reregister up to the network call.
PrepareReregister(t) ==
    /\ ~ DiskCooldownActive(t)
    /\ ~ AttemptCooldownActive(t)
    /\ lastAttempt' = t
    /\ CallRegister(t)
    /\ UNCHANGED <<disk, nextIdx, skew>>

\* prepare_reregister giving up before the network call: a cooldown is
\* active, or account.json cannot be read.
RefuseReregister(t) ==
    /\ \/ DiskCooldownActive(t)
       \/ AttemptCooldownActive(t)
       \/ disk # NoFile
    /\ UNCHANGED accountVars

\* The account file register_candidate builds when the API answers: as_secs drops
\* what is left of the second.
RegisteredFile(t) ==
    [credentials |-> [origin |-> "registered", n |-> calls.n],
     registered_at |-> Wall(t) \div Second]

\* IdentityPool::next_identity of a pool that is not empty.
NextIdentity == PoolFiles[(nextIdx % Len(PoolFiles)) + 1]

TakeIdentity ==
    /\ PoolFiles # <<>>
    /\ nextIdx' = nextIdx + 1
    /\ UNCHANGED <<disk, lastAttempt, skew, calls>>

\* persistence::save up to and including the rename over account.json.
SaveRename(file) ==
    /\ disk' = file
    /\ UNCHANGED <<lastAttempt, nextIdx, skew, calls>>

\* The process is gone: what was only in memory is lost.
ForgetMemory ==
    /\ lastAttempt' = NoInstant
    /\ nextIdx' = 0
    /\ UNCHANGED <<disk, skew, calls>>
=============================================================================
