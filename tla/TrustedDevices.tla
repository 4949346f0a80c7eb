--------------------------- MODULE TrustedDevices ---------------------------
(***************************************************************************)
(* TrustedDeviceService over the cache: a device is trusted while its      *)
(* token, a JWT, verifies and the cache has its key.  A token is made for  *)
(* one mark and never again, so each device here is one token and one key. *)
(*                                                                         *)
(* The cache is TieredCache, whose actions are part of the actions here;   *)
(* the other keys are used by everybody else.                              *)
(***************************************************************************)
EXTENDS TieredCache

CONSTANTS
  Devices,    \* the keys "trusted_device:<user>:<token>"
  DeviceLife  \* TRUSTED_DEVICE_TTL, which is also the lifetime of the token

ASSUME DevicesAssumption == Devices \subseteq Keys /\ DeviceLife \in Lives

VARIABLES
  marked,  \* when each device's token was signed, or None
  dropped  \* history: when a revoke of it first reached Redis, or None

deviceVars == <<marked, dropped>>
trustVars == <<order, mem, redis, ask, scan, clock, sets, gone, marked, dropped>>

(* The types; Redis and L1 know no device that was not marked. *)
TrustTypeOK ==
  /\ TypeOK
  /\ marked \in [Devices -> Nat \cup {None}]
  /\ dropped \in [Devices -> Nat \cup {None}]
  /\ \A d \in Devices : d \in Held \/ redis[d] # None => marked[d] # None

(* Nothing is cached and no device was marked. *)
TrustInit ==
  /\ Init
  /\ marked = [d \in Devices |-> None]
  /\ dropped = [d \in Devices |-> None]

(* jwt.verify: the token of d was signed and has not run out. *)
Verifies(d) == marked[d] # None /\ clock < marked[d] + DeviceLife

(* Mutant: the key names the user alone, so that another sign-in of the    *)
(* user marks it again.                                                    *)
MarkTrustedAgain(d) ==
  /\ \E ok \in BOOLEAN : Set(d, DeviceLife, ok)
  /\ marked' = [marked EXCEPT ![d] = clock]
  /\ UNCHANGED dropped

(* markTrusted, for a sign-in that asks for it: a new token, and its key. *)
MarkTrusted(d) ==
  /\ marked[d] = None
  /\ \E ok \in BOOLEAN : Set(d, DeviceLife, ok)
  /\ marked' = [marked EXCEPT ![d] = clock]
  /\ UNCHANGED dropped

(* revoke, by a sign-out.  A token that does not verify makes it throw, and *)
(* nothing changes.                                                         *)
Revoke(d) ==
  /\ Verifies(d)
  /\ \E ok \in BOOLEAN :
       /\ Del(d, ok)
       /\ dropped' = IF ok /\ dropped[d] = None THEN [dropped EXCEPT ![d] = clock]
                                                ELSE dropped
  /\ UNCHANGED marked

(* isTrusted: the token verifies, and L1 has to ask Redis for the key.  A  *)
(* key in L1 is the answer, and changes nothing.                           *)
IsTrusted(r, d) ==
  /\ Verifies(d)
  /\ \E ok \in BOOLEAN : GetMiss(r, d, ok)
  /\ UNCHANGED deviceVars

-----------------------------------------------------------------------------
(* The answer of a get arrives, for a device or another key. *)
TrustReply(r) == GetReply(r) /\ UNCHANGED deviceVars

(* Everybody else's commands. *)
OtherGet(r, k, ok) == GetMiss(r, k, ok) /\ UNCHANGED deviceVars
OtherSet(k, life, ok) == Set(k, life, ok) /\ UNCHANGED deviceVars
OtherDel(k, ok) == Del(k, ok) /\ UNCHANGED deviceVars
TrustClear == Clear /\ UNCHANGED deviceVars
TrustScan(k) == ScanDelete(k) /\ UNCHANGED deviceVars

(* Timers, the end of the process, time. *)
TrustCleanup == CleanupExpired /\ UNCHANGED deviceVars
TrustRestart == Restart /\ UNCHANGED deviceVars
TrustTick == Tick /\ UNCHANGED deviceVars

TrustNext ==
  \/ \E d \in Devices : MarkTrusted(d) \/ Revoke(d)
  \/ \E r \in Requests, d \in Devices : IsTrusted(r, d)
  \/ \E r \in Requests : TrustReply(r)
  \/ \E r \in Requests, k \in Keys \ Devices, ok \in BOOLEAN : OtherGet(r, k, ok)
  \/ \E k \in Keys \ Devices, life \in Lives, ok \in BOOLEAN : OtherSet(k, life, ok)
  \/ \E k \in Keys \ Devices, ok \in BOOLEAN : OtherDel(k, ok)
  \/ \E k \in Keys : TrustScan(k)
  \/ TrustClear \/ TrustCleanup \/ TrustRestart \/ TrustTick

TrustSpec == TrustInit /\ [][TrustNext]_trustVars

-----------------------------------------------------------------------------
(* A yes of isTrusted that is on its way to request r. *)
Trusting(r, d) == ask[r] # None /\ ask[r].key = d /\ ask[r].answer # None

(* A revoked device is not trusted for long: no new yes comes from Redis,  *)
(* one that was on its way comes within the lag, and what that left in L1  *)
(* is gone after one stay, whatever is evicted or lost in between; and no  *)
(* yes comes later than the lag after the token ran out, although copies   *)
(* in L1 outlive it (auth.trusted-device.service.ts:32-62).                *)
TrustEnds ==
  \A d \in Devices :
    /\ dropped[d] # None =>
         /\ redis[d] = None
         /\ MemLive(d) => clock < dropped[d] + MaxLag + L1TTL
    /\ \A r \in Requests : Trusting(r, d) =>
         /\ clock < marked[d] + DeviceLife + MaxLag
         /\ dropped[d] # None => clock <= dropped[d] + MaxLag

=============================================================================
