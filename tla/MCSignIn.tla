------------------------------ MODULE MCSignIn ------------------------------
(***************************************************************************)
(* Small instances of the handles of the brokered flows (Handles) and of    *)
(* the limits on passwords (Passwords).  They share no state, so a          *)
(* behaviour is one's alone.                                                *)
(***************************************************************************)
EXTENDS TLC, Naturals, Sequences

CONSTANTS
    \* Of Handles.
    near, far, MaxHandles, Callers, Household, Flows, Offered, Lifetime, MaxPerClient, MaxTotal, HandlesEnd,
    \* Of Passwords.
    Window, MaxKeys, UserNames, Addresses, Attempts, PerName, Threshold, MaxPause, MaxWaiting, Horizon

VARIABLES
    half,
    today, handle, registered, toSweep, sweeping, request, jellyfin,   \* of Handles
    clock, names, pauses, attempt, tried              \* of Passwords

MCLifetime == ("plex_pin" :> 1) @@ ("quick_connect" :> 1)
MCOffered ==
    {<<"quick_connect", "sign_in">>, <<"plex_pin", "sign_in">>, <<"plex_pin", "owner_token">>}

H == INSTANCE Handles WITH
    Clients <- Callers, Private <- Household, MaxTime <- HandlesEnd, now <- today,
        flight <- request, session <- jellyfin

P == INSTANCE Passwords WITH
    Names <- UserNames, Clients <- Addresses, MaxTime <- Horizon, now <- clock

ASSUME HandlesAssumption == H!HandlesAssumption
ASSUME PasswordsAssumption == P!PasswordsAssumption

ofHandles == <<today, handle, registered, toSweep, sweeping, request, jellyfin>>
ofPasswords == <<clock, names, pauses, attempt, tried>>

OfHandles(action) == half = "handles" /\ UNCHANGED <<half, ofPasswords>> /\ action

MCInit == half \in {"handles", "passwords"} /\ H!Init /\ P!Init
MCNext ==
    \/ OfHandles(H!Next)
    \/ half = "passwords" /\ UNCHANGED <<half, ofHandles>> /\ P!Next
MCVars == <<half, ofHandles, ofPasswords>>
MCSpec ==
    /\ MCInit /\ [][MCNext]_MCVars
    /\ WF_MCVars(OfHandles(H!Tick)) /\ WF_MCVars(OfHandles(H!SweepStep))

\* Handles!CapsHold, EvictionIsFair and ApprovedSessionsEnd.
CapsHold == H!CapsHold
EvictionIsFair == H!EvictionIsFair
\* Passwords!LeakIsBounded, LiveBucketsStay and CapHolds.
LeakIsBounded == P!LeakIsBounded
LiveBucketsStay == P!LiveBucketsStay
CapHolds == P!CapHolds
=============================================================================
