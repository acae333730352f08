------------------------------ MODULE MCAccount ------------------------------
(* Small instances of what surrounds a shop's account: RateLimits,         *)
(* ShopProfile, Payments and Channels.  They share no state: a behaviour   *)
(* exercises one of them and leaves the others as they are.                *)
EXTENDS RateLimits, ShopProfile, Payments, Channels, TLC

CONSTANTS x1, x2, x3, x4, a1, a2   \* spellings and addresses

VARIABLE part   \* "limits", "profile", "payments" or "channels"

\* Two spellings of one address, another address, and blanks.
MCKeyOf == x1 :> a1 @@ x2 :> a1 @@ x3 :> a2 @@ x4 :> NoKey

\* Every chain; the keys are there, or one of them is missing.
MCSettings ==
  {s \in [direct : BOOLEAN, whatsapp : BOOLEAN, template : BOOLEAN, fallback : BOOLEAN,
          telegram : BOOLEAN, bot : BOOLEAN, key : BOOLEAN] :
     Cardinality({f \in {"template", "bot", "key"} : ~s[f]}) <= 1}

MCAnySettings ==
  CHOOSE s \in MCSettings : s.key /\ s.direct

MCInit ==
  /\ LInit /\ PInit /\ MInit /\ CInit
  /\ part \in {"limits", "profile", "payments", "channels"}
  /\ part # "channels" => config = MCAnySettings
  /\ part # "limits" => use = "page"

MCNext ==
  \/ part = "limits"   /\ LNext /\ UNCHANGED <<part, pvars, mvars, cvars>>
  \/ part = "profile"  /\ PNext /\ UNCHANGED <<part, lvars, mvars, cvars>>
  \/ part = "payments" /\ MNext /\ UNCHANGED <<part, lvars, pvars, cvars>>
  \/ part = "channels" /\ CNext /\ UNCHANGED <<part, lvars, pvars, mvars>>

MCSpec == MCInit /\ [][MCNext]_<<part, lvars, pvars, mvars, cvars>>
=============================================================================
