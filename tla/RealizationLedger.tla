------------------------- MODULE RealizationLedger -------------------------
(***************************************************************************)
(* What POST /realize promises to its callers, without saying how: a       *)
(* ledger of digests that only grows.  The first request for a digest that *)
(* is let through is answered ACCEPT and appends it, every later one is    *)
(* answered ALREADY_REALIZED and changes nothing, and a refused request    *)
(* changes nothing.  The decision is one indivisible step, taken some time *)
(* after the request was made.                                             *)
(***************************************************************************)
EXTENDS Naturals, Sequences

CONSTANTS
  Requests,   \* requests that clients may make
  Digests,    \* candidate digests
  None        \* no digest asked for yet

VARIABLES
  ledger,     \* digests realized so far, in order
  asked,      \* the digest each request is about, or None
  outcome     \* how each request was answered

ledgerVars == <<ledger, asked, outcome>>

InLedger(d) == \E i \in 1..Len(ledger) : ledger[i] = d

LedgerInit ==
  /\ ledger = <<>>
  /\ asked = [r \in Requests |-> None]
  /\ outcome = [r \in Requests |-> "pending"]

Waiting(r) == asked[r] # None /\ outcome[r] = "pending"

Ask(r) ==
  /\ asked[r] = None
  /\ \E d \in Digests : asked' = [asked EXCEPT ![r] = d]
  /\ UNCHANGED <<ledger, outcome>>

Realize(r, d) ==
  /\ ~InLedger(d)
  /\ ledger' = Append(ledger, d)
  /\ outcome' = [outcome EXCEPT ![r] = "ACCEPT"]

Repeat(r, d) ==
  /\ InLedger(d)
  /\ outcome' = [outcome EXCEPT ![r] = "ALREADY_REALIZED"]
  /\ UNCHANGED ledger

Refuse(r) ==
  /\ outcome' = [outcome EXCEPT ![r] = "refused"]
  /\ UNCHANGED ledger

Decide(r) ==
  /\ Waiting(r)
  /\ Realize(r, asked[r]) \/ Repeat(r, asked[r]) \/ Refuse(r)
  /\ UNCHANGED asked

\* A request that is made and decided before anything else happens.
AskAndDecide(r) ==
  /\ asked[r] = None
  /\ \E d \in Digests :
       /\ asked' = [asked EXCEPT ![r] = d]
       /\ Realize(r, d) \/ Repeat(r, d) \/ Refuse(r)

LedgerNext == \E r \in Requests : Ask(r) \/ Decide(r) \/ AskAndDecide(r)

LedgerSpec == LedgerInit /\ [][LedgerNext]_ledgerVars
=============================================================================
