--------------------------- MODULE ReferenceData ---------------------------
(***************************************************************************)
(* meets_minimum_version (reference.rs): whether the name of a dstack OS   *)
(* image is one the specification's minimum vouches for.                   *)
(*                                                                         *)
(* A step is the publication of the next image: the next patch, minor or   *)
(* major release, or one whose name holds a part that is no number.        *)
(***************************************************************************)
EXTENDS Integers, Sequences, SequencesExt

CONSTANTS
  MaxMajor, MaxMinor, MaxPatch, MaxParts  \* bounds on the names

VARIABLES
  prefixed,  \* the name begins with "dstack-"
  parts      \* the texts between the dots of the rest

vars == <<prefixed, parts>>

Unparsed == -1   \* a part that is no u32

WellFormed(name) == Len(name) = 3 /\ \A i \in DOMAIN name : name[i] # Unparsed

HardenedPatch == 6

\* Mutant: only the image of the hardening itself is vouched for.
PatchMeets_Exactly(patch) == patch = HardenedPatch

PatchMeets(patch) == patch >= HardenedPatch

\* Parts that do not parse are passed over, and those that do are read in order.
ReadAfter(name, i) == {j \in DOMAIN name : i < j /\ name[j] # Unparsed}

MeetsMinimumVersion(named, name) ==
  LET major == Min(ReadAfter(name, 0))
      minor == Min(ReadAfter(name, major))
      patch == Min(ReadAfter(name, minor))
  IN  /\ named
      /\ ReadAfter(name, 0) # {}
      /\ IF /\ name[major] = 0
            /\ ReadAfter(name, major) # {} /\ name[minor] = 5
            /\ ReadAfter(name, minor) # {}
         THEN PatchMeets(name[patch])
         ELSE name[major] > 0

-----------------------------------------------------------------------------
Init == prefixed \in BOOLEAN /\ parts = <<0, 5, 0>>

Release(name) == parts' = name /\ UNCHANGED prefixed

Patch ==
  /\ WellFormed(parts) /\ parts[3] < MaxPatch
  /\ Release([parts EXCEPT ![3] = @ + 1])

Minor ==
  /\ WellFormed(parts) /\ parts[2] < MaxMinor
  /\ Release(<<parts[1], parts[2] + 1, 0>>)

Major ==
  /\ WellFormed(parts) /\ parts[1] < MaxMajor
  /\ Release(<<parts[1] + 1, 0, 0>>)

\* A suffix of a part, a part more or a part less.
Unusual ==
  \/ \E i \in DOMAIN parts : Release([parts EXCEPT ![i] = Unparsed])
  \/ \E i \in 1 .. Len(parts) + 1 :
       /\ Len(parts) < MaxParts
       /\ Release(InsertAt(parts, i, Unparsed))
  \/ Len(parts) > 1 /\ Release(Front(parts))

Next == Patch \/ Minor \/ Major \/ Unusual

Spec == Init /\ [][Next]_vars

-----------------------------------------------------------------------------
(***************************************************************************)
(* Properties.                                                             *)
(***************************************************************************)
Meets == MeetsMinimumVersion(prefixed, parts)

BelowMinimum(name) ==
  /\ name[1] = 0
  /\ name[2] < 5 \/ (name[2] = 5 /\ name[3] < 6)

(***************************************************************************)
(* No image from before the hardening is vouched for, when its name is     *)
(* well formed: dstack-, and three numbers (reference.rs 76-78, 81).       *)
(***************************************************************************)
OldIsNotVouchedFor == (WellFormed(parts) /\ BelowMinimum(parts)) => ~Meets

(***************************************************************************)
(* As images with well-formed names are published, in any order with others*)
(* whose names are not, no old one is vouched for, and a patch release of  *)
(* one that is vouched for, or a new major one, is vouched for as well     *)
(* (reference.rs 75-91).  Of the names with a part that is no number, and  *)
(* of longer and shorter ones, this says nothing.                          *)
(***************************************************************************)
VersionsAreOrdered ==
  [][OldIsNotVouchedFor' /\ (Meets /\ (Patch \/ Major) => Meets')]_vars

(***************************************************************************)
(* What reference.rs:81 says: a name that is not dstack-, a major, a minor *)
(* and a patch number is not vouched for.  A part that does not parse is   *)
(* dropped and the next one is read in its place, so the release candidate *)
(* dstack-0.5.4-rc.6 is taken for patch 6 (85-87).                         *)
(***************************************************************************)
UnparseableIsNotVouchedFor == ~WellFormed(parts) => ~Meets
=============================================================================
