------------------------------ MODULE Encrypt ------------------------------
(***************************************************************************)
(* Encrypt (encrypt.cpp): the shift by the session key that hides a line   *)
(* from and to the robot, character by character.  Characters are their    *)
(* codes.                                                                  *)
(***************************************************************************)
EXTENDS Integers

Printable == 32 .. 126
Range95 == 126 - 31    \* the number of printable characters
Char(c) == c % 256

\* The key after setChallenge or setPassword; without both the old one stays.
CalculateKey(key, password, challenge) ==
  IF password = 0 \/ challenge = 0 THEN key ELSE password % challenge

\* encrypt and decrypt do nothing while off; key 0 has the same effect.
ActiveKey(on, key) == IF on THEN key ELSE 0

EncryptChar(key, b) ==
  IF key = 0 THEN b
  ELSE Char(IF b + key > 126 THEN b + key - Range95 ELSE b + key)

DecryptChar(key, b) ==
  IF key = 0 \/ b \notin Printable THEN b
  ELSE Char(IF b - key <= 31 THEN b - key + Range95 ELSE b - key)
=============================================================================
