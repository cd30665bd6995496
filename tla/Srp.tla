-------------------------------- MODULE Srp --------------------------------
(***************************************************************************)
(* The arithmetic of the SRP exchange: SrpClientSession (srp-client.cc),   *)
(* SrpServerSession (srp-server.cc) and the secret of a user that both     *)
(* compute with (srp-passwd.cc).  The digests are arbitrary operators.  As *)
(* in the code, where a prime has 1024 bits or more, random numbers 384    *)
(* and digests 160, the exponent a + u * x is smaller than any of the      *)
(* primes, so that reducing it modulo the prime changes nothing.           *)
(***************************************************************************)
EXTENDS Integers, Sequences, SequencesExt

CONSTANTS Primes,     \* kValidPrimes: sequence of pairs, a prime and its generator
          Passwords,  \* small numbers
          Salts,      \* salts: pairs of a size in bytes and a number
          Randoms,    \* what SetFromRandom draws
          KeySalts,   \* what ComputeSalt draws
          Forged,     \* public keys that no session has computed
          MaxDigest,  \* the largest digest that is an exponent
          DigestX(_, _), DigestU(_, _), DigestK(_)  \* SHA-1

VARIABLES
  stored,     \* the user's entry in the database, or NoSecret
  client,     \* the client's session
  server,     \* the server's session
  toServer,   \* the last message to the server, or Silence
  toClient    \* the last message to the client, or Silence

srpVars == <<stored, client, server, toServer, toClient>>

Silence == [kind |-> "none"]
Unset == -1

\* No user: what the database returns fails as an invalid secret would.
NoSecret == [password |-> Unset, secret |-> [index |-> Unset, salt |-> <<0, 0>>, v |-> 0]]

-----------------------------------------------------------------------------
(* Numbers, of OpenSSL.                                                    *)

ModExp(base, exp, n) == FoldLeft(LAMBDA r, i : (r * base) % n, 1 % n, [i \in 1..exp |-> i])
ModMul(a, b, n) == (a * b) % n
ModAdd(a, b, n) == (a + b) % n
ModSub(a, b, n) == (a - b) % n
IsDivisibleBy(a, n) == a % n = 0

ValidIndex(i) == i + 1 \in DOMAIN Primes
GetPrime(i) == Primes[i + 1][1]
GetGenerator(i) == Primes[i + 1][2]

\* The digests: x from the password, u from both public keys, k from the prime
\* and its generator.
CalculateX(salt, password) == DigestX(salt, password)
CalculateU(A, B) == DigestU(A, B)
CalculateK(index) == DigestK(Primes[index + 1])

\* ComputeKey (PBKDF2), of which only matters what it is computed from.
ComputeKey(secret, salt) == <<secret, salt>>

\* A prime: numbers it does not divide have no product that it divides.
IsPrime(n) == n > 1 /\ \A a, b \in 1..(n - 1) : (a * b) % n # 0

ASSUME PrimesAssumption ==
  /\ Primes \in Seq(Nat \X Nat)
  /\ \A i \in DOMAIN Primes : IsPrime(Primes[i][1]) /\ Primes[i][2] \in 1..(Primes[i][1] - 1)

ASSUME DigestsAssumption ==
  /\ MaxDigest \in Nat
  /\ \A salt \in Salts, password \in Passwords : DigestX(salt, password) \in 0..MaxDigest
  /\ \A i \in DOMAIN Primes :
       /\ DigestK(Primes[i]) \in Nat
       /\ \A A \in Forged \union 0..(Primes[i][1] - 1), B \in 0..(Primes[i][1] - 1) :
            DigestU(A, B) \in 0..MaxDigest

ASSUME NumbersAssumption ==
  /\ Randoms \subseteq Nat /\ Forged \subseteq Nat
  /\ \A i \in DOMAIN Primes, a \in Randoms : a + MaxDigest * MaxDigest < Primes[i][1]

-----------------------------------------------------------------------------
(* The secret: SrpSecret.                                                  *)

FromPassword(index, salt, password) ==
  LET x == CalculateX(salt, password)
  IN  [index |-> index, salt |-> salt, x |-> x,
       v |-> ModExp(GetGenerator(index), x, GetPrime(index))]

\* ToSecret leaves x out.
ToSecret(secret) == [index |-> secret.index, salt |-> secret.salt, v |-> secret.v]

FromSecretFails(secret) == secret.salt[1] < 4 \/ ~ValidIndex(secret.index)

\* uvpn-user add.
AddSecret(index, salt, password) ==
  /\ stored = NoSecret
  /\ stored' = [secret |-> ToSecret(FromPassword(index, salt, password)),
                password |-> password]
  /\ UNCHANGED <<client, server, toServer, toClient>>

-----------------------------------------------------------------------------
(* The client.                                                             *)

Fresh == [stage |-> "start", index |-> Unset, salt |-> <<Unset, Unset>>, secret |-> Unset,
          A |-> Unset, B |-> Unset, key |-> <<>>, password |-> Unset]

\* A session ends, with its process: both sides log a fatal error.
Failed(side) == [side EXCEPT !.stage = "failed"]

FillClientHello ==
  /\ client.stage = "start"
  /\ client' = [client EXCEPT !.stage = "hello"]
  /\ toServer' = [kind |-> "hello"]
  /\ UNCHANGED <<stored, server, toClient>>

\* a, in the field secret, and A = g^a % N.
FillClientPublicKey(side, a) ==
  [side EXCEPT !.secret = a,
               !.A = ModExp(GetGenerator(side.index), a, GetPrime(side.index))]

ParseServerHello(index, salt) ==
  /\ client.stage = "hello"
  /\ toClient.kind = "hello"
  /\ toClient = [kind |-> "hello", index |-> index, salt |-> salt]
  /\ IF ~ValidIndex(index) \/ salt[1] < 8
       THEN client' = Failed(client) /\ UNCHANGED toServer
       ELSE \E a \in Randoms \ {0} :
              LET c == FillClientPublicKey([client EXCEPT !.index = index, !.salt = salt], a)
              IN  /\ ~IsDivisibleBy(c.A, GetPrime(index))
                  /\ client' = [c EXCEPT !.stage = "key"]
                  /\ toServer' = [kind |-> "key", number |-> c.A]
  /\ UNCHANGED <<stored, server, toClient>>

\* (B - k * v) ^ (a + u * x) % N, and x and v from the password.
ClientPrivateKey(side, B, password) ==
  LET N      == GetPrime(side.index)
      secret == FromPassword(side.index, side.salt, password)
      u      == CalculateU(side.A, B)
      kmul   == ModMul(CalculateK(side.index), secret.v, N)
      aadd   == ModAdd(side.secret, ModMul(u, secret.x, N), N)
  IN  ModExp(ModSub(B, kmul, N), aadd, N)

\* The key of the protectors: of the secret, and of the salt that follows the
\* server's public key.
RecvSalt(message) == message.salt
SetupKey(secret, salt) == ComputeKey(secret, salt)

\* PublicKeyCallback: ParseServerPublicKey, and the password is asked for.
ParseServerPublicKey(B, password) ==
  /\ client.stage = "key"
  /\ toClient.kind = "key"
  /\ toClient.number = B
  /\ client' = IF IsDivisibleBy(B, GetPrime(client.index)) THEN Failed(client)
               ELSE [client EXCEPT !.stage = "done", !.B = B, !.password = password,
                                   !.key = SetupKey(ClientPrivateKey(client, B, password),
                                                    RecvSalt(toClient))]
  /\ UNCHANGED <<stored, server, toServer, toClient>>

-----------------------------------------------------------------------------
(* The server.                                                             *)

\* StartAuthentication: an unknown user, or an invalid secret, is fatal.
ServerHello ==
  /\ server.stage = "start"
  /\ toServer.kind = "hello"
  /\ IF FromSecretFails(stored.secret)
       THEN server' = Failed(server) /\ UNCHANGED toClient
       ELSE LET secret == stored.secret
            IN  /\ server' = [server EXCEPT !.stage = "hello", !.index = secret.index,
                                            !.salt = secret.salt]
                /\ toClient' = [kind |-> "hello", index |-> secret.index,
                                salt |-> secret.salt]
  /\ UNCHANGED <<stored, client, toServer>>

\* B = k * v + g^b % N; it is g^b that is not to be divisible.
FillServerPublicKey(index, v, b) ==
  LET N == GetPrime(index)
  IN  ModAdd(ModExp(GetGenerator(index), b, N), ModMul(CalculateK(index), v, N), N)

\* (A * v^u) ^ b
ServerPrivateKey(index, v, A, B, b) ==
  LET N == GetPrime(index)
  IN  ModExp(ModMul(A, ModExp(v, CalculateU(A, B), N), N), b, N)

\* Mutant: any public key will do.
ParseAnyPublicKey(A, N) == TRUE

ParseClientPublicKey(A, N) == ~IsDivisibleBy(A, N)

\* SendSalt, behind the public key.
SendSalt(B, salt) == [kind |-> "key", number |-> B, salt |-> salt]

\* ParsePublicKeyCallback.
ServerKey(b, salt) ==
  /\ server.stage = "hello"
  /\ toServer.kind = "key"
  /\ b # 0
  /\ LET A == toServer.number
         N == GetPrime(server.index)
         v == stored.secret.v
         B == FillServerPublicKey(server.index, v, b)
     IN  IF ~ParseClientPublicKey(A, N)
           THEN server' = Failed(server) /\ UNCHANGED toClient
           ELSE /\ ~IsDivisibleBy(ModExp(GetGenerator(server.index), b, N), N)
                /\ server' = [server EXCEPT !.stage = "done", !.A = A, !.B = B,
                                            !.secret = b,
                                            !.key = SetupKey(
                                              ServerPrivateKey(server.index, v, A, B, b),
                                              salt)]
                /\ toClient' = SendSalt(B, salt)
  /\ UNCHANGED <<stored, client, toServer>>

\* Somebody else answers the server's hello.
ForgedKey(A) ==
  /\ server.stage = "hello"
  /\ toServer' = [kind |-> "key", number |-> A]
  /\ UNCHANGED <<stored, client, server, toClient>>

SrpInit ==
  /\ stored = NoSecret
  /\ client = Fresh
  /\ server = Fresh
  /\ toServer = Silence
  /\ toClient = Silence

SrpNext ==
  \/ \E index \in 0..(Len(Primes) - 1), salt \in Salts, password \in Passwords :
       AddSecret(index, salt, password)
  \/ FillClientHello
  \/ \E index \in 0..(Len(Primes) - 1), salt \in Salts : ParseServerHello(index, salt)
  \/ ServerHello
  \/ \E b \in Randoms, salt \in KeySalts : ServerKey(b, salt)
  \/ toClient.kind = "key" /\
       \E password \in Passwords : ParseServerPublicKey(toClient.number, password)
  \/ \E A \in Forged : ForgedKey(A)

SrpSpec == SrpInit /\ [][SrpNext]_srpVars

-----------------------------------------------------------------------------
\* Both sides set their protectors up with the same key, whatever prime the
\* secret was made with and whatever was drawn, when they hold each other's public
\* keys and the password is the one the secret was made from; and the key of the
\* server, who answers anybody, is never made of 0, which no secret is needed
\* to know.
SharedKey ==
  server.stage = "done" =>
    /\ \A salt \in KeySalts : server.key # SetupKey(0, salt)
    /\ /\ client.stage = "done"
       /\ client.A = server.A
       /\ client.B = server.B
       /\ client.password = stored.password
       => client.key = server.key
=============================================================================
