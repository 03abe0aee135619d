------------------------- MODULE RateLimiterProofs -------------------------
(***************************************************************************)
(* Theorems about RateLimiter for any number of requests, any window and   *)
(* any clients.                                                            *)
(***************************************************************************)
EXTENDS RateLimiter, TLAPS

(* A history L whose last window began with its entry b.  Entry s began a  *)
(* window: the next one began more than a window later, and so did every   *)
(* entry that came too late for its own.                                   *)

Began(L, b, s) ==
  /\ s \in 1 .. b
  /\ s < b => L[b] > L[s] + Window
  /\ \A j \in s + Requests .. Len(L) : L[j] > L[s] + Window

(* Each entry is followed, among the next Requests, by one that began a    *)
(* later window.                                                           *)

Windows(L, b, t) ==
  /\ b \in 1 .. Len(L)
  /\ Len(L) < b + Requests
  /\ \A i, j \in 1 .. Len(L) : i <= j => L[i] <= L[j]
  /\ \A i \in 1 .. Len(L) : L[i] <= t /\ L[i] <= L[b] + Window
  /\ \A i \in 1 .. b - 1 : L[i] < L[b]
  /\ \A i \in 1 .. Len(L) - Requests :
       \E s \in i + 1 .. i + Requests : L[i] < L[s] /\ Began(L, b, s)

LEMMA Appended ==
  ASSUME NEW L \in Seq(Nat), NEW u \in Nat
  PROVE  /\ Append(L, u) \in Seq(Nat)
         /\ Len(L) \in Nat /\ Len(Append(L, u)) = Len(L) + 1
         /\ Append(L, u)[Len(L) + 1] = u
         /\ \A i \in 1 .. Len(L) : Append(L, u)[i] = L[i] /\ L[i] \in Nat
OBVIOUS

LEMMA FirstWindow ==
  ASSUME NEW u \in Nat
  PROVE  Windows(Append(<< >>, u), 1, u)
<1> DEFINE M == Append(<< >>, u)
<1>1. Len(M) = 1 /\ M[1] = u
  OBVIOUS
<1> HIDE DEF M
<1>2. QED
  BY <1>1, LimiterAssumption DEF Windows, M

\* A window that opens after the last one has expired.
LEMMA NextWindow ==
  ASSUME NEW L \in Seq(Nat), NEW b \in Nat, NEW t \in Nat, NEW u \in Nat,
         Windows(L, b, t), u > L[b] + Window
  PROVE  Windows(Append(L, u), Len(L) + 1, u)
<1> DEFINE M == Append(L, u)
           n == Len(L)
<1>1. /\ n \in Nat /\ Len(M) = n + 1 /\ M[n + 1] = u
      /\ \A i \in 1 .. n : M[i] = L[i] /\ L[i] \in Nat
  BY Appended
<1>2. Requests \in Nat \ {0} /\ Window \in Nat \ {0}
  BY LimiterAssumption
<1>3. b \in 1 .. n /\ n < b + Requests /\ \A i \in 1 .. n : L[i] < u
  BY <1>1, <1>2 DEF Windows
<1> HIDE DEF M, n
<1>4. ASSUME NEW s \in 1 .. n, Began(L, b, s) PROVE Began(M, n + 1, s)
  <2>1. s \in 1 .. b /\ L[s] <= L[b]
    BY <1>3, <1>4 DEF Began, Windows, n
  <2>2. u > L[s] + Window
    BY <1>1, <1>2, <1>3, <2>1
  <2>3. \A j \in s + Requests .. n : L[j] > L[s] + Window
    BY <1>4 DEF Began, n
  <2>4. ASSUME NEW j \in s + Requests .. n + 1 PROVE M[j] > M[s] + Window
    <3>1. CASE j = n + 1
      BY <1>1, <1>3, <2>1, <2>2, <3>1
    <3>2. CASE j # n + 1
      <4>1. j \in s + Requests .. n /\ j \in 1 .. n
        BY <1>1, <1>2, <1>3, <3>2
      <4>2. QED
        BY <1>1, <2>3, <4>1
    <3>3. QED
      BY <3>1, <3>2
  <2>5. QED
    BY <1>1, <1>3, <2>1, <2>2, <2>4 DEF Began
<1>5. ASSUME NEW i \in 1 .. n + 1 - Requests
      PROVE  \E s \in i + 1 .. i + Requests : M[i] < M[s] /\ Began(M, n + 1, s)
  <2>1. CASE i = n + 1 - Requests
    <3>1. n + 1 \in i + 1 .. i + Requests /\ i \in 1 .. n
      BY <1>1, <1>2, <2>1
    <3>2. M[i] < M[n + 1]
      BY <1>1, <1>3, <3>1
    <3>3. Began(M, n + 1, n + 1)
      BY <1>1, <1>2 DEF Began
    <3>4. QED
      BY <3>1, <3>2, <3>3
  <2>2. CASE i # n + 1 - Requests
    <3>1. i \in 1 .. n - Requests
      BY <1>1, <1>2, <2>2
    <3>2. PICK s \in i + 1 .. i + Requests : L[i] < L[s] /\ Began(L, b, s)
      BY <3>1 DEF Windows, n
    <3>3. s \in 1 .. n /\ i \in 1 .. n
      BY <1>1, <1>2, <3>1
    <3>4. M[i] < M[s] /\ Began(M, n + 1, s)
      BY <1>1, <1>4, <3>2, <3>3
    <3>5. QED
      BY <3>4
  <2>3. QED
    BY <2>1, <2>2
<1>6. ASSUME NEW i \in 1 .. n + 1, NEW j \in 1 .. n + 1, i <= j
      PROVE  M[i] <= M[j]
  <2>1. CASE j = n + 1
    <3>1. i = n + 1 \/ i \in 1 .. n
      BY <1>1
    <3>2. i \in 1 .. n => M[i] \in Nat /\ M[i] < u
      BY <1>1, <1>3
    <3>3. QED
      BY <1>1, <2>1, <3>1, <3>2
  <2>2. CASE j # n + 1
    <3>1. i \in 1 .. n /\ j \in 1 .. n
      BY <1>1, <1>6, <2>2
    <3>2. L[i] <= L[j]
      BY <1>6, <3>1 DEF Windows, n
    <3>3. QED
      BY <1>1, <3>1, <3>2
  <2>3. QED
    BY <2>1, <2>2
<1>7. \A i \in 1 .. n + 1 : M[i] <= u /\ M[i] <= M[n + 1] + Window
  <2>1. ASSUME NEW i \in 1 .. n + 1 PROVE M[i] \in Nat /\ M[i] <= u
    BY <1>1, <1>3, <1>6, SMTT(60)
  <2>2. QED
    BY <1>1, <1>2, <2>1, SMTT(60)
<1>8. \A i \in 1 .. n : M[i] < M[n + 1]
  BY <1>1, <1>3
<1>9. Windows(M, n + 1, u)
  BY <1>1, <1>2, <1>3, <1>5, <1>6, <1>7, <1>8 DEF Windows
<1>10. QED
  BY <1>9 DEF M, n

\* A request that joins the open window.
LEMMA SameWindow ==
  ASSUME NEW L \in Seq(Nat), NEW b \in Nat, NEW u \in Nat,
         Windows(L, b, u), u <= L[b] + Window, Len(L) + 1 < b + Requests
  PROVE  Windows(Append(L, u), b, u)
<1> DEFINE M == Append(L, u)
           n == Len(L)
<1>1. /\ n \in Nat /\ Len(M) = n + 1 /\ M[n + 1] = u
      /\ \A i \in 1 .. n : M[i] = L[i] /\ L[i] \in Nat
  BY Appended
<1>2. Requests \in Nat \ {0} /\ Window \in Nat \ {0}
  BY LimiterAssumption
<1>3. b \in 1 .. n /\ n + 1 < b + Requests /\ \A i \in 1 .. n : L[i] <= u
  BY <1>1, <1>2 DEF Windows
<1> HIDE DEF M, n
<1>4. ASSUME NEW s \in 1 .. n, Began(L, b, s) PROVE Began(M, b, s)
  <2>1. s \in 1 .. b /\ (s < b => L[b] > L[s] + Window)
    BY <1>4 DEF Began
  <2>2. ASSUME n + 1 >= s + Requests PROVE u > L[s] + Window
    BY <1>1, <1>2, <1>3, <2>1, <2>2
  <2>3. \A j \in s + Requests .. n : L[j] > L[s] + Window
    BY <1>4 DEF Began, n
  <2>4. ASSUME NEW j \in s + Requests .. n + 1 PROVE M[j] > M[s] + Window
    <3>1. CASE j = n + 1
      BY <1>1, <1>2, <1>3, <2>1, <2>2, <3>1
    <3>2. CASE j # n + 1
      <4>1. j \in s + Requests .. n /\ j \in 1 .. n
        BY <1>1, <1>2, <1>3, <3>2
      <4>2. QED
        BY <1>1, <2>3, <4>1
    <3>3. QED
      BY <3>1, <3>2
  <2>5. QED
    BY <1>1, <1>3, <2>1, <2>4 DEF Began
<1>5. ASSUME NEW i \in 1 .. n + 1 - Requests
      PROVE  \E s \in i + 1 .. i + Requests : M[i] < M[s] /\ Began(M, b, s)
  <2>1. CASE i = n + 1 - Requests
    <3>1. b \in i + 1 .. i + Requests /\ i \in 1 .. b - 1
      BY <1>1, <1>2, <1>3, <2>1
    <3>2. M[i] < M[b]
      BY <1>1, <1>3, <3>1 DEF Windows
    <3>3. Began(M, b, b)
      BY <1>1, <1>2, <1>3 DEF Began
    <3>4. QED
      BY <3>1, <3>2, <3>3
  <2>2. CASE i # n + 1 - Requests
    <3>1. i \in 1 .. n - Requests
      BY <1>1, <1>2, <2>2
    <3>2. PICK s \in i + 1 .. i + Requests : L[i] < L[s] /\ Began(L, b, s)
      BY <3>1 DEF Windows, n
    <3>3. s \in 1 .. n /\ i \in 1 .. n
      BY <1>1, <1>2, <3>1
    <3>4. M[i] < M[s] /\ Began(M, b, s)
      BY <1>1, <1>4, <3>2, <3>3
    <3>5. QED
      BY <3>4
  <2>3. QED
    BY <2>1, <2>2
<1>6. ASSUME NEW i \in 1 .. n + 1, NEW j \in 1 .. n + 1, i <= j
      PROVE  M[i] <= M[j]
  <2>1. CASE j = n + 1
    BY <1>1, <1>3, <2>1
  <2>2. CASE j # n + 1
    <3>1. i \in 1 .. n /\ j \in 1 .. n
      BY <1>1, <1>6, <2>2
    <3>2. L[i] <= L[j]
      BY <1>6, <3>1 DEF Windows, n
    <3>3. QED
      BY <1>1, <3>1, <3>2
  <2>3. QED
    BY <2>1, <2>2
<1>7. /\ \A i \in 1 .. n + 1 : M[i] <= u /\ M[i] <= M[b] + Window
      /\ \A i \in 1 .. b - 1 : M[i] < M[b]
  <2>1. /\ \A i \in 1 .. n : L[i] <= u /\ L[i] <= L[b] + Window
        /\ \A i \in 1 .. b - 1 : L[i] < L[b]
        /\ u <= L[b] + Window
    BY DEF Windows, n
  <2>2. ASSUME NEW i \in 1 .. n + 1 PROVE M[i] <= u /\ M[i] <= M[b] + Window
    <3>1. CASE i = n + 1
      BY <1>1, <1>3, <2>1, <3>1
    <3>2. CASE i # n + 1
      <4>1. i \in 1 .. n
        BY <1>1, <3>2
      <4>2. QED
        BY <1>1, <1>3, <2>1, <4>1
    <3>3. QED
      BY <3>1, <3>2
  <2>3. ASSUME NEW i \in 1 .. b - 1 PROVE M[i] < M[b]
    <3>1. i \in 1 .. n
      BY <1>1, <1>3
    <3>2. QED
      BY <1>1, <1>3, <2>1, <3>1
  <2>4. QED
    BY <2>2, <2>3
<1>8. Windows(M, b, u)
  BY <1>1, <1>2, <1>3, <1>5, <1>6, <1>7 DEF Windows
<1>9. QED
  BY <1>8 DEF M

-----------------------------------------------------------------------------
\* The position in the history at which the window of client k began.
Beginning(k) == Len(admitted[k]) - clients[k].count + 1

ClientInv(k) ==
  /\ clients[k] = NoWindow => admitted[k] = << >>
  /\ clients[k] # NoWindow =>
       /\ clients[k].count \in 1 .. Len(admitted[k])
       /\ clients[k].expires = admitted[k][Beginning(k)] + Window
       /\ Windows(admitted[k], Beginning(k), now)

LimiterInv == LimiterTypeOK /\ \A k \in Clients : ClientInv(k)

LEMMA LimiterInvInit == LimiterInit => LimiterInv
BY DEF LimiterInit, LimiterInv, LimiterTypeOK, ClientInv

LEMMA OpenWindowInv ==
  ASSUME LimiterInv, NEW k \in Clients, OpenWindow(k)
  PROVE  LimiterInv'
<1> DEFINE L == admitted[k]
           w == [count |-> 1, expires |-> now + Window]
<1>1. L \in Seq(Nat) /\ now \in Nat /\ Window \in Nat /\ Requests \in Nat \ {0}
  BY LimiterAssumption DEF LimiterInv, LimiterTypeOK
<1>2. w \in [count : Nat, expires : Nat] /\ w.count = 1 /\ w.expires = now + Window
  BY <1>1
<1>3. /\ clients' = [clients EXCEPT ![k] = w]
      /\ admitted' = [admitted EXCEPT ![k] = Append(L, now)]
      /\ now' = now
  BY DEF OpenWindow
<1> HIDE DEF w
<1>4. /\ Append(L, now) \in Seq(Nat) /\ Len(Append(L, now)) = Len(L) + 1
      /\ Append(L, now)[Len(L) + 1] = now /\ Len(L) \in Nat
  BY <1>1, Appended
<1>5. LimiterTypeOK'
  BY <1>2, <1>3, <1>4 DEF LimiterInv, LimiterTypeOK
<1>6. /\ clients'[k] = w /\ admitted'[k] = Append(L, now) /\ w # NoWindow
      /\ \A c \in Clients \ {k} : clients'[c] = clients[c] /\ admitted'[c] = admitted[c]
  BY <1>2, <1>3, LimiterAssumption DEF LimiterInv, LimiterTypeOK
<1>7. Windows(Append(L, now), Len(L) + 1, now)
  <2>1. CASE clients[k] = NoWindow
    <3>1. L = << >>
      BY <2>1 DEF LimiterInv, ClientInv
    <3>2. QED
      BY <1>1, <3>1, FirstWindow
  <2>2. CASE clients[k] # NoWindow
    <3>1. /\ clients[k].count \in 1 .. Len(L)
          /\ clients[k].expires = L[Beginning(k)] + Window
          /\ Windows(L, Beginning(k), now)
      BY <2>2 DEF LimiterInv, ClientInv
    <3>2. Beginning(k) \in 1 .. Len(L)
      BY <1>4, <3>1 DEF Beginning
    <3>3. L[Beginning(k)] \in Nat
      BY <1>1, <3>2
    <3>4. now > L[Beginning(k)] + Window
      BY <1>1, <2>2, <3>1, <3>3 DEF OpenWindow, Open
    <3> DEFINE b == Beginning(k)
    <3>5. b \in Nat /\ Windows(L, b, now) /\ now > L[b] + Window
      BY <1>4, <3>1, <3>2, <3>4
    <3> HIDE DEF b
    <3>6. QED
      BY <1>1, <3>5, NextWindow
  <2>3. QED
    BY <2>1, <2>2
<1>8. ClientInv(k)'
  <2>1. Beginning(k)' = Len(L) + 1
    BY <1>2, <1>4, <1>6 DEF Beginning
  <2>2. QED
    BY <1>2, <1>3, <1>4, <1>6, <1>7, <2>1 DEF ClientInv
<1>9. \A c \in Clients \ {k} : ClientInv(c)'
  BY <1>3, <1>6 DEF LimiterInv, ClientInv, Beginning
<1>10. QED
  BY <1>5, <1>8, <1>9 DEF LimiterInv

LEMMA JoinWindowInv ==
  ASSUME LimiterInv, NEW k \in Clients, JoinWindow(k)
  PROVE  LimiterInv'
<1> DEFINE L == admitted[k]
           w == clients[k]
           b == Beginning(k)
<1>1. L \in Seq(Nat) /\ now \in Nat /\ Window \in Nat /\ Requests \in Nat \ {0}
  BY LimiterAssumption DEF LimiterInv, LimiterTypeOK
<1>2. /\ w # NoWindow /\ w \in [count : Nat, expires : Nat]
      /\ now <= w.expires /\ w.count < Requests
  BY <1>1 DEF JoinWindow, Open, Full, LimiterInv, LimiterTypeOK
<1>3. /\ w.count \in 1 .. Len(L)
      /\ w.expires = L[b] + Window
      /\ Windows(L, b, now)
  BY <1>2 DEF LimiterInv, ClientInv
<1>4. /\ Append(L, now) \in Seq(Nat) /\ Len(Append(L, now)) = Len(L) + 1
      /\ Len(L) \in Nat /\ \A i \in 1 .. Len(L) : Append(L, now)[i] = L[i]
  BY <1>1, Appended
<1>5. b \in 1 .. Len(L) /\ Len(L) + 1 < b + Requests
  <2>1. b = Len(L) - w.count + 1
    BY DEF Beginning
  <2> HIDE DEF b, w, L
  <2>2. QED
    BY <1>1, <1>2, <1>3, <1>4, <2>1
<1>6. /\ now' = now
      /\ admitted'[k] = Append(L, now)
      /\ clients'[k] \in [count : Nat, expires : Nat]
      /\ clients'[k].count = w.count + 1 /\ clients'[k].expires = w.expires
      /\ \A c \in Clients \ {k} : clients'[c] = clients[c] /\ admitted'[c] = admitted[c]
  BY <1>2 DEF JoinWindow, LimiterInv, LimiterTypeOK
<1>7. LimiterTypeOK'
  <2>1. clients' \in [Clients -> [count : Nat, expires : Nat] \cup {NoWindow}]
    BY <1>6 DEF JoinWindow, LimiterInv, LimiterTypeOK
  <2>2. admitted' \in [Clients -> Seq(Nat)]
    BY <1>4 DEF JoinWindow, LimiterInv, LimiterTypeOK
  <2>3. QED
    BY <1>1, <1>6, <2>1, <2>2 DEF LimiterTypeOK
<1>8. Windows(Append(L, now), b, now)
  BY <1>1, <1>2, <1>3, <1>5, SameWindow
<1>9. ClientInv(k)'
  <2>1. Beginning(k)' = b
    <3>1. /\ b = Len(L) - w.count + 1
          /\ Beginning(k)' = Len(admitted'[k]) - clients'[k].count + 1
      BY DEF Beginning
    <3> HIDE DEF b, w, L
    <3>2. QED
      BY <1>2, <1>4, <1>6, <3>1
  <2>2. clients'[k].count \in 1 .. Len(admitted'[k])
    BY <1>2, <1>3, <1>4, <1>6
  <2>3. clients'[k].expires = admitted'[k][b] + Window
    BY <1>3, <1>4, <1>5, <1>6
  <2>4. Windows(admitted'[k], b, now')
    BY <1>6, <1>8
  <2>5. clients'[k] # NoWindow
    BY <1>6, LimiterAssumption
  <2>6. QED
    BY <2>1, <2>2, <2>3, <2>4, <2>5 DEF ClientInv
<1>10. \A c \in Clients \ {k} : ClientInv(c)'
  BY <1>6 DEF LimiterInv, ClientInv, Beginning
<1>11. QED
  BY <1>7, <1>9, <1>10 DEF LimiterInv

LEMMA LimiterInvStep == LimiterInv /\ [LimiterNext]_limiterVars => LimiterInv'
<1> SUFFICES ASSUME LimiterInv, [LimiterNext]_limiterVars PROVE LimiterInv'
  OBVIOUS
<1>1. ASSUME NEW k \in Clients, Admit(k) PROVE LimiterInv'
  BY <1>1, OpenWindowInv, JoinWindowInv DEF Admit
<1>2. CASE Tick
  <2>1. LimiterTypeOK'
    BY <1>2 DEF Tick, LimiterInv, LimiterTypeOK
  <2>2. ASSUME NEW k \in Clients PROVE ClientInv(k)'
    <3>1. /\ clients' = clients /\ admitted' = admitted
          /\ now' = now + 1 /\ now \in Nat /\ admitted[k] \in Seq(Nat)
      BY <1>2 DEF Tick, LimiterInv, LimiterTypeOK
    <3>2. \A b : Windows(admitted[k], b, now) => Windows(admitted[k], b, now + 1)
      <4>1. \A i \in 1 .. Len(admitted[k]) : admitted[k][i] \in Nat
        BY <3>1
      <4>2. \A i \in 1 .. Len(admitted[k]) :
              admitted[k][i] <= now => admitted[k][i] <= now + 1
        BY <3>1, <4>1
      <4>3. QED
        BY <4>2 DEF Windows
    <3>3. QED
      BY <3>1, <3>2 DEF LimiterInv, ClientInv, Beginning
  <2>3. QED
    BY <2>1, <2>2 DEF LimiterInv
<1>3. CASE GatewayRestarts
  BY <1>3 DEF GatewayRestarts, LimiterInv, LimiterTypeOK, ClientInv
<1>4. CASE UNCHANGED limiterVars
  BY <1>4 DEF limiterVars, LimiterInv, LimiterTypeOK, ClientInv, Beginning
<1>5. QED
  BY <1>1, <1>2, <1>3, <1>4 DEF LimiterNext

LEMMA LimiterSafety == LimiterSpec => []LimiterInv
BY LimiterInvInit, LimiterInvStep, PTL DEF LimiterSpec

\* The clock, the windows and the history have their types.
THEOREM LimiterTypeCorrect == LimiterSpec => []LimiterTypeOK
<1>1. LimiterInv => LimiterTypeOK
  BY DEF LimiterInv
<1>2. QED
  BY <1>1, LimiterSafety, PTL

\* No interval of a window's length sees more than twice the limit, however the
\* requests of a client fall around the ends of its windows (ratelimit.go 57-75).
THEOREM BurstsAreBounded == LimiterSpec => []TwiceTheLimit
<1>1. LimiterInv => TwiceTheLimit
  <2> SUFFICES ASSUME LimiterInv, NEW k \in Clients,
                      NEW i \in 1 .. Len(admitted[k]) - 2 * Requests
               PROVE  admitted[k][i + 2 * Requests] > admitted[k][i] + Window
    BY DEF TwiceTheLimit
  <2> DEFINE L == admitted[k]
             b == Beginning(k)
             n == Len(L)
  <2>1. /\ L \in Seq(Nat) /\ n \in Nat
        /\ Requests \in Nat \ {0} /\ Window \in Nat
        /\ i \in 1 .. n - 2 * Requests
    BY LimiterAssumption DEF LimiterInv, LimiterTypeOK
  <2>2. clients[k] # NoWindow
    BY <2>1 DEF LimiterInv, ClientInv
  <2>3. Windows(L, b, now)
    BY <2>2 DEF LimiterInv, ClientInv
  <2> HIDE DEF L, b, n
  <2>4. i \in 1 .. n - Requests
    BY <2>1
  <2>5. PICK s \in i + 1 .. i + Requests : L[i] < L[s] /\ Began(L, b, s)
    BY <2>3, <2>4 DEF Windows, n
  <2>6. i + 2 * Requests \in s + Requests .. n /\ i \in 1 .. n /\ s \in 1 .. n
    BY <2>1, <2>5
  <2>7. L[i + 2 * Requests] > L[s] + Window
    BY <2>5, <2>6 DEF Began, n
  <2>8. i + 2 * Requests \in 1 .. n
    BY <2>1
  <2>9. L[i] \in Nat /\ L[s] \in Nat /\ L[i + 2 * Requests] \in Nat
    BY <2>1, <2>6, <2>8 DEF n
  <2>10. L[i + 2 * Requests] > L[i] + Window
    BY <2>5, <2>7, <2>9, LimiterAssumption, SMTT(60)
  <2>11. QED
    BY <2>10 DEF L
<1>2. QED
  BY <1>1, LimiterSafety, PTL

\* Nobody is refused who has not had the allowed requests within the last window
\* (ratelimit.go 61-71).
THEOREM NoUndeservedRefusal == LimiterSpec => []RefusalsAreDeserved
<1>1. LimiterInv => RefusalsAreDeserved
  <2> SUFFICES ASSUME LimiterInv, NEW k \in Clients, Full(k)
               PROVE  /\ Len(admitted[k]) >= Requests
                      /\ admitted[k][Len(admitted[k]) - Requests + 1] + Window >= now
    BY DEF RefusalsAreDeserved
  <2>1. clients[k] # NoWindow /\ now <= clients[k].expires /\ clients[k].count >= Requests
    BY DEF Full, Open
  <2>2. /\ clients[k].count \in 1 .. Len(admitted[k])
        /\ clients[k].expires = admitted[k][Beginning(k)] + Window
        /\ Len(admitted[k]) < Beginning(k) + Requests
    BY <2>1 DEF LimiterInv, ClientInv, Windows
  <2>3. Len(admitted[k]) \in Nat /\ Requests \in Nat
    BY LimiterAssumption DEF LimiterInv, LimiterTypeOK
  <2>4. clients[k].count = Requests
    BY <2>1, <2>2, <2>3 DEF Beginning
  <2>5. QED
    BY <2>1, <2>2, <2>3, <2>4 DEF Beginning
<1>2. QED
  BY <1>1, LimiterSafety, PTL
=============================================================================
