-------------------------------- MODULE Lru --------------------------------
(* What a cache of bounded capacity promises (CacheSvcApi): a key that was *)
(* put is found until it is evicted or, when the cache is full, until it   *)
(* is the one used longest ago.                                            *)
EXTENDS Naturals, Sequences

CONSTANTS Key, Value, Capacity, Nil

VARIABLES
    recent,    \* the keys in the cache, the one used longest ago first
    content,   \* their values
    ret        \* what the last operation returned

vars == <<recent, content, ret>>

Init ==
    /\ recent = <<>>
    /\ content = [k \in Key |-> Nil]
    /\ ret = Nil

(* Sequence s without k, which it holds at most once.                      *)
Without(s, k) ==
    IF \A i \in 1 .. Len(s) : s[i] # k THEN s
    ELSE LET i == CHOOSE i \in 1 .. Len(s) : s[i] = k
         IN  [j \in 1 .. Len(s) - 1 |-> IF j < i THEN s[j] ELSE s[j + 1]]

Touch(k) == Append(Without(recent, k), k)

Get(k) ==
    /\ ret' = content[k]
    /\ UNCHANGED content
    /\ recent' = IF content[k] = Nil THEN recent ELSE Touch(k)

IsFull == Capacity > 0 /\ Len(recent) >= Capacity

Update(k, v) ==
    /\ content[k] # Nil \/ ~IsFull
    /\ content' = [content EXCEPT ![k] = v]
    /\ ret' = Nil
    /\ recent' = Touch(k)

Replace(k, v) ==
    /\ content[k] = Nil /\ IsFull
    /\ content' = [content EXCEPT ![Head(recent)] = Nil, ![k] = v]
    /\ ret' = Nil
    /\ recent' = Append(Tail(recent), k)

Evict(k) ==
    /\ content' = [content EXCEPT ![k] = Nil]
    /\ ret' = Nil
    /\ recent' = Without(recent, k)

Next == \E k \in Key : Get(k) \/ Evict(k) \/ \E v \in Value : Update(k, v) \/ Replace(k, v)

Spec == Init /\ [][Next]_vars
=============================================================================
