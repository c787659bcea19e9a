---------------------------------- MODULE Jwt ----------------------------------
(***************************************************************************)
(* JWT (src/jwt.cpp): a token is header.payload.signature, each part in    *)
(* base64, the signature made with the private key over the text of the    *)
(* first two.  What mbedtls is asked can fail; a token is minted anyhow.   *)
(***************************************************************************)
EXTENDS Base64

Dot == 67
Algs == {"RS256", "HS256", "ES256"}

\* JWT::JWT(): of the three algorithms one is there, and it needs an RSA key.
new_jwt(alg, key) ==
  [alg |-> alg, key |-> key, valid |-> key = "rsa" /\ alg = "RS256"]

\* mbedtls_pk_sign(): some function of the text, to be told from others, shorter than
\* the key.
key_len == 3
pk_sign(text) ==
  LET after[i \in 0..Len(text)] ==
        IF i = 0 THEN <<7, 1>>
        ELSE <<(31 * after[i - 1][1] + after[i - 1][2] + text[i]) % 256, after[i - 1][1]>>
  IN after[Len(text)]

\* A slip: the length of the signature is not taken from mbedtls_pk_sign().
sign_RS256_key_len(jwt, text, fails) ==
  IF ~jwt.valid \/ jwt.alg # "RS256" \/ "md" \in fails \/ "sign" \in fails THEN <<>>
  ELSE pk_sign(text) \o [i \in 1..(key_len - Len(pk_sign(text))) |-> 0]

\* sign_RS256(): nothing when the key, the hash or the signing fails, else what
\* mbedtls_pk_sign() put into a string of key_len bytes.
sign_RS256(jwt, text, fails) ==
  IF ~jwt.valid \/ jwt.alg # "RS256" \/ "md" \in fails \/ "sign" \in fails THEN <<>>
  ELSE pk_sign(text)

\* sign()
sign(jwt, text, fails) ==
  IF jwt.alg = "RS256" THEN sign_RS256(jwt, text, fails) ELSE <<>>

\* mint(): the header says RS256 whatever alg is.
mint(jwt, header, payload, fails) ==
  LET text == encode(header) \o <<Dot>> \o encode(payload)
  IN text \o <<Dot>> \o encode(sign(jwt, text, fails))

-----------------------------------------------------------------------------
\* A reader that cuts a token at its dots finds the header and the payload, and a
\* signature that is the key's for the text before the second dot; unless the key
\* is not an RSA key, or mbedtls failed: then it is empty.
TokenSays(alg, key, header, payload, fails) ==
  LET token == mint(new_jwt(alg, key), header, payload, fails)
      dots == {i \in 1..Len(token) : token[i] = Dot}
      first == Min(dots)
      second == Max(dots)
      text == SubSeq(token, 1, second - 1)
      signed == alg = "RS256" /\ key = "rsa" /\ fails = {}
  IN /\ Cardinality(dots) = 2
     /\ decode(SubSeq(token, 1, first - 1)) = header
     /\ decode(SubSeq(token, first + 1, second - 1)) = payload
     /\ decode(SubSeq(token, second + 1, Len(token)))
          = IF signed THEN pk_sign(text) ELSE <<>>
=============================================================================
