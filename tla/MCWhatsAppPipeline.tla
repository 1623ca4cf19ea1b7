------------------------ MODULE MCWhatsAppPipeline ------------------------
(* Meta delivers a customer's text in two payloads, each with an approval  *)
(* of the owner's behind it; before it comes a picture of hers in one and  *)
(* a question of his in the other.                                         *)
EXTENDS WhatsAppPipeline, TLC

CONSTANTS d1, d2, m1, m2, ok1, ok2, hi, ann, owner

MCDeliveries == {d1, d2}
MCBatch == d1 :> <<m2, m1, ok1>> @@ d2 :> <<hi, m1, ok2>>
MCKind == m1 :> "text" @@ m2 :> "media" @@ hi :> "chat" @@ ok1 :> "send" @@ ok2 :> "send"
MCFrom == m1 :> ann @@ m2 :> ann @@ hi :> owner @@ ok1 :> owner @@ ok2 :> owner
=============================================================================
