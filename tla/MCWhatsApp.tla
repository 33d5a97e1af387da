------------------------------ MODULE MCWhatsApp ------------------------------
EXTENDS WhatsApp, TLC

CONSTANTS w1, w2, ana, bia, stop, hello, parcel, quoted

MCFrom == stop :> ana @@ hello :> bia
MCVia == stop :> "text" @@ hello :> "button"
MCWord == stop :> "stop" @@ hello :> "quote"
MCPhone == parcel :> ana @@ quoted :> ana
MCKind == parcel :> "order_created" @@ quoted :> "quote_created"
===============================================================================
