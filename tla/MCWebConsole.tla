----------------------------- MODULE MCWebConsole -----------------------------
EXTENDS WebConsole, TLC

CONSTANTS t1, t2, u1, u2, m1, m2, b1, q1, k1, k2, o1, p1, p2, p3

MCFirstUsers == u1 :> Row(t1, m1, "admin") @@ u2 :> NoRow
MCQuoteTenant == q1 :> t1
MCClienteTenant == k1 :> t1 @@ k2 :> t2
MCObraCliente == o1 :> k1
MCProdutoTenant == p1 :> t1 @@ p2 :> t1 @@ p3 :> t1
===============================================================================
