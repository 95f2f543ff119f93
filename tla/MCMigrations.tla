----------------------------- MODULE MCMigrations -----------------------------
(***************************************************************************)
(* Migrations for TLC: a chain of three models over the lookup tables,     *)
(* registered in two unfortunate orders, with depends_on empty (what       *)
(* discovery generates), naming the referred models, or going round in a   *)
(* circle; and the models of a shop with empty depends_on, registered in   *)
(* the order of their file names.                                          *)
(***************************************************************************)
EXTENDS Migrations

MCModels == {"user", "organizations", "product", "user_type_lk"}
MCOrders == {<<"product", "organizations", "user">>, <<"organizations", "user", "product">>}
MCDependsOn ==
    {[m \in MCModels \ Lookups |-> {}],
     [m \in MCModels \ Lookups |-> ParentTables(m)],
     [m \in MCModels \ Lookups |-> IF m = "user" THEN {"product"} ELSE ParentTables(m)]}

ShopOrder == <<"cart", "cart_item", "orders", "order_item", "organizations",
               "payment_transaction", "product", "user">>
ShopOrders == {ShopOrder}
ShopModels == ToSet(ShopOrder) \cup
              {"payment_method_type_lk", "payment_provider_lk", "payment_status_lk",
               "status_lk", "user_type_lk"}
NoDependsOn == {[m \in ShopModels \ Lookups |-> {}]}
=============================================================================
